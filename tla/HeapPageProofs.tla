--------------------------- MODULE HeapPageProofs ---------------------------
(***************************************************************************)
(* Proofs about module HeapPage, for any set of transactions and families, *)
(* any number of line pointers and row versions, any page and log sizes.   *)
(*                                                                         *)
(* The invariant has three layers: the fates of transactions as the commit *)
(* log holds them; the row versions of the history and how those of one    *)
(* root supersede each other; and how the tuples on the page stand for     *)
(* them.  Fates only move one way, so that a step of the log disturbs none *)
(* of the other two; every other step leaves the log alone.                *)
(***************************************************************************)
EXTENDS HeapPage, FiniteSetTheorems, WellFoundedInduction, TLAPS

St(x) == status_in_page(clog, x)
\* Aborted, or a subtransaction of an aborted transaction.
Doomed(x) == x \in Xids /\ (St(x) = Aborted \/ St(SubOf[x]) = Aborted)
Top(x) == IF x \in Xids THEN SubOf[x] ELSE x

By(v) == vers[v].by
Ends(v) == vers[v].ends
Root(v) == vers[v].root
VerAt(o) == page[o].tup.ver

TupleType == [xmin : Xids \cup {0, FROZEN_XID}, xmax : Nat, lockOnly : BOOLEAN,
              multi : BOOLEAN, ctid : 0..NSlots, heapOnly : BOOLEAN, hotUpdated : BOOLEAN,
              bitmap : {0, 2}, attrs : {0, 8}, ver : 0..MaxVers]
ItemType == [lp : LP_UNUSED..LP_DEAD, to : 0..NSlots, tup : TupleType]
VerType == [root : Offnums, by : Xids \cup {FROZEN_XID}, ends : SUBSET Xids]
Member == [xid : Xids, status : Nat]
RowType == Offnums \X (1..MaxVers)
Emission == [pc : {"idle", "walk", "done", "failed"}, todo : Seq(Offnums \X Offnums),
             out : SUBSET RowType, subs : BOOLEAN, intact : BOOLEAN,
             seen : SUBSET RowType, absent : SUBSET Offnums]

Typed ==
    /\ page \in Seq(ItemType) /\ Len(page) <= NSlots
    /\ vers \in Seq(VerType) /\ Len(vers) <= MaxVers
    /\ offsets \in Seq(Nat \ {0}) /\ members \in Seq(Member)
    /\ clog \in [{ByteOf(x) : x \in Xids} -> 0..255]
    /\ em \in Emission

\* What the log says of a family.
Families ==
    /\ \A x \in Xids : St(x) = Committed => St(SubOf[x]) = Committed
    /\ \A x \in Xids : St(SubOf[x]) = Committed => St(x) # InProgress
    /\ \A x \in Xids : St(SubOf[x]) # SubCommitted
    /\ \A x, y \in Xids :
          /\ SubOf[x] = SubOf[y] /\ y # SubOf[y] /\ St(SubOf[y]) = InProgress
          /\ St(x) = SubCommitted /\ St(y) = InProgress
          => ByteOf(y) \div PageBytes = ByteOf(SubOf[y]) \div PageBytes

\* The members of one multixact end before the next one's start.
Multis ==
    \A m \in DOMAIN offsets :
        /\ offsets[m] <= Len(members)
        /\ m + 1 \in DOMAIN offsets => offsets[m] < offsets[m + 1]

\* The xmax of a tuple names at most one updater, none if it is only a lock.
Stamped ==
    \A o \in Tuples(page) :
        /\ page[o].tup.multi => page[o].tup.xmax \in DOMAIN offsets
        /\ ~page[o].tup.multi => page[o].tup.xmax \in Xids \cup {INVALID_XID}
        /\ page[o].tup.lockOnly => UpdaterOf(o) = {}
        /\ \A x, y \in UpdaterOf(o) : x = y

\* A tuple is one version; who ended it is its updater, or came to nothing.
Versions ==
    /\ \A o \in Tuples(page) :
          /\ VerAt(o) \in DOMAIN vers /\ By(VerAt(o)) = page[o].tup.xmin
          /\ UpdaterOf(o) \subseteq Ends(VerAt(o))
          /\ \A x \in Ends(VerAt(o)) : x \in UpdaterOf(o) \/ Doomed(x)
    /\ \A o, p \in Tuples(page) : VerAt(o) = VerAt(p) => o = p

\* A version is ended by who sees it: its writer committed, or is the same
\* transaction, or its parent.
SeenFirst ==
    \A v \in DOMAIN vers : \A y \in Ends(v) :
        TrulyCommitted(By(v)) \/ Doomed(y) \/ y = By(v) \/ By(v) = SubOf[y]

\* Of two versions of one root the older one was ended by a transaction
\* whose commit the newer one's implies.
Ordered ==
    \A w, u \in DOMAIN vers : w < u /\ Root(w) = Root(u) =>
        \/ Doomed(By(w)) \/ Doomed(By(u))
        \/ \E y \in Ends(w) : TrulyCommitted(y) \/ y = By(u) \/ y = Top(By(u))

\* What is not dead is on the page.
Present ==
    \A v \in DOMAIN vers : ~DeadVer(v) => \E o \in Tuples(page) : VerAt(o) = v

\* Every tuple belongs to a root on the page.
Rooted ==
    /\ \A c \in Tuples(page) :
          /\ ~page[c].tup.heapOnly => Root(VerAt(c)) = c
          /\ Root(VerAt(c)) \in DOMAIN page /\ IsRoot(page, Root(VerAt(c)))
    /\ \A r \in DOMAIN page : page[r].lp = LP_REDIRECT =>
          /\ page[r].to \in Tuples(page) /\ page[page[r].to].tup.heapOnly
          /\ Root(VerAt(page[r].to)) = r

\* A chain starts no later than at its first version that is not dead.
Starts ==
    \A v \in DOMAIN vers : ~DeadVer(v) =>
        LET s == VerAt(StartOf(page, Root(v))) IN s <= v /\ ~Doomed(By(s))

\* The link from c to the version d that updated it.
Linked(c, d) ==
    /\ c \in Tuples(page) /\ page[c].tup.hotUpdated /\ d = page[c].tup.ctid
    /\ d \in Tuples(page) /\ page[d].tup.xmin \in UpdaterOf(c)

Links ==
    /\ \A c \in Tuples(page) : page[c].tup.hotUpdated =>
          /\ page[c].tup.ctid \in DOMAIN page
          /\ \A u \in UpdaterOf(c) : ~Doomed(u) =>
                /\ page[page[c].tup.ctid].lp = LP_NORMAL
                /\ page[page[c].tup.ctid].tup.xmin = u
    /\ \A c, d \in Tuples(page) : Linked(c, d) =>
          page[d].tup.heapOnly /\ Root(VerAt(d)) = Root(VerAt(c)) /\ VerAt(c) < VerAt(d)

\* From a tuple that is not aborted a link leads towards every newer version
\* of its root that is not dead.
Nexts ==
    \A c \in Tuples(page), v \in DOMAIN vers :
        /\ ~Doomed(By(VerAt(c))) /\ ~DeadVer(v)
        /\ Root(v) = Root(VerAt(c)) /\ VerAt(c) < v
        => \E d \in Tuples(page) : Linked(c, d) /\ VerAt(d) <= v /\ ~Doomed(By(VerAt(d)))

PageInv ==
    /\ Multis /\ Stamped /\ Versions /\ SeenFirst /\ Ordered
    /\ Present /\ Rooted /\ Starts /\ Links /\ Nexts

\* The list of an emission: roots in order, the first one's chain begun.
Todo ==
    /\ em.pc \in {"idle", "done"} => em.todo = <<>>
    /\ \A i \in DOMAIN em.todo :
          /\ em.todo[i][1] \in DOMAIN page /\ IsRoot(page, em.todo[i][1])
          /\ em.todo[i][2] \in DOMAIN page
          /\ i # 1 => em.todo[i][2] = StartOf(page, em.todo[i][1])
    /\ \A i, j \in DOMAIN em.todo : i < j => em.todo[i][1] < em.todo[j][1]

\* An emission knows every state of the rows since it began.
Observed ==
    em.pc = "walk" /\ ~em.subs =>
        /\ \A x \in Xids : St(x) # SubCommitted
        /\ LiveRows(vers) \subseteq em.seen /\ Vacant(LiveRows(vers)) \subseteq em.absent

\* Every root is still to come, has its row, or was vacant at some moment.
Emitted ==
    em.pc \in {"walk", "done"} /\ ~em.subs /\ em.intact =>
        /\ Intact
        /\ em.out \subseteq em.seen
        /\ \A r, s \in em.out : r[1] = s[1] => r = s
        /\ \A r \in em.out, i \in DOMAIN em.todo : em.todo[i][1] # r[1]
        /\ \A o \in Offnums : \/ \E i \in DOMAIN em.todo : em.todo[i][1] = o
                              \/ \E r \in em.out : r[1] = o
                              \/ o \in em.absent

\* The walk has passed no version that can still be live, or its root was
\* vacant at some moment.
AtHead(root, c) ==
    /\ c \in Tuples(page) => Root(VerAt(c)) = root
    /\ \/ root \in em.absent
       \/ \A v \in DOMAIN vers : ~DeadVer(v) /\ Root(v) = root =>
             c \in Tuples(page) /\ VerAt(c) <= v /\ ~Doomed(By(VerAt(c)))
Walked ==
    em.pc = "walk" /\ ~em.subs /\ em.intact /\ em.todo # <<>> =>
        AtHead(em.todo[1][1], em.todo[1][2])

EmInv == Todo /\ Observed /\ Emitted /\ Walked

Inv == Typed /\ Families /\ PageInv /\ EmInv /\ FitsOn(page)

-----------------------------------------------------------------------------
\* The commit log.

\* What is assumed of the constants, as types.
LEMMA Assumed ==
    /\ Xids \subseteq Nat /\ Xids # {} /\ 0 \notin Xids /\ 1 \notin Xids /\ 2 \notin Xids
    /\ \A x \in Xids : SubOf[x] \in Xids /\ SubOf[SubOf[x]] = SubOf[x]
    /\ NSlots \in Nat /\ NSlots >= 1 /\ MaxVers \in Nat /\ MaxVers >= 1
    /\ PageBytes \in Nat /\ PageBytes >= 1 /\ MaxMultis \in Nat
    /\ PageSize \in Nat /\ PageSize >= 60
    /\ Lockers \subseteq Xids
BY HeapPageAssumption

\* A transaction's byte is the same whatever the size of a log page.
LEMMA ByteOfIs == \A x \in Nat : ByteOf(x) = x \div 4 /\ ByteOf(x) \in Nat
BY Assumed DEF ByteOf, XactsPerByte

\* The weight of a transaction's two bits.
LEMMA WeightIs ==
    ASSUME NEW x \in Nat
    PROVE  /\ x % 4 \in {0, 1, 2, 3}
           /\ WeightOf(x) = CASE x % 4 = 0 -> 1 [] x % 4 = 1 -> 4 [] x % 4 = 2 -> 16 [] OTHER -> 64
<1>1. x % 4 \in {0, 1, 2, 3}
  OBVIOUS
<1>2. 4^0 = 1 /\ 4^1 = 4 /\ 4^2 = 16 /\ 4^3 = 64
  OBVIOUS
<1> QED
  BY <1>1, <1>2 DEF WeightOf, XactsPerByte

Log == [{ByteOf(x) : x \in Xids} -> 0..255]

\* Statuses are two bits.
LEMMA StatusType ==
    ASSUME NEW log \in Log, NEW x \in Xids
    PROVE  status_in_page(log, x) \in 0..3
<1>1. log[ByteOf(x)] \in 0..255
  BY DEF Log
<1>2. x \in Nat
  BY Assumed
<1> QED
  BY <1>1, <1>2, WeightIs DEF status_in_page

\* The four statuses of a byte.
LEMMA Digits ==
    ASSUME NEW a \in 0..3, NEW b \in 0..3, NEW c \in 0..3, NEW d \in 0..3
    PROVE  LET n == a + 4 * b + 16 * c + 64 * d IN
           /\ n \in 0..255
           /\ (n \div 1) % 4 = a /\ (n \div 4) % 4 = b
           /\ (n \div 16) % 4 = c /\ (n \div 64) % 4 = d
OBVIOUS

\* SetStatus sets the statuses of the transactions named and no other.
LEMMA SetStatusIs ==
    ASSUME NEW log \in Log, NEW S, S \subseteq Xids, NEW st \in 0..3
    PROVE  /\ SetStatus(log, S, st) \in Log
           /\ \A x \in Xids : status_in_page(SetStatus(log, S, st), x)
                                = IF x \in S THEN st ELSE status_in_page(log, x)
<1> DEFINE bits(b, k) == IF \E x \in S : ByteOf(x) = b /\ x % 4 = k
                         THEN st ELSE (log[b] \div 4^k) % 4
           new == SetStatus(log, S, st)
<1>0. 4^0 = 1 /\ 4^1 = 4 /\ 4^2 = 16 /\ 4^3 = 64
  OBVIOUS
<1>1. \A b \in DOMAIN log : bits(b, 0) \in 0..3 /\ bits(b, 1) \in 0..3 /\ bits(b, 2) \in 0..3 /\ bits(b, 3) \in 0..3
  <2> TAKE b \in DOMAIN log
  <2>1. log[b] \in 0..255
    BY DEF Log
  <2> QED
    BY <2>1, <1>0
<1>2. /\ new = [b \in DOMAIN log |-> bits(b, 0) + 4 * bits(b, 1) + 16 * bits(b, 2) + 64 * bits(b, 3)]
      /\ DOMAIN log = {ByteOf(x) : x \in Xids}
  BY DEF SetStatus, Log, XactsPerByte
<1> HIDE DEF bits, new
<1>3. \A b \in DOMAIN log : new[b] \in 0..255
  <2> TAKE b \in DOMAIN log
  <2> QED
    BY <1>1, <1>2, Digits
<1>4. new \in Log
  BY <1>2, <1>3 DEF Log
<1>5. ASSUME NEW x \in Xids
      PROVE  status_in_page(new, x) = IF x \in S THEN st ELSE status_in_page(log, x)
  <2> DEFINE b == ByteOf(x)
  <2>1. b \in DOMAIN log /\ x \in Nat
    BY <1>2, Assumed
  <2>2. PICK k \in {0, 1, 2, 3} : x % 4 = k
    BY <2>1, WeightIs
  <2>3. status_in_page(new, x) = bits(b, k)
    <3>1. new[b] = bits(b, 0) + 4 * bits(b, 1) + 16 * bits(b, 2) + 64 * bits(b, 3)
      BY <1>2, <2>1
    <3>2. /\ (new[b] \div 1) % 4 = bits(b, 0) /\ (new[b] \div 4) % 4 = bits(b, 1)
          /\ (new[b] \div 16) % 4 = bits(b, 2) /\ (new[b] \div 64) % 4 = bits(b, 3)
      BY <3>1, <1>1, <2>1, Digits
    <3> QED
      BY <3>2, <2>1, <2>2, WeightIs DEF status_in_page
  <2>4. (\E y \in S : ByteOf(y) = b /\ y % 4 = k) <=> x \in S
    <3>1. ASSUME NEW y \in S, ByteOf(y) = b, y % 4 = k PROVE y = x
      <4>1. y \in Nat /\ y \div 4 = x \div 4
        BY <3>1, <2>1, ByteOfIs, Assumed
      <4> QED
        BY <4>1, <3>1, <2>1, <2>2
    <3> QED
      BY <3>1, <2>2
  <2>5. status_in_page(log, x) = (log[b] \div 4^k) % 4
    BY <2>1, <2>2, <1>0, WeightIs DEF status_in_page
  <2> QED
    BY <2>3, <2>4, <2>5 DEF bits
<1> QED
  BY <1>4, <1>5 DEF new

-----------------------------------------------------------------------------
\* The fates of transactions.

Logged == clog \in Log /\ Families

\* The statuses are distinct numbers.
LEMMA Statuses ==
    ASSUME clog \in Log, NEW x \in Xids
    PROVE  /\ St(x) \in {InProgress, Committed, Aborted, SubCommitted}
           /\ St(SubOf[x]) \in {InProgress, Committed, Aborted, SubCommitted}
<1>1. SubOf[x] \in Xids
  BY Assumed
<1>2. St(x) \in 0..3 /\ St(SubOf[x]) \in 0..3
  BY <1>1, StatusType DEF St
<1> QED
  BY <1>2 DEF InProgress, Committed, Aborted, SubCommitted

\* A transaction is committed, alive or doomed.
LEMMA Fates ==
    ASSUME Logged, NEW x \in Xids \cup {FROZEN_XID}
    PROVE  /\ TrulyCommitted(x) \/ Alive(x) \/ Doomed(x)
           /\ ~(TrulyCommitted(x) /\ Doomed(x)) /\ ~(TrulyCommitted(x) /\ Alive(x))
           /\ ~(Alive(x) /\ Doomed(x))
<1>1. CASE x = FROZEN_XID
  BY <1>1, Assumed DEF TrulyCommitted, Alive, Doomed, FROZEN_XID
<1>2. CASE x \in Xids
  <2>1. x # FROZEN_XID
    BY <1>2, Assumed DEF FROZEN_XID
  <2> QED
    BY <1>2, <2>1, Statuses
       DEF Logged, Families, TrulyCommitted, Alive, Doomed, St, InProgress, Committed, Aborted, SubCommitted
<1> QED
  BY <1>1, <1>2

\* A subtransaction shares its parent's abort, and commits only with it.
LEMMA Parents ==
    ASSUME Logged, NEW x \in Xids
    PROVE  /\ Doomed(SubOf[x]) => Doomed(x)
           /\ TrulyCommitted(x) => TrulyCommitted(SubOf[x])
<1>1. SubOf[x] \in Xids /\ SubOf[SubOf[x]] = SubOf[x] /\ x # FROZEN_XID
  BY Assumed DEF FROZEN_XID
<1>2. Doomed(SubOf[x]) => Doomed(x)
  BY <1>1 DEF Doomed
<1>3. TrulyCommitted(x) => TrulyCommitted(SubOf[x])
  BY <1>1 DEF TrulyCommitted, Committed, Aborted
<1> QED
  BY <1>2, <1>3

\* Without transactions half way through their commit the log says it all.
LEMMA Resolves ==
    ASSUME Logged, \A y \in Xids : St(y) # SubCommitted, NEW x \in Xids \cup {FROZEN_XID}
    PROVE  resolve(clog, x) = Committed <=> TrulyCommitted(x)
<1>1. CASE x = FROZEN_XID
  BY <1>1 DEF resolve, TrulyCommitted, FROZEN_XID
<1>2. CASE x \in Xids
  <2>1. x # FROZEN_XID /\ x \notin {1, 2}
    BY <1>2, Assumed DEF FROZEN_XID
  <2> QED
    BY <1>2, <2>1, Statuses
       DEF Logged, Families, resolve, TrulyCommitted, St, InProgress, Committed, Aborted, SubCommitted
<1> QED
  BY <1>1, <1>2

\* Fates are final.
Final == \A x \in Xids \cup {FROZEN_XID} :
    (TrulyCommitted(x) => TrulyCommitted(x)') /\ (Doomed(x) => Doomed(x)')

\* A transaction whose end has not begun.
LEMMA RunningIs ==
    ASSUME NEW x \in Xids, Running(x)
    PROVE  St(x) = InProgress /\ St(SubOf[x]) = InProgress /\ Alive(x) /\ ~Doomed(x) /\ ~TrulyCommitted(x)
BY Assumed DEF Running, St, Alive, Doomed, TrulyCommitted, InProgress, Committed, Aborted, FROZEN_XID

\* The same of the statuses as a function.
FamiliesOf(s) ==
    /\ \A x \in Xids : s[x] = 1 => s[SubOf[x]] = 1
    /\ \A x \in Xids : s[SubOf[x]] = 1 => s[x] # 0
    /\ \A x \in Xids : s[SubOf[x]] # 3
    /\ \A x, y \in Xids :
          /\ SubOf[x] = SubOf[y] /\ y # SubOf[y] /\ s[SubOf[y]] = 0 /\ s[x] = 3 /\ s[y] = 0
          => ByteOf(y) \div PageBytes = ByteOf(SubOf[y]) \div PageBytes
CommittedIn(s, x) == s[SubOf[x]] = 1 /\ s[x] # 2
DoomedIn(s, x) == s[x] = 2 \/ s[SubOf[x]] = 2
StatusMap == [x \in Xids |-> St(x)]

\* Families and fates in terms of the statuses as a function.
LEMMA Mapped ==
    /\ Families <=> FamiliesOf(StatusMap)
    /\ \A x \in Xids : /\ TrulyCommitted(x) <=> CommittedIn(StatusMap, x)
                       /\ Doomed(x) <=> DoomedIn(StatusMap, x)
<1>1. \A x \in Xids : StatusMap[x] = St(x) /\ SubOf[x] \in Xids /\ StatusMap[SubOf[x]] = St(SubOf[x]) /\ x # 2
  BY Assumed DEF StatusMap
<1>2. Families <=> FamiliesOf(StatusMap)
  BY <1>1 DEF Families, FamiliesOf, InProgress, Committed, SubCommitted
<1> QED
  BY <1>1, <1>2 DEF TrulyCommitted, CommittedIn, Doomed, DoomedIn, St, Committed, Aborted, FROZEN_XID

\* The same of the next state.
LEMMA MappedNext ==
    /\ Families' <=> FamiliesOf(StatusMap')
    /\ \A x \in Xids : /\ TrulyCommitted(x)' <=> CommittedIn(StatusMap', x)
                       /\ Doomed(x)' <=> DoomedIn(StatusMap', x)
<1>1. \A x \in Xids : StatusMap'[x] = St(x)' /\ SubOf[x] \in Xids /\ StatusMap'[SubOf[x]] = St(SubOf[x])' /\ x # 2
  BY Assumed DEF StatusMap
<1>2. Families' <=> FamiliesOf(StatusMap')
  BY <1>1 DEF Families, FamiliesOf, InProgress, Committed, SubCommitted
<1> QED
  BY <1>1, <1>2 DEF TrulyCommitted, CommittedIn, Doomed, DoomedIn, St, Committed, Aborted, FROZEN_XID

\* The statuses after a step of the log.
LEMMA LogStep ==
    ASSUME Logged, NEW S, S \subseteq Xids, NEW st \in {0, 1, 2, 3}, clog' = SetStatus(clog, S, st)
    PROVE  /\ clog' \in Log
           /\ StatusMap \in [Xids -> {0, 1, 2, 3}]
           /\ StatusMap' = [x \in Xids |-> IF x \in S THEN st ELSE StatusMap[x]]
<1>1. st \in 0..3 /\ clog \in Log
  BY DEF Logged
<1>2. /\ clog' \in Log
      /\ \A x \in Xids : status_in_page(clog', x) = IF x \in S THEN st ELSE status_in_page(clog, x)
  BY <1>1, SetStatusIs
<1>3. \A x \in Xids : status_in_page(clog, x) \in {0, 1, 2, 3}
  BY <1>1, StatusType
<1> QED
  BY <1>2, <1>3 DEF St, StatusMap

\* A step of the log that leaves the families in order and takes back no fate.
LEMMA FateStep ==
    ASSUME clog' \in Log, FamiliesOf(StatusMap'),
           \A x \in Xids : CommittedIn(StatusMap, x) => CommittedIn(StatusMap', x),
           \A x \in Xids : DoomedIn(StatusMap, x) => DoomedIn(StatusMap', x)
    PROVE  Logged' /\ Final
<1>1. Logged'
  BY MappedNext DEF Logged
<1>2. TrulyCommitted(FROZEN_XID) /\ TrulyCommitted(FROZEN_XID)' /\ ~Doomed(FROZEN_XID)
  BY Assumed DEF TrulyCommitted, Doomed, FROZEN_XID
<1>3. \A x \in Xids : (TrulyCommitted(x) => TrulyCommitted(x)') /\ (Doomed(x) => Doomed(x)')
  BY Mapped, MappedNext
<1> QED
  BY <1>1, <1>2, <1>3 DEF Final

\* The subtransactions on other log pages are marked first: no fate changes.
LEMMA SubCommitFate ==
    ASSUME Logged, NEW t \in TopLevel, SubCommit(t)
    PROVE  /\ Logged' /\ Final
           /\ \A x \in Xids \cup {FROZEN_XID} : TrulyCommitted(x)' <=> TrulyCommitted(x)
<1> DEFINE S == Apart(t)
<1>1. PICK s : s = StatusMap
  OBVIOUS
<1>2. PICK s1 : s1 = StatusMap'
  OBVIOUS
<1>3. t \in Xids /\ SubOf[t] \in Xids /\ SubOf[t] = t
  BY Assumed DEF TopLevel
<1>4. /\ \A x \in S : x \in Xids /\ SubOf[x] = t /\ s[x] # 2 /\ x # t
      /\ \A x \in Xids : SubOf[x] = t /\ x # t /\ x \notin S /\ s[x] # 2
           => ByteOf(x) \div PageBytes = ByteOf(t) \div PageBytes
  BY <1>1, <1>3 DEF Apart, Children, St, StatusMap, Aborted
<1> HIDE DEF S
<1>5. /\ clog' \in Log /\ s \in [Xids -> {0, 1, 2, 3}]
      /\ s1 = [x \in Xids |-> IF x \in S THEN 3 ELSE s[x]]
  <2>1. clog' = SetStatus(clog, S, 3)
    BY DEF SubCommit, S, SubCommitted, Committed, Aborted
  <2>2. S \subseteq Xids
    BY <1>4
  <2> QED
    BY <1>1, <1>2, <2>1, <2>2, LogStep
<1>6. s[t] = 0 /\ ~\E y \in Xids : SubOf[y] = t /\ s[y] = 3
  BY <1>1, <1>3 DEF SubCommit, Running, Committing, St, StatusMap, InProgress, Committed, SubCommitted
<1>7. FamiliesOf(s)
  BY <1>1, Mapped DEF Logged
<1>8. FamiliesOf(s1)
  <2>1. \A x \in Xids : /\ SubOf[x] \in Xids /\ SubOf[SubOf[x]] = SubOf[x]
                        /\ s1[x] = (IF x \in S THEN 3 ELSE s[x])
                        /\ s1[SubOf[x]] = (IF SubOf[x] \in S THEN 3 ELSE s[SubOf[x]])
                        /\ s[x] \in {0, 1, 2, 3}
    BY <1>5, Assumed
  <2>2. \A x \in Xids : s1[x] = 1 => s1[SubOf[x]] = 1
    BY <2>1, <1>3, <1>4, <1>6, <1>7 DEF FamiliesOf
  <2>3. \A x \in Xids : s1[SubOf[x]] = 1 => s1[x] # 0
    BY <2>1, <1>3, <1>4, <1>6, <1>7 DEF FamiliesOf
  <2>4. \A x \in Xids : s1[SubOf[x]] # 3
    BY <2>1, <1>3, <1>4, <1>6, <1>7 DEF FamiliesOf
  <2>5. ASSUME NEW x \in Xids, NEW y \in Xids, SubOf[x] = SubOf[y], y # SubOf[y],
               s1[SubOf[y]] = 0, s1[x] = 3, s1[y] = 0
        PROVE  ByteOf(y) \div PageBytes = ByteOf(SubOf[y]) \div PageBytes
    BY <2>1, <2>5, <1>3, <1>4, <1>6, <1>7 DEF FamiliesOf
  <2> QED
    BY <2>2, <2>3, <2>4, <2>5 DEF FamiliesOf
<1>9. \A x \in Xids : /\ CommittedIn(s1, x) <=> CommittedIn(s, x)
                      /\ DoomedIn(s, x) => DoomedIn(s1, x)
  <2>1. \A x \in Xids : /\ SubOf[x] \in Xids /\ SubOf[SubOf[x]] = SubOf[x]
                        /\ s1[x] = (IF x \in S THEN 3 ELSE s[x])
                        /\ s1[SubOf[x]] = (IF SubOf[x] \in S THEN 3 ELSE s[SubOf[x]])
                        /\ s[x] \in {0, 1, 2, 3}
    BY <1>5, Assumed
  <2> QED
    BY <1>3, <1>4, <1>6, <2>1 DEF CommittedIn, DoomedIn
<1>10. TrulyCommitted(FROZEN_XID) /\ TrulyCommitted(FROZEN_XID)'
  BY DEF TrulyCommitted
<1>11. Logged' /\ Final
  BY <1>1, <1>2, <1>5, <1>8, <1>9, FateStep
<1> QED
  BY <1>1, <1>2, <1>9, <1>10, <1>11, Mapped, MappedNext

\* A commit commits the family, without its aborted subtransactions.
LEMMA CommitFate ==
    ASSUME Logged, NEW t \in TopLevel, Commit(t)
    PROVE  /\ Logged' /\ Final
           /\ \A x \in Xids \cup {FROZEN_XID} : TrulyCommitted(x)' <=>
                 TrulyCommitted(x) \/ (x \in Xids /\ SubOf[x] = t /\ St(x) # Aborted)
<1> DEFINE S == {t} \cup (Children(t) \ Apart(t))
<1>1. PICK s : s = StatusMap
  OBVIOUS
<1>2. PICK s1 : s1 = StatusMap'
  OBVIOUS
<1>3. t \in Xids /\ SubOf[t] \in Xids /\ SubOf[t] = t
  BY Assumed DEF TopLevel
<1>4. /\ \A x \in S : x \in Xids /\ SubOf[x] = t /\ (x # t => s[x] # 2)
      /\ t \in S
      /\ \A x \in Xids : SubOf[x] = t /\ x \notin S /\ s[x] # 2
           => ByteOf(x) \div PageBytes # ByteOf(t) \div PageBytes /\ x \in Apart(t)
  BY <1>1, <1>3 DEF Apart, Children, St, StatusMap, Aborted
<1> HIDE DEF S
<1>5. /\ clog' \in Log /\ s \in [Xids -> {0, 1, 2, 3}]
      /\ s1 = [x \in Xids |-> IF x \in S THEN 1 ELSE s[x]]
  <2>1. clog' = SetStatus(clog, S, 1)
    BY DEF Commit, S, SubCommitted, Committed, Aborted
  <2>2. S \subseteq Xids
    BY <1>4
  <2> QED
    BY <1>1, <1>2, <2>1, <2>2, LogStep
<1>6. s[t] = 0 /\ (Apart(t) # {} => \E y \in Xids : SubOf[y] = t /\ s[y] = 3)
  BY <1>1, <1>3 DEF Commit, Running, Committing, St, StatusMap, InProgress, Committed, SubCommitted
<1>7. FamiliesOf(s)
  BY <1>1, Mapped DEF Logged
<1>71. \A x \in Xids : SubOf[x] = t /\ x \notin S => s[x] # 0
  BY <1>3, <1>4, <1>6, <1>7 DEF FamiliesOf
<1>8. FamiliesOf(s1)
  <2>1. \A x \in Xids : /\ SubOf[x] \in Xids /\ SubOf[SubOf[x]] = SubOf[x]
                        /\ s1[x] = (IF x \in S THEN 1 ELSE s[x])
                        /\ s1[SubOf[x]] = (IF SubOf[x] \in S THEN 1 ELSE s[SubOf[x]])
                        /\ s[x] \in {0, 1, 2, 3}
    BY <1>5, Assumed
  <2>2. \A x \in Xids : s1[x] = 1 => s1[SubOf[x]] = 1
    BY <2>1, <1>3, <1>4, <1>6, <1>7, <1>71 DEF FamiliesOf
  <2>3. \A x \in Xids : s1[SubOf[x]] = 1 => s1[x] # 0
    BY <2>1, <1>3, <1>4, <1>6, <1>7, <1>71 DEF FamiliesOf
  <2>4. \A x \in Xids : s1[SubOf[x]] # 3
    BY <2>1, <1>3, <1>4, <1>6, <1>7, <1>71 DEF FamiliesOf
  <2>5. ASSUME NEW x \in Xids, NEW y \in Xids, SubOf[x] = SubOf[y], y # SubOf[y],
               s1[SubOf[y]] = 0, s1[x] = 3, s1[y] = 0
        PROVE  ByteOf(y) \div PageBytes = ByteOf(SubOf[y]) \div PageBytes
    BY <2>1, <2>5, <1>3, <1>4, <1>6, <1>7, <1>71 DEF FamiliesOf
  <2> QED
    BY <2>2, <2>3, <2>4, <2>5 DEF FamiliesOf
<1>9. \A x \in Xids : /\ CommittedIn(s1, x) <=> CommittedIn(s, x) \/ (SubOf[x] = t /\ s[x] # 2)
                      /\ DoomedIn(s, x) => DoomedIn(s1, x)
  <2>1. \A x \in Xids : /\ SubOf[x] \in Xids /\ SubOf[SubOf[x]] = SubOf[x]
                        /\ s1[x] = (IF x \in S THEN 1 ELSE s[x])
                        /\ s1[SubOf[x]] = (IF SubOf[x] \in S THEN 1 ELSE s[SubOf[x]])
                        /\ s[x] \in {0, 1, 2, 3}
    BY <1>5, Assumed
  <2> QED
    BY <1>3, <1>4, <1>6, <2>1 DEF CommittedIn, DoomedIn
<1>10. TrulyCommitted(FROZEN_XID) /\ TrulyCommitted(FROZEN_XID)'
  BY DEF TrulyCommitted
<1>11. Logged' /\ Final
  BY <1>1, <1>2, <1>5, <1>8, <1>9, FateStep
<1> QED
  BY <1>1, <1>2, <1>9, <1>10, <1>11, Mapped, MappedNext, Assumed DEF StatusMap, Aborted, FROZEN_XID

\* The marked subtransactions follow their parent: no fate changes.
LEMMA CommitSubsFate ==
    ASSUME Logged, NEW t \in TopLevel, CommitSubs(t)
    PROVE  /\ Logged' /\ Final
           /\ \A x \in Xids \cup {FROZEN_XID} : TrulyCommitted(x)' <=> TrulyCommitted(x)
<1> DEFINE S == Apart(t)
<1>1. PICK s : s = StatusMap
  OBVIOUS
<1>2. PICK s1 : s1 = StatusMap'
  OBVIOUS
<1>3. t \in Xids /\ SubOf[t] \in Xids /\ SubOf[t] = t
  BY Assumed DEF TopLevel
<1>4. \A x \in S : x \in Xids /\ SubOf[x] = t /\ s[x] # 2 /\ x # t
  BY <1>1, <1>3 DEF Apart, Children, St, StatusMap, Aborted
<1> HIDE DEF S
<1>5. /\ clog' \in Log /\ s \in [Xids -> {0, 1, 2, 3}]
      /\ s1 = [x \in Xids |-> IF x \in S THEN 1 ELSE s[x]]
  <2>1. clog' = SetStatus(clog, S, 1)
    BY DEF CommitSubs, S, SubCommitted, Committed, Aborted
  <2>2. S \subseteq Xids
    BY <1>4
  <2> QED
    BY <1>1, <1>2, <2>1, <2>2, LogStep
<1>6. s[t] = 1
  BY <1>1, <1>3 DEF CommitSubs, Running, Committing, St, StatusMap, InProgress, Committed, SubCommitted
<1>7. FamiliesOf(s)
  BY <1>1, Mapped DEF Logged
<1>8. FamiliesOf(s1)
  <2>1. \A x \in Xids : /\ SubOf[x] \in Xids /\ SubOf[SubOf[x]] = SubOf[x]
                        /\ s1[x] = (IF x \in S THEN 1 ELSE s[x])
                        /\ s1[SubOf[x]] = (IF SubOf[x] \in S THEN 1 ELSE s[SubOf[x]])
                        /\ s[x] \in {0, 1, 2, 3}
    BY <1>5, Assumed
  <2>2. \A x \in Xids : s1[x] = 1 => s1[SubOf[x]] = 1
    BY <2>1, <1>3, <1>4, <1>6, <1>7 DEF FamiliesOf
  <2>3. \A x \in Xids : s1[SubOf[x]] = 1 => s1[x] # 0
    BY <2>1, <1>3, <1>4, <1>6, <1>7 DEF FamiliesOf
  <2>4. \A x \in Xids : s1[SubOf[x]] # 3
    BY <2>1, <1>3, <1>4, <1>6, <1>7 DEF FamiliesOf
  <2>5. ASSUME NEW x \in Xids, NEW y \in Xids, SubOf[x] = SubOf[y], y # SubOf[y],
               s1[SubOf[y]] = 0, s1[x] = 3, s1[y] = 0
        PROVE  ByteOf(y) \div PageBytes = ByteOf(SubOf[y]) \div PageBytes
    BY <2>1, <2>5, <1>3, <1>4, <1>6, <1>7 DEF FamiliesOf
  <2> QED
    BY <2>2, <2>3, <2>4, <2>5 DEF FamiliesOf
<1>9. \A x \in Xids : /\ CommittedIn(s1, x) <=> CommittedIn(s, x)
                      /\ DoomedIn(s, x) => DoomedIn(s1, x)
  <2>1. \A x \in Xids : /\ SubOf[x] \in Xids /\ SubOf[SubOf[x]] = SubOf[x]
                        /\ s1[x] = (IF x \in S THEN 1 ELSE s[x])
                        /\ s1[SubOf[x]] = (IF SubOf[x] \in S THEN 1 ELSE s[SubOf[x]])
                        /\ s[x] \in {0, 1, 2, 3}
    BY <1>5, Assumed
  <2> QED
    BY <1>3, <1>4, <1>6, <2>1 DEF CommittedIn, DoomedIn
<1>10. TrulyCommitted(FROZEN_XID) /\ TrulyCommitted(FROZEN_XID)'
  BY DEF TrulyCommitted
<1>11. Logged' /\ Final
  BY <1>1, <1>2, <1>5, <1>8, <1>9, FateStep
<1> QED
  BY <1>1, <1>2, <1>9, <1>10, <1>11, Mapped, MappedNext

\* An abort dooms a transaction with its subtransactions.
LEMMA AbortFate ==
    ASSUME Logged, NEW t \in Xids, Abort(t)
    PROVE  /\ Logged' /\ Final
           /\ \A x \in Xids \cup {FROZEN_XID} : TrulyCommitted(x)' <=> TrulyCommitted(x)
<1> DEFINE S == {t} \cup Children(t)
<1>1. PICK s : s = StatusMap
  OBVIOUS
<1>2. PICK s1 : s1 = StatusMap'
  OBVIOUS
<1>3. t \in Xids /\ SubOf[t] \in Xids
  BY Assumed DEF TopLevel
<1>4. /\ \A x \in S : x \in Xids /\ (x = t \/ SubOf[x] = t)
      /\ t \in S
      /\ \A x \in Xids : SubOf[x] = t /\ x \notin S => s[x] = 2
  BY <1>1, <1>3 DEF Apart, Children, St, StatusMap, Aborted
<1> HIDE DEF S
<1>5. /\ clog' \in Log /\ s \in [Xids -> {0, 1, 2, 3}]
      /\ s1 = [x \in Xids |-> IF x \in S THEN 2 ELSE s[x]]
  <2>1. clog' = SetStatus(clog, S, 2)
    BY DEF Abort, S, SubCommitted, Committed, Aborted
  <2>2. S \subseteq Xids
    BY <1>4
  <2> QED
    BY <1>1, <1>2, <2>1, <2>2, LogStep
<1>6. s[t] = 0 /\ s[SubOf[t]] = 0 /\ ~\E y \in Xids : SubOf[y] = SubOf[t] /\ s[y] = 3
  BY <1>1, <1>3 DEF Abort, Running, Committing, St, StatusMap, InProgress, Committed, SubCommitted
<1>7. FamiliesOf(s)
  BY <1>1, Mapped DEF Logged
<1>8. FamiliesOf(s1)
  <2>1. \A x \in Xids : /\ SubOf[x] \in Xids /\ SubOf[SubOf[x]] = SubOf[x]
                        /\ s1[x] = (IF x \in S THEN 2 ELSE s[x])
                        /\ s1[SubOf[x]] = (IF SubOf[x] \in S THEN 2 ELSE s[SubOf[x]])
                        /\ s[x] \in {0, 1, 2, 3}
    BY <1>5, Assumed
  <2>2. \A x \in Xids : s1[x] = 1 => s1[SubOf[x]] = 1
    BY <2>1, <1>3, <1>4, <1>6, <1>7 DEF FamiliesOf
  <2>3. \A x \in Xids : s1[SubOf[x]] = 1 => s1[x] # 0
    BY <2>1, <1>3, <1>4, <1>6, <1>7 DEF FamiliesOf
  <2>4. \A x \in Xids : s1[SubOf[x]] # 3
    BY <2>1, <1>3, <1>4, <1>6, <1>7 DEF FamiliesOf
  <2>5. ASSUME NEW x \in Xids, NEW y \in Xids, SubOf[x] = SubOf[y], y # SubOf[y],
               s1[SubOf[y]] = 0, s1[x] = 3, s1[y] = 0
        PROVE  ByteOf(y) \div PageBytes = ByteOf(SubOf[y]) \div PageBytes
    BY <2>1, <2>5, <1>3, <1>4, <1>6, <1>7 DEF FamiliesOf
  <2> QED
    BY <2>2, <2>3, <2>4, <2>5 DEF FamiliesOf
<1>9. \A x \in Xids : /\ CommittedIn(s1, x) <=> CommittedIn(s, x)
                      /\ DoomedIn(s, x) => DoomedIn(s1, x)
  <2>1. \A x \in Xids : /\ SubOf[x] \in Xids /\ SubOf[SubOf[x]] = SubOf[x]
                        /\ s1[x] = (IF x \in S THEN 2 ELSE s[x])
                        /\ s1[SubOf[x]] = (IF SubOf[x] \in S THEN 2 ELSE s[SubOf[x]])
                        /\ s[x] \in {0, 1, 2, 3}
    BY <1>5, Assumed
  <2> QED
    BY <1>3, <1>4, <1>6, <2>1 DEF CommittedIn, DoomedIn
<1>10. TrulyCommitted(FROZEN_XID) /\ TrulyCommitted(FROZEN_XID)'
  BY DEF TrulyCommitted
<1>11. Logged' /\ Final
  BY <1>1, <1>2, <1>5, <1>8, <1>9, FateStep
<1> QED
  BY <1>1, <1>2, <1>9, <1>10, <1>11, Mapped, MappedNext

-----------------------------------------------------------------------------
\* A step of the log against the page.

\* The parts of Typed that the page invariants need.
Shaped ==
    /\ page \in Seq(ItemType) /\ Len(page) <= NSlots
    /\ vers \in Seq(VerType) /\ Len(vers) <= MaxVers
    /\ offsets \in Seq(Nat \ {0}) /\ members \in Seq(Member)

\* The fields of a version.
LEMMA VerIs ==
    ASSUME Shaped, NEW v \in DOMAIN vers
    PROVE  /\ v \in Nat /\ v >= 1 /\ v <= Len(vers) /\ v \in 1..MaxVers
           /\ By(v) \in Xids \cup {FROZEN_XID} /\ Ends(v) \subseteq Xids /\ Root(v) \in Offnums
           /\ vers[v] = [root |-> Root(v), by |-> By(v), ends |-> Ends(v)]
<1>1. vers[v] \in VerType /\ v \in 1..Len(vers)
  BY DEF Shaped
<1>2. v \in Nat /\ v >= 1 /\ v <= Len(vers) /\ v \in 1..MaxVers
  BY <1>1, Assumed DEF Shaped
<1> QED
  BY <1>1, <1>2 DEF VerType, By, Ends, Root

\* A version is dead when its writer aborted or someone who ended it committed.
LEMMA DeadVerIs ==
    ASSUME Shaped, Logged, NEW v \in DOMAIN vers
    PROVE  DeadVer(v) <=> Doomed(By(v)) \/ \E x \in Ends(v) : TrulyCommitted(x)
<1>1. By(v) \in Xids \cup {FROZEN_XID}
  BY VerIs
<1>2. ~TrulyCommitted(By(v)) /\ ~Alive(By(v)) <=> Doomed(By(v))
  BY <1>1, Fates
<1> QED
  BY <1>2 DEF DeadVer, By, Ends

\* The same as formulas, to be used of the next state too.
FateFacts ==
    \A x \in Xids \cup {FROZEN_XID} :
        /\ TrulyCommitted(x) \/ Alive(x) \/ Doomed(x)
        /\ ~(TrulyCommitted(x) /\ Doomed(x)) /\ ~(TrulyCommitted(x) /\ Alive(x))
        /\ ~(Alive(x) /\ Doomed(x))
        /\ x \in Xids => (Doomed(SubOf[x]) => Doomed(x))
        /\ x \in Xids => (TrulyCommitted(x) => TrulyCommitted(SubOf[x]))
DeadIs ==
    \A v \in DOMAIN vers : DeadVer(v) <=> Doomed(By(v)) \/ \E x \in Ends(v) : TrulyCommitted(x)

\* The facts about fates hold.
LEMMA FateFactsHold == Logged => FateFacts
BY Fates, Parents DEF FateFacts

\* They hold in the next state.
LEMMA FateFactsNext == Logged' => FateFacts'
BY FateFactsHold, PTL

\* The fact about dead versions holds.
LEMMA DeadIsHolds == Shaped /\ Logged => DeadIs
BY DeadVerIs DEF DeadIs

\* It holds in the next state.
LEMMA DeadIsNext == Shaped' /\ Logged' => DeadIs'
BY DeadIsHolds, PTL

\* Death is final.
LEMMA DeadFinal ==
    ASSUME Shaped, Logged, Shaped', Logged', Final, vers' = vers
    PROVE  \A v \in DOMAIN vers : DeadVer(v) => DeadVer(v)'
<1> SUFFICES ASSUME NEW v \in DOMAIN vers, DeadVer(v) PROVE DeadVer(v)'
  OBVIOUS
<1>1. By(v) \in Xids \cup {FROZEN_XID} /\ Ends(v) \subseteq Xids /\ vers'[v].by = By(v) /\ vers'[v].ends = Ends(v)
  BY VerIs DEF By, Ends
<1>2. Doomed(By(v)) \/ \E x \in Ends(v) : TrulyCommitted(x)
  BY DeadIsHolds DEF DeadIs
<1>3. v \in DOMAIN vers' /\ DeadIs'
  BY DeadIsNext
<1> QED
  BY <1>1, <1>2, <1>3 DEF DeadIs, By, Ends, Final

\* A writer whose version was superseded by one that is not aborted is not
\* aborted itself.
LEMMA Outlived ==
    ASSUME Shaped, Logged, Logged', Final, SeenFirst, Ordered,
           NEW w \in DOMAIN vers, NEW u \in DOMAIN vers, w < u, Root(w) = Root(u),
           ~Doomed(By(w)), NEW b, b = By(u), ~Doomed(b)'
    PROVE  \A a : a = By(w) => ~Doomed(a)'
<1> SUFFICES ASSUME NEW a, a = By(w), Doomed(a)' PROVE FALSE
  OBVIOUS
<1> USE FateFactsHold, FateFactsNext
<1>1. a \in Xids \cup {FROZEN_XID} /\ b \in Xids \cup {FROZEN_XID} /\ Ends(w) \subseteq Xids
  BY VerIs
<1>2. ~Doomed(b) /\ ~TrulyCommitted(a)
  BY <1>1 DEF Final, FateFacts
<1>3. PICK y \in Ends(w) : TrulyCommitted(y) \/ y = b \/ y = Top(b)
  BY <1>2 DEF Ordered
<1>4. Doomed(y) \/ y = a \/ a = SubOf[y]
  BY <1>2, <1>3 DEF SeenFirst
<1>5. y \in Xids
  BY <1>1
<1>6. CASE TrulyCommitted(y)
  BY <1>2, <1>4, <1>5, <1>6 DEF FateFacts
<1>7. CASE y = b
  BY <1>1, <1>2, <1>4, <1>5, <1>7 DEF FateFacts
<1>8. CASE y = Top(b)
  <2>1. b \in Xids /\ y = SubOf[b] /\ SubOf[y] = y
    BY <1>1, <1>5, <1>8, Assumed DEF Top
  <2> QED
    BY <1>1, <1>2, <1>4, <2>1 DEF FateFacts
<1> QED
  BY <1>3, <1>6, <1>7, <1>8

\* What a tuple's xmax stands for depends on the page and the multixacts.
LEMMA SameMembers ==
    ASSUME UNCHANGED <<page, offsets, members>>
    PROVE  /\ \A o : UpdaterOf(o)' = UpdaterOf(o) /\ XmaxMembers(o)' = XmaxMembers(o)
           /\ Tuples(page)' = Tuples(page)
           /\ \A c, d : Linked(c, d)' <=> Linked(c, d)
<1>1. \A o : XmaxMembers(o)' = XmaxMembers(o)
  BY DEF XmaxMembers
<1>2. \A o : UpdaterOf(o)' = UpdaterOf(o)
  BY <1>1 DEF UpdaterOf, IsUpdater
<1>3. Tuples(page)' = Tuples(page)
  BY DEF Tuples
<1> QED
  BY <1>1, <1>2, <1>3 DEF Linked

\* Fates are final, so a step of the log disturbs nothing on the page.
LEMMA FatePage ==
    ASSUME Shaped, Logged, PageInv, Logged', Final, UNCHANGED <<page, offsets, members, vers>>
    PROVE  PageInv'
<1> USE DEF PageInv
<1>0. Shaped'
  BY DEF Shaped
<1>1. /\ \A o : UpdaterOf(o)' = UpdaterOf(o)
      /\ Tuples(page)' = Tuples(page) /\ Tuples(page') = Tuples(page)
      /\ \A c, d : Linked(c, d)' <=> Linked(c, d)
  BY SameMembers
<1>2. /\ \A v : By(v)' = By(v) /\ Ends(v)' = Ends(v) /\ Root(v)' = Root(v)
      /\ \A o : VerAt(o)' = VerAt(o)
  BY DEF By, Ends, Root, VerAt
<1>3. \A v \in DOMAIN vers : By(v) \in Xids \cup {FROZEN_XID} /\ Ends(v) \subseteq Xids
  BY VerIs
<1>4. \A v \in DOMAIN vers : ~DeadVer(v)' => ~DeadVer(v)
  BY <1>0, DeadFinal
<1>41. ASSUME NEW v \in DOMAIN vers, NEW w \in DOMAIN vers, ~DeadVer(v)',
              Root(w) = Root(v), w <= v, ~Doomed(By(w))
       PROVE  ~Doomed(By(w))'
  <2>1. PICK b : b = By(v)
    OBVIOUS
  <2>2. ~Doomed(b)'
    <3>1. v \in DOMAIN vers' /\ DeadIs'
      BY <1>0, DeadIsNext
    <3> QED
      BY <2>1, <3>1, <1>2, <1>41 DEF DeadIs
  <2>3. w = v \/ w < v
    BY <1>41, VerIs
  <2>4. PICK a : a = By(w)
    OBVIOUS
  <2>5. ~Doomed(a)'
    BY <1>41, <2>1, <2>2, <2>3, <2>4, Outlived
  <2> QED
    BY <2>4, <2>5, <1>2
<1>42. \A c \in Tuples(page) : VerAt(c) \in DOMAIN vers /\ UpdaterOf(c) \subseteq Xids
  BY <1>3 DEF Versions
<1>5. Multis'
  BY DEF Multis
<1>6. Stamped'
  BY <1>1 DEF Stamped
<1>7. Versions'
  BY <1>1, <1>2, <1>3 DEF Versions, Final
<1>8. SeenFirst'
  BY <1>2, <1>3 DEF SeenFirst, Final
<1>9. Ordered'
  BY <1>2, <1>3 DEF Ordered, Final
<1>10. Present'
  BY <1>1, <1>2, <1>4 DEF Present
<1>11. Rooted'
  BY <1>1, <1>2 DEF Rooted
<1>12. Starts'
  <2>1. ASSUME NEW v \in DOMAIN vers, ~DeadVer(v)'
        PROVE  \E s \in DOMAIN vers :
                  s = VerAt(StartOf(page, Root(v))) /\ s <= v /\ ~Doomed(By(s))'
    <3> DEFINE r == Root(v)
               c == StartOf(page, r)
    <3>1. ~DeadVer(v)
      BY <1>4, <2>1
    <3>2. VerAt(c) <= v /\ ~Doomed(By(VerAt(c)))
      BY <3>1 DEF Starts
    <3>3. c \in Tuples(page) /\ Root(VerAt(c)) = r
      <4>1. PICK o \in Tuples(page) : VerAt(o) = v
        BY <3>1 DEF Present
      <4>2. r \in DOMAIN page /\ IsRoot(page, r)
        BY <4>1 DEF Rooted
      <4> QED
        BY <4>2 DEF Rooted, IsRoot, StartOf, Tuples, LP_REDIRECT, LP_NORMAL
    <3> HIDE DEF c, r
    <3>4. PICK s \in DOMAIN vers : s = VerAt(c)
      BY <3>3, <1>42
    <3>5. ~Doomed(By(s))'
      BY <1>41, <2>1, <3>2, <3>3, <3>4 DEF r
    <3> QED
      BY <3>2, <3>4, <3>5 DEF r, c
  <2> QED
    BY <2>1, <1>2 DEF Starts, StartOf
<1>13. Links'
  BY <1>1, <1>2, <1>42 DEF Links, Final
<1>14. Nexts'
  <2>1. ASSUME NEW c \in Tuples(page), NEW v \in DOMAIN vers, ~Doomed(By(VerAt(c)))', ~DeadVer(v)',
               Root(v) = Root(VerAt(c)), VerAt(c) < v
        PROVE  \E d \in Tuples(page) : Linked(c, d) /\ VerAt(d) <= v /\ ~Doomed(By(VerAt(d)))'
    <3>1. ~DeadVer(v) /\ ~Doomed(By(VerAt(c)))
      BY <1>2, <1>3, <1>4, <1>42, <2>1 DEF Final
    <3>2. PICK d \in Tuples(page) : Linked(c, d) /\ VerAt(d) <= v /\ ~Doomed(By(VerAt(d)))
      BY <2>1, <3>1 DEF Nexts
    <3>3. Root(VerAt(d)) = Root(VerAt(c)) /\ VerAt(d) \in DOMAIN vers
      BY <3>2, <1>42 DEF Links
    <3>4. PICK w \in DOMAIN vers : w = VerAt(d)
      BY <3>3
    <3>5. ~Doomed(By(w))'
      BY <1>41, <2>1, <3>2, <3>3, <3>4
    <3> QED
      BY <3>2, <3>4, <3>5, <1>2
  <2> QED
    BY <2>1, <1>1, <1>2 DEF Nexts
<1> QED
  BY <1>5, <1>6, <1>7, <1>8, <1>9, <1>10, <1>11, <1>12, <1>13, <1>14

-----------------------------------------------------------------------------
\* Numbers, recursive functions, and the choices of a sequence or a slot.

\* A set of naturals that is not empty has a least element.
LEMMA Least ==
    ASSUME NEW D, D \subseteq Nat, D # {}
    PROVE  /\ \E d \in D : \A n \in D : d <= n
           /\ Min(D) \in D /\ \A n \in D : Min(D) <= n
<1>1. PICK d \in D : \A n \in D : <<n, d>> \notin OpToRel(<, Nat)
  BY WFMin, NatLessThanWellFounded, Zenon
<1>2. \A n \in D : ~(n < d)
  BY <1>1, Zenon DEF OpToRel
<1>3. d \in D /\ \A n \in D : d <= n
  BY <1>2
<1> QED
  BY <1>3 DEF Min

\* Induction over Nat for a set.
LEMMA Inductive ==
    ASSUME NEW S, 0 \in S, \A n \in Nat : n \in S => n + 1 \in S
    PROVE  \A n \in Nat : n \in S
<1> DEFINE D == {n \in Nat : n \notin S}
<1>1. SUFFICES ASSUME D # {} PROVE FALSE
  OBVIOUS
<1>2. PICK d \in D : \A n \in D : d <= n
  BY <1>1, Least
<1>3. d \in Nat /\ d # 0
  OBVIOUS
<1>4. d - 1 \in Nat /\ d - 1 < d /\ (d - 1) + 1 = d
  BY <1>3
<1>5. d - 1 \in S
  BY <1>2, <1>4
<1> QED
  BY <1>4, <1>5

\* The function whose value at 0 is b and whose other values are steps of F.
StepOn(F, n, T) == F \in [(1..n) \X T -> T]
Iterates(g, F, n, T, b) ==
    g \in [0..n -> T] /\ g[0] = b /\ \A k \in 1..n : g[k] = F[<<k, g[k - 1]>>]

\* There is such a function.
LEMMA Recursion ==
    ASSUME NEW T, NEW n \in Nat, NEW b \in T, NEW F, StepOn(F, n, T)
    PROVE  \E g : Iterates(g, F, n, T, b)
<1> USE DEF StepOn
<1> DEFINE Fits(g, m) == /\ g \in [0..m -> T] /\ g[0] = b
                         /\ \A k \in 1..m : g[k] = F[<<k, g[k - 1]>>]
           S == {m \in Nat : m <= n => \E g : Fits(g, m)}
<1>1. 0 \in S
  <2>1. Fits([k \in 0..0 |-> b], 0)
    OBVIOUS
  <2> QED
    BY <2>1
<1>2. ASSUME NEW m \in Nat, m \in S PROVE m + 1 \in S
  <2> SUFFICES ASSUME m + 1 <= n PROVE \E g : Fits(g, m + 1)
    OBVIOUS
  <2>1. PICK g : Fits(g, m)
    BY <1>2
  <2>2. PICK e : e = F[<<m + 1, g[m]>>]
    OBVIOUS
  <2>3. e \in T
    BY <2>1, <2>2
  <2> DEFINE h == [k \in 0..(m + 1) |-> IF k = m + 1 THEN e ELSE g[k]]
  <2>4. h \in [0..(m + 1) -> T] /\ h[0] = b
    BY <2>1, <2>3
  <2>5. ASSUME NEW k \in 1..(m + 1) PROVE h[k] = F[<<k, h[k - 1]>>]
    <3>1. h[k - 1] = g[k - 1] /\ k - 1 \in 0..m
      OBVIOUS
    <3>2. CASE k = m + 1
      <4>1. h[k] = e /\ k - 1 = m
        BY <3>2
      <4> QED
        BY <2>2, <3>1, <3>2, <4>1
    <3>3. CASE k # m + 1
      BY <2>1, <3>1, <3>3
    <3> QED
      BY <3>2, <3>3
  <2> QED
    BY <2>4, <2>5
<1> HIDE DEF Fits
<1>3. n \in S
  <2> HIDE DEF S
  <2> QED
    BY <1>1, <1>2, Inductive
<1>4. PICK g : Fits(g, n)
  BY <1>3
<1> QED
  BY <1>4 DEF Fits, Iterates

\* The bytes a line pointer's tuple takes.
Size(item) == IF item.lp = LP_NORMAL THEN MaxAlign(TupleLen(item.tup)) ELSE 0

\* Sizes: t_hoff is aligned, and a slot is at least as long as its tuple.
LEMMA SizeIs ==
    ASSUME NEW i \in ItemType
    PROVE  Size(i) \in Nat /\ TupleLen(i.tup) \in Nat /\ (i.lp = LP_NORMAL => TupleLen(i.tup) <= Size(i))
<1>1. i.tup \in TupleType
  BY DEF ItemType
<1>2. i.tup.bitmap \in Nat /\ i.tup.attrs \in Nat
  BY <1>1 DEF TupleType
<1>3. TupleLen(i.tup) \in Nat
  BY <1>2 DEF TupleLen, HOff, MaxAlign, TupleHeaderSize
<1>4. \A n \in Nat : MaxAlign(n) \in Nat /\ n <= MaxAlign(n)
  BY DEF MaxAlign
<1> QED
  BY <1>3, <1>4 DEF Size

\* Used is the function its definition describes.
LEMMA UsedIs ==
    ASSUME NEW pg \in Seq(ItemType)
    PROVE  /\ Used(pg) \in [0..Len(pg) -> Nat] /\ Used(pg)[0] = 0
           /\ \A k \in 1..Len(pg) : Used(pg)[k] = Used(pg)[k - 1] + Size(pg[k])
<1> DEFINE n == Len(pg)
           F == [p \in (1..n) \X Nat |-> p[2] + Size(pg[p[1]])]
           Fits(g) == g = [k \in 0..n |-> IF k = 0 THEN 0 ELSE g[k - 1] + Size(pg[k])]
<1>1. \A k \in 1..n : Size(pg[k]) \in Nat
  BY SizeIs
<1>2. F \in [(1..n) \X Nat -> Nat]
  BY <1>1
<1>3. PICK G : G = F
  OBVIOUS
<1>4. PICK g : Iterates(g, G, n, Nat, 0)
  <2>1. n \in Nat /\ 0 \in Nat /\ StepOn(G, n, Nat)
    BY <1>2, <1>3 DEF StepOn
  <2> HIDE DEF n, F
  <2> QED
    BY <2>1, Recursion
<1> USE DEF Iterates
<1>5. Fits(g)
  <2>1. ASSUME NEW k \in 1..n PROVE g[k] = g[k - 1] + Size(pg[k])
    <3>1. PICK e : e = g[k - 1]
      OBVIOUS
    <3>2. e \in Nat
      BY <1>4, <3>1
    <3>3. <<k, e>> \in (1..n) \X Nat
      BY <3>2
    <3> QED
      BY <1>3, <1>4, <3>1, <3>3
  <2>2. \A k \in 0..n : g[k] = IF k = 0 THEN 0 ELSE g[k - 1] + Size(pg[k])
    BY <1>4, <2>1
  <2> QED
    BY <1>4, <2>2
<1>6. Used(pg) = CHOOSE f : Fits(f)
  BY DEF Used, Size
<1>7. PICK f : f = Used(pg)
  OBVIOUS
<1>8. Fits(f)
  BY <1>5, <1>6, <1>7
<1>9. f[0] = 0 /\ \A k \in 1..n : f[k] = f[k - 1] + Size(pg[k])
  BY <1>8
<1>10. \A k \in 0..n : f[k] \in Nat
  <2> DEFINE S == {k \in Nat : k <= n => f[k] \in Nat}
  <2>1. 0 \in S
    BY <1>9
  <2>2. \A k \in Nat : k \in S => k + 1 \in S
    BY <1>9, <1>1
  <2> HIDE DEF S
  <2>3. \A k \in Nat : k \in S
    BY <2>1, <2>2, Inductive
  <2> QED
    BY <2>3 DEF S
<1> QED
  BY <1>7, <1>8, <1>9, <1>10

\* A page whose tuples take no more room fits if the other does.
LEMMA FitsStill ==
    ASSUME NEW pg \in Seq(ItemType), NEW qg \in Seq(ItemType), Len(qg) = Len(pg),
           \A k \in 1..Len(pg) : Size(qg[k]) <= Size(pg[k]), FitsOn(pg)
    PROVE  FitsOn(qg)
<1> DEFINE n == Len(pg)
<1>1. PICK f : f = Used(pg)
  OBVIOUS
<1>2. PICK g : g = Used(qg)
  OBVIOUS
<1>3. /\ f \in [0..n -> Nat] /\ f[0] = 0 /\ \A k \in 1..n : f[k] = f[k - 1] + Size(pg[k])
      /\ g \in [0..n -> Nat] /\ g[0] = 0 /\ \A k \in 1..n : g[k] = g[k - 1] + Size(qg[k])
  BY <1>1, <1>2, UsedIs
<1>4. \A k \in 1..n : Size(pg[k]) \in Nat /\ Size(qg[k]) \in Nat /\ Size(qg[k]) <= Size(pg[k])
  BY SizeIs
<1> DEFINE S == {k \in Nat : k <= n => g[k] <= f[k]}
<1>5. 0 \in S
  BY <1>3
<1>6. ASSUME NEW k \in Nat, k \in S PROVE k + 1 \in S
  <2> SUFFICES ASSUME k + 1 <= n PROVE g[k + 1] <= f[k + 1]
    OBVIOUS
  <2>1. k + 1 \in 1..n /\ (k + 1) - 1 = k /\ k \in 0..n
    OBVIOUS
  <2>2. g[k] <= f[k]
    BY <1>6
  <2>3. f[k + 1] = f[k] + Size(pg[k + 1]) /\ g[k + 1] = g[k] + Size(qg[k + 1])
    BY <1>3, <2>1
  <2>4. f[k] \in Nat /\ g[k] \in Nat
    BY <1>3, <2>1
  <2> QED
    BY <1>4, <2>1, <2>2, <2>3, <2>4
<1>7. n \in S
  <2> HIDE DEF S
  <2>1. n \in Nat
    OBVIOUS
  <2> QED
    BY <1>5, <1>6, <2>1, Inductive
<1>8. g[n] <= f[n] /\ f[n] \in Nat /\ g[n] \in Nat
  BY <1>3, <1>7
<1>9. HeaderSize + n * ItemIdSize + f[n] <= PageSize
  BY <1>1 DEF FitsOn
<1>10. HeaderSize + n * ItemIdSize + g[n] <= PageSize
  BY <1>8, <1>9, Assumed DEF HeaderSize, ItemIdSize
<1> QED
  BY <1>2, <1>10 DEF FitsOn

\* SetToSeq lists the elements of a finite set.
LEMMA SetToSeqIs ==
    ASSUME NEW S, IsFiniteSet(S)
    PROVE  /\ SetToSeq(S) \in Seq(S)
           /\ \A e \in S : \E i \in DOMAIN SetToSeq(S) : SetToSeq(S)[i] = e
<1> DEFINE n == Cardinality(S)
<1>1. n \in Nat /\ ExistsBijection(1..n, S)
  BY FS_CardinalityType
<1>2. PICK f \in [1..n -> S] : IsInjective(f)
  BY <1>1 DEF ExistsBijection, Bijection, Injection
<1>3. PICK q : q = SetToSeq(S)
  OBVIOUS
<1>4. q \in [1..n -> S] /\ IsInjective(q)
  BY <1>2, <1>3 DEF SetToSeq
<1>5. q \in Injection(1..n, S)
  BY <1>4 DEF Injection
<1>6. IsFiniteSet(1..n) /\ Cardinality(1..n) = n
  BY <1>1, FS_Interval
<1>7. q \in Surjection(1..n, S)
  BY <1>5, <1>6, FS_Injection
<1>8. \A e \in S : \E i \in 1..n : q[i] = e
  BY <1>7 DEF Surjection
<1>9. q \in Seq(S) /\ DOMAIN q = 1..n
  BY <1>1, <1>4
<1> QED
  BY <1>3, <1>8, <1>9

\* PageAddItem's slot is unused, or the next one.
LEMMA FreeSlotIs ==
    ASSUME Shaped, FreeSlots # {}
    PROVE  /\ FreeSlot \in Offnums
           /\ FreeSlot \in DOMAIN page => page[FreeSlot].lp = LP_UNUSED
           /\ FreeSlot \notin DOMAIN page => FreeSlot = Len(page) + 1
<1>1. FreeSlots \subseteq Nat
  BY DEF FreeSlots, Offnums
<1>2. FreeSlot \in FreeSlots /\ \A n \in FreeSlots : FreeSlot <= n
  BY <1>1, Least DEF FreeSlot
<1>3. FreeSlot \in Offnums /\ (FreeSlot \in DOMAIN page => page[FreeSlot].lp = LP_UNUSED)
  BY <1>2 DEF FreeSlots
<1>4. ASSUME FreeSlot \notin DOMAIN page PROVE FreeSlot = Len(page) + 1
  <2>1. FreeSlot \in 1..NSlots /\ NSlots \in Nat /\ Len(page) \in Nat /\ DOMAIN page = 1..Len(page)
    BY <1>3, Assumed DEF Offnums, Shaped
  <2>2. Len(page) + 1 \in 1..NSlots /\ Len(page) + 1 \notin DOMAIN page /\ Len(page) + 1 <= FreeSlot
    BY <1>4, <2>1
  <2>3. Len(page) + 1 \in FreeSlots
    BY <2>2 DEF FreeSlots, Offnums
  <2> QED
    BY <1>2, <2>1, <2>2, <2>3
<1> QED
  BY <1>3, <1>4

\* Page w is pg with item i at slot o, which may be a new one.
IsPut(w, pg, o, i) ==
    /\ w \in Seq(ItemType) /\ DOMAIN w = DOMAIN pg \cup {o}
    /\ Len(w) = Len(pg) \/ Len(w) = o
    /\ w[o] = i /\ \A p \in DOMAIN pg : p # o => w[p] = pg[p]

\* An item put into the free slot.
LEMMA PutIs ==
    ASSUME NEW pg \in Seq(ItemType), NEW o \in Nat, o \in DOMAIN pg \/ o = Len(pg) + 1,
           NEW i \in ItemType
    PROVE  IsPut(Put(pg, o, i), pg, o, i)
<1> USE DEF IsPut
<1>0. PICK w : w = Put(pg, o, i)
  OBVIOUS
<1>1. CASE o \in DOMAIN pg
  <2>1. w = [pg EXCEPT ![o] = i]
    BY <1>0, <1>1 DEF Put
  <2>2. w \in [1..Len(pg) -> ItemType] /\ w[o] = i /\ \A p \in DOMAIN pg : p # o => w[p] = pg[p]
    BY <1>1, <2>1
  <2>3. w \in Seq(ItemType) /\ Len(w) = Len(pg) /\ DOMAIN w = DOMAIN pg
    BY <2>2
  <2> QED
    BY <1>0, <1>1, <2>1, <2>2, <2>3
<1>2. CASE o \notin DOMAIN pg
  BY <1>0, <1>2 DEF Put
<1> QED
  BY <1>1, <1>2

-----------------------------------------------------------------------------
\* Multixacts.

\* The members of multixact m.
LastOf(m) == IF m + 1 \in DOMAIN offsets THEN offsets[m + 1] - 1 ELSE Len(members)
MembersOf(m) == {members[o] : o \in offsets[m]..LastOf(m)}

\* Where the members of a multixact are.
LEMMA MultiIs ==
    ASSUME Shaped, Multis, NEW m \in DOMAIN offsets
    PROVE  /\ offsets[m] \in Nat /\ offsets[m] >= 1 /\ LastOf(m) \in Nat
           /\ offsets[m] <= LastOf(m) /\ LastOf(m) <= Len(members)
           /\ offsets[m]..LastOf(m) \subseteq DOMAIN members
           /\ MembersOf(m) \subseteq Member /\ IsFiniteSet(MembersOf(m))
<1>1. /\ \A k \in DOMAIN offsets : offsets[k] \in Nat \ {0}
      /\ Len(members) \in Nat /\ DOMAIN members = 1..Len(members)
      /\ \A k \in DOMAIN members : members[k] \in Member
  BY DEF Shaped
<1>2. /\ offsets[m] <= Len(members)
      /\ m + 1 \in DOMAIN offsets => offsets[m] < offsets[m + 1] /\ offsets[m + 1] <= Len(members)
  BY DEF Multis
<1>3. /\ offsets[m] \in Nat /\ offsets[m] >= 1 /\ LastOf(m) \in Nat
      /\ offsets[m] <= LastOf(m) /\ LastOf(m) <= Len(members)
  BY <1>1, <1>2 DEF LastOf
<1>4. PICK a \in Nat : a = offsets[m]
  BY <1>3
<1>5. PICK b \in Nat : b = LastOf(m)
  BY <1>3
<1>6. a..b \subseteq DOMAIN members /\ a >= 1 /\ a <= b
  BY <1>1, <1>3, <1>4, <1>5
<1> DEFINE T == {members[o] : o \in a..b}
           f == [o \in a..b |-> members[o]]
<1>7. f \in Surjection(a..b, T)
  BY DEF Surjection
<1>8. IsFiniteSet(T)
  <2>1. IsFiniteSet(a..b)
    BY FS_Interval
  <2> HIDE DEF f, T
  <2> QED
    BY <1>7, <2>1, FS_Surjection
<1>9. T \subseteq Member
  BY <1>1, <1>6
<1>10. MembersOf(m) = T
  BY <1>4, <1>5 DEF MembersOf
<1> QED
  BY <1>3, <1>4, <1>5, <1>6, <1>8, <1>9, <1>10

\* A new multixact leaves the others alone.
LEMMA NewMulti ==
    ASSUME Shaped, Multis, NEW q \in Seq(Member), q # <<>>,
           offsets' = Append(offsets, Len(members) + 1), members' = members \o q
    PROVE  /\ offsets' \in Seq(Nat \ {0}) /\ members' \in Seq(Member) /\ Multis'
           /\ DOMAIN offsets' = DOMAIN offsets \cup {Len(offsets) + 1}
           /\ \A m \in DOMAIN offsets : MembersOf(m)' = MembersOf(m)
           /\ \A m : m = Len(offsets) + 1 => MembersOf(m)' = {q[i] : i \in DOMAIN q}
<1> DEFINE N == Len(offsets)
           M == Len(members)
<1>1. /\ N \in Nat /\ M \in Nat /\ DOMAIN offsets = 1..N /\ DOMAIN members = 1..M
      /\ offsets \in Seq(Nat \ {0}) /\ members \in Seq(Member)
      /\ \A k \in 1..N : offsets[k] \in Nat \ {0}
  BY DEF Shaped
<1>2. /\ offsets' \in Seq(Nat \ {0}) /\ DOMAIN offsets' = 1..(N + 1)
      /\ offsets'[N + 1] = M + 1 /\ \A k \in 1..N : offsets'[k] = offsets[k]
  BY <1>1
<1>3. /\ Len(q) \in Nat /\ Len(q) >= 1 /\ DOMAIN q = 1..Len(q)
      /\ members' \in Seq(Member) /\ Len(members') = M + Len(q)
      /\ \A k \in 1..M : members'[k] = members[k]
      /\ \A k \in 1..Len(q) : members'[M + k] = q[k]
  <2>1. Len(q) \in Nat /\ Len(q) >= 1 /\ DOMAIN q = 1..Len(q)
    OBVIOUS
  <2>2. PICK w : w = members \o q
    OBVIOUS
  <2>3. /\ w \in Seq(Member) /\ Len(w) = M + Len(q)
        /\ \A k \in 1..(M + Len(q)) : w[k] = IF k <= M THEN members[k] ELSE q[k - M]
    BY <1>1, <2>1, <2>2
  <2>4. \A k \in 1..M : w[k] = members[k]
    BY <1>1, <2>1, <2>3
  <2>5. ASSUME NEW k \in 1..Len(q) PROVE w[M + k] = q[k]
    <3>1. M + k \in 1..(M + Len(q)) /\ ~(M + k <= M) /\ (M + k) - M = k
      BY <1>1, <2>1
    <3> QED
      BY <2>3, <3>1
  <2> QED
    BY <2>1, <2>2, <2>3, <2>4, <2>5
<1>4. \A k \in 1..N : offsets[k] <= M /\ (k + 1 \in 1..N => offsets[k] < offsets[k + 1])
  BY <1>1 DEF Multis
<1> HIDE DEF N, M
<1>5. Multis'
  <2> SUFFICES ASSUME NEW k \in 1..(N + 1)
               PROVE  /\ offsets'[k] <= Len(members')
                      /\ k + 1 \in 1..(N + 1) => offsets'[k] < offsets'[k + 1]
    BY <1>2 DEF Multis, N
  <2>1. CASE k = N + 1
    BY <1>1, <1>2, <1>3, <2>1
  <2>2. CASE k = N
    BY <1>1, <1>2, <1>3, <1>4, <2>2
  <2>3. CASE k \in 1..N /\ k + 1 \in 1..N
    BY <1>1, <1>2, <1>3, <1>4, <2>3
  <2> QED
    BY <1>1, <2>1, <2>2, <2>3
<1>6. ASSUME NEW m \in 1..N PROVE MembersOf(m)' = MembersOf(m)
  <2>1. /\ LastOf(m) \in Nat /\ LastOf(m) <= M /\ offsets[m] \in Nat /\ offsets[m] >= 1
        /\ offsets'[m] = offsets[m]
    BY <1>1, <1>2, MultiIs DEF M
  <2>2. LastOf(m)' = LastOf(m)
    <3>1. m + 1 \in 1..(N + 1)
      BY <1>1
    <3>2. LastOf(m)' = offsets'[m + 1] - 1
      BY <1>2, <3>1 DEF LastOf
    <3>3. CASE m = N
      BY <1>1, <1>2, <3>2, <3>3 DEF LastOf, M
    <3>4. CASE m # N
      BY <1>1, <1>2, <3>2, <3>4 DEF LastOf
    <3> QED
      BY <3>3, <3>4
  <2>3. PICK b \in Nat : b = LastOf(m)
    BY <2>1
  <2>4. \A k \in offsets[m]..b : members'[k] = members[k]
    BY <1>1, <1>3, <2>1, <2>3
  <2> QED
    BY <2>1, <2>2, <2>3, <2>4 DEF MembersOf
<1>7. ASSUME NEW m, m = N + 1 PROVE MembersOf(m)' = {q[i] : i \in DOMAIN q}
  <2>1. m + 1 \notin DOMAIN offsets'
    BY <1>1, <1>2, <1>7
  <2>2. LastOf(m)' = M + Len(q)
    BY <1>3, <2>1 DEF LastOf
  <2>3. MembersOf(m)' = {members'[k] : k \in (M + 1)..(M + Len(q))}
    BY <1>2, <1>7, <2>2 DEF MembersOf
  <2>4. ASSUME NEW k \in (M + 1)..(M + Len(q))
        PROVE  k - M \in 1..Len(q) /\ members'[k] = q[k - M]
    <3>1. k - M \in 1..Len(q) /\ k = M + (k - M)
      BY <1>1, <1>3
    <3> QED
      BY <1>3, <3>1
  <2>5. ASSUME NEW k \in 1..Len(q)
        PROVE  M + k \in (M + 1)..(M + Len(q)) /\ members'[M + k] = q[k]
    BY <1>1, <1>3
  <2>6. {members'[k] : k \in (M + 1)..(M + Len(q))} = {q[i] : i \in 1..Len(q)}
    <3>1. ASSUME NEW e \in {members'[k] : k \in (M + 1)..(M + Len(q))}
          PROVE  e \in {q[i] : i \in 1..Len(q)}
      <4>1. PICK k \in (M + 1)..(M + Len(q)) : e = members'[k]
        OBVIOUS
      <4> QED
        BY <2>4, <4>1
    <3>2. ASSUME NEW e \in {q[i] : i \in 1..Len(q)}
          PROVE  e \in {members'[k] : k \in (M + 1)..(M + Len(q))}
      <4>1. PICK i \in 1..Len(q) : e = q[i]
        OBVIOUS
      <4> QED
        BY <2>5, <4>1
    <3> QED
      BY <3>1, <3>2
  <2> QED
    BY <1>3, <2>3, <2>6
<1> QED
  BY <1>1, <1>2, <1>3, <1>5, <1>6, <1>7 DEF N

\* A tuple of the page.
LEMMA TupleIs ==
    ASSUME Shaped, NEW c \in Tuples(page)
    PROVE  c \in DOMAIN page /\ page[c] \in ItemType /\ page[c].tup \in TupleType /\ page[c].lp = LP_NORMAL
<1>1. c \in DOMAIN page /\ page[c].lp = LP_NORMAL
  BY DEF Tuples
<1>2. page[c] \in ItemType
  BY <1>1 DEF Shaped
<1> QED
  BY <1>1, <1>2 DEF ItemType

\* The members of a tuple's xmax.
LEMMA XmaxIs ==
    ASSUME Shaped, Stamped, NEW c \in Tuples(page), NEW t, t = page[c].tup
    PROVE  /\ t.multi => t.xmax \in DOMAIN offsets /\ XmaxMembers(c) = MembersOf(t.xmax)
           /\ ~t.multi /\ t.xmax = INVALID_XID => XmaxMembers(c) = {}
           /\ ~t.multi /\ t.xmax # INVALID_XID =>
                 /\ t.xmax \in Xids
                 /\ XmaxMembers(c) = {[xid |-> t.xmax, status |-> IF t.lockOnly THEN ForKeyShare
                                        ELSE IF t.ctid = c THEN Update ELSE NoKeyUpdate]}
<1>1. t \in TupleType
  BY TupleIs
<1>2. /\ t.multi \in BOOLEAN /\ t.multi => t.xmax \in DOMAIN offsets
      /\ ~t.multi => t.xmax \in Xids \cup {INVALID_XID}
  BY <1>1 DEF Stamped, TupleType
<1>3. t.multi => t.xmax # INVALID_XID
  BY <1>2 DEF INVALID_XID, Shaped
<1> QED
  BY <1>2, <1>3 DEF XmaxMembers, MembersOf, LastOf

\* They are members, and finitely many.
LEMMA XmaxFinite ==
    ASSUME Shaped, Stamped, Multis, NEW c \in Tuples(page)
    PROVE  XmaxMembers(c) \subseteq Member /\ IsFiniteSet(XmaxMembers(c))
<1>1. PICK t : t = page[c].tup
  OBVIOUS
<1>2. t \in TupleType
  BY <1>1, TupleIs
<1>3. CASE t.multi
  BY <1>1, <1>3, XmaxIs, MultiIs
<1>4. CASE ~t.multi /\ t.xmax = INVALID_XID
  BY <1>1, <1>4, XmaxIs, FS_EmptySet
<1>5. CASE ~t.multi /\ t.xmax # INVALID_XID
  <2>1. PICK st \in Nat : st = IF t.lockOnly THEN ForKeyShare ELSE IF t.ctid = c THEN Update ELSE NoKeyUpdate
    BY DEF ForKeyShare, Update, NoKeyUpdate
  <2>2. t.xmax \in Xids /\ XmaxMembers(c) = {[xid |-> t.xmax, status |-> st]}
    BY <1>1, <1>5, <2>1, XmaxIs
  <2>3. [xid |-> t.xmax, status |-> st] \in Member
    BY <2>2 DEF Member
  <2> QED
    BY <2>2, <2>3, FS_Singleton
<1> QED
  BY <1>3, <1>4, <1>5

\* The updaters among a set of members.
UpdatersIn(S) == {m.xid : m \in {n \in S : IsUpdater(n)}}

\* A tuple left alone keeps its updaters, whatever multixacts are created.
LEMMA SameUpdaters ==
    ASSUME Shaped, Stamped, NEW c \in Tuples(page), page'[c] = page[c],
           DOMAIN offsets \subseteq DOMAIN offsets',
           \A m \in DOMAIN offsets : MembersOf(m)' = MembersOf(m)
    PROVE  UpdaterOf(c)' = UpdaterOf(c) /\ XmaxMembers(c)' = XmaxMembers(c)
<1>1. PICK t : t = page[c].tup
  OBVIOUS
<1>2. t \in TupleType
  BY <1>1, TupleIs
<1>3. t = page'[c].tup
  BY <1>1
<1>4. XmaxMembers(c)' = XmaxMembers(c)
  <2>1. CASE t.multi
    <3>1. t.xmax # INVALID_XID /\ t.xmax \in DOMAIN offsets /\ XmaxMembers(c) = MembersOf(t.xmax)
      BY <1>1, <2>1, XmaxIs, SMTT(30) DEF INVALID_XID, Shaped
    <3>2. XmaxMembers(c)' = MembersOf(t.xmax)'
      BY <1>3, <2>1, <3>1 DEF XmaxMembers, MembersOf, LastOf
    <3> QED
      BY <3>1, <3>2
  <2>2. CASE ~t.multi
    BY <1>1, <1>3, <2>2 DEF XmaxMembers
  <2> QED
    BY <2>1, <2>2
<1> QED
  BY <1>4 DEF UpdaterOf, IsUpdater


\* A step that leaves the log alone leaves every fate alone.
LEMMA SameFates ==
    ASSUME clog' = clog
    PROVE  /\ \A x : TrulyCommitted(x)' <=> TrulyCommitted(x)
           /\ \A x : Alive(x)' <=> Alive(x)
           /\ \A x : Doomed(x)' <=> Doomed(x)
           /\ Logged => Logged'
BY DEF TrulyCommitted, Alive, Doomed, St, Logged, Families

\* Record writes a multixact of the members given, or nothing.
LEMMA RecordIs ==
    ASSUME Shaped, Stamped, Multis, NEW c \in Tuples(page), NEW others, others \subseteq XmaxMembers(c),
           NEW me \in Member, Record(others, me)
    PROVE  /\ offsets' \in Seq(Nat \ {0}) /\ members' \in Seq(Member) /\ Multis'
           /\ DOMAIN offsets \subseteq DOMAIN offsets'
           /\ \A m \in DOMAIN offsets : MembersOf(m)' = MembersOf(m)
           /\ others # {} => \A m : m = Len(offsets) + 1 =>
                 m \in DOMAIN offsets' /\ m \in Nat /\ m # 0 /\ MembersOf(m)' = others \cup {me}
<1>1. CASE others = {}
  BY <1>1 DEF Record, Shaped, Multis, MembersOf, LastOf
<1>2. CASE others # {}
  <2>1. offsets' = Append(offsets, Len(members) + 1) /\ members' = members \o SetToSeq(others) \o <<me>>
    BY <1>2 DEF Record
  <2>2. others \subseteq Member /\ IsFiniteSet(others)
    BY XmaxFinite, FS_Subset
  <2>3. PICK s : s = SetToSeq(others)
    OBVIOUS
  <2>4. s \in Seq(others) /\ \A e \in others : \E i \in DOMAIN s : s[i] = e
    BY <2>2, <2>3, SetToSeqIs
  <2>5. s \in Seq(Member) /\ \A i \in DOMAIN s : s[i] \in others
    BY <2>2, <2>4
  <2>6. PICK q : q = s \o <<me>>
    OBVIOUS
  <2>7. q \in Seq(Member) /\ Len(q) = Len(s) + 1 /\ q # <<>>
        /\ \A i \in 1..(Len(s) + 1) : q[i] = IF i <= Len(s) THEN s[i] ELSE me
    BY <2>5, <2>6
  <2>8. members' = members \o q
    <3>1. members \in Seq(Member)
      BY DEF Shaped
    <3>2. PICK u : u = (members \o s) \o <<me>>
      OBVIOUS
    <3>3. PICK w : w = members \o q
      OBVIOUS
    <3>4. PICK v : v = members \o s
      OBVIOUS
    <3>5. v \in Seq(Member) /\ Len(v) = Len(members) + Len(s)
          /\ \A i \in 1..Len(v) : v[i] = IF i <= Len(members) THEN members[i] ELSE s[i - Len(members)]
      BY <2>5, <3>1, <3>4
    <3>6. u \in Seq(Member) /\ Len(u) = Len(v) + 1
          /\ \A i \in 1..Len(u) : u[i] = IF i <= Len(v) THEN v[i] ELSE me
      BY <3>2, <3>4, <3>5
    <3>7. w \in Seq(Member) /\ Len(w) = Len(members) + Len(q)
          /\ \A i \in 1..Len(w) : w[i] = IF i <= Len(members) THEN members[i] ELSE q[i - Len(members)]
      <4>1. q \in Seq(Member)
        BY <2>7
      <4> QED
        BY <4>1, <3>1, <3>3
    <3>8. Len(u) = Len(w) /\ Len(s) \in Nat /\ Len(members) \in Nat
      BY <2>5, <2>7, <3>1, <3>5, <3>6, <3>7
    <3>9. ASSUME NEW i \in 1..Len(u) PROVE u[i] = w[i]
      <4>1. CASE i <= Len(members)
        BY <3>5, <3>6, <3>7, <3>8, <4>1
      <4>2. CASE ~(i <= Len(members))
        <5>1. PICK k : k = i - Len(members)
          OBVIOUS
        <5>2. /\ k \in 1..(Len(s) + 1) /\ i \in 1..Len(w)
              /\ i <= Len(v) <=> k <= Len(s)
              /\ i <= Len(v) => i \in 1..Len(v)
          BY <3>5, <3>6, <3>8, <4>2, <5>1
        <5>3. w[i] = IF k <= Len(s) THEN s[k] ELSE me
          BY <2>7, <3>7, <4>2, <5>1, <5>2
        <5>4. u[i] = IF k <= Len(s) THEN s[k] ELSE me
          BY <3>5, <3>6, <4>2, <5>1, <5>2
        <5> QED
          BY <5>3, <5>4
      <4> QED
        BY <4>1, <4>2
    <3>10. u = w
      BY <3>6, <3>7, <3>8, <3>9
    <3> QED
      BY <2>1, <2>3, <3>2, <3>3, <3>10
  <2>9. {q[i] : i \in DOMAIN q} = others \cup {me}
    <3>1. DOMAIN q = 1..(Len(s) + 1) /\ DOMAIN s = 1..Len(s) /\ Len(s) \in Nat
      BY <2>5, <2>7
    <3>2. \A i \in DOMAIN q : q[i] \in others \cup {me}
      BY <2>5, <2>7, <3>1
    <3>3. ASSUME NEW e \in others \cup {me} PROVE \E i \in DOMAIN q : q[i] = e
      <4>1. CASE e = me
        <5>1. q[Len(s) + 1] = me /\ Len(s) + 1 \in DOMAIN q
          BY <2>7, <3>1
        <5> QED
          BY <4>1, <5>1
      <4>2. CASE e \in others
        <5>1. PICK i \in DOMAIN s : s[i] = e
          BY <2>4, <4>2
        <5>2. q[i] = e /\ i \in DOMAIN q
          BY <2>7, <3>1, <5>1
        <5> QED
          BY <5>2
      <4> QED
        BY <4>1, <4>2
    <3> QED
      BY <3>2, <3>3
  <2>10. /\ offsets' \in Seq(Nat \ {0}) /\ members' \in Seq(Member) /\ Multis'
         /\ DOMAIN offsets' = DOMAIN offsets \cup {Len(offsets) + 1}
         /\ \A m \in DOMAIN offsets : MembersOf(m)' = MembersOf(m)
         /\ \A m : m = Len(offsets) + 1 => MembersOf(m)' = {q[i] : i \in DOMAIN q}
    BY <2>1, <2>7, <2>8, NewMulti
  <2>11. Len(offsets) \in Nat
    BY DEF Shaped
  <2>12. \A m : m = Len(offsets) + 1 =>
            m \in DOMAIN offsets' /\ m \in Nat /\ m # 0 /\ MembersOf(m)' = others \cup {me}
    BY <2>9, <2>10, <2>11
  <2> QED
    BY <2>10, <2>12
<1> QED
  BY <1>1, <1>2

\* The tuple at c is stamped with the members others and one more.
Stamping(c, others, x, st, me, t) ==
    /\ c \in Tuples(page) /\ others \subseteq XmaxMembers(c)
    /\ x \in Xids /\ st \in {ForKeyShare, NoKeyUpdate, Update}
    /\ me = [xid |-> x, status |-> st] /\ Record(others, me) /\ t = page'[c].tup
    /\ t.xmax = (IF others = {} THEN x ELSE Len(offsets) + 1)
    /\ t.multi = (others # {})
    /\ t.lockOnly = (\A m \in others \cup {me} : ~IsUpdater(m))

\* The updaters of a tuple that was stamped.
LEMMA StampIs ==
    ASSUME Shaped, Stamped, Multis, NEW c, NEW others, NEW x, NEW st, NEW me, NEW t,
           Stamping(c, others, x, st, me, t)
    PROVE  /\ UpdaterOf(c)' = UpdatersIn(others \cup {me})
           /\ t.multi => t.xmax \in DOMAIN offsets'
           /\ ~t.multi => t.xmax \in Xids
           /\ t.lockOnly => UpdatersIn(others \cup {me}) = {}
           /\ t.xmax \in Nat
<1> USE DEF Stamping
<1>1. me \in Member /\ me.xid = x /\ me.status = st
  BY DEF Member, ForKeyShare, NoKeyUpdate, Update
<1>2. t.lockOnly => UpdatersIn(others \cup {me}) = {}
  BY DEF UpdatersIn
<1>3. CASE others = {}
  <2>1. t.xmax = x /\ ~t.multi /\ x # INVALID_XID /\ x \in Nat
    BY <1>3, Assumed DEF INVALID_XID
  <2>2. t.lockOnly = ~IsUpdater(me)
    BY <1>3
  <2>3. PICK s : s = IF t.lockOnly THEN ForKeyShare ELSE IF t.ctid = c THEN Update ELSE NoKeyUpdate
    OBVIOUS
  <2>4. XmaxMembers(c)' = {[xid |-> x, status |-> s]}
    BY <2>1, <2>3 DEF XmaxMembers
  <2>5. s > STATUS_FOR_UPDATE <=> st > STATUS_FOR_UPDATE
    <3>1. IsUpdater(me) <=> st > STATUS_FOR_UPDATE
      BY <1>1 DEF IsUpdater
    <3>2. t.lockOnly <=> ~(st > STATUS_FOR_UPDATE)
      BY <2>2, <3>1
    <3>3. CASE t.lockOnly
      <4>1. s = ForKeyShare
        BY <2>3, <3>3, Zenon
      <4>2. ~(s > STATUS_FOR_UPDATE)
        BY <4>1 DEF ForKeyShare, STATUS_FOR_UPDATE
      <4> QED
        BY <3>2, <3>3, <4>2, Zenon
    <3>4. CASE ~t.lockOnly
      BY <2>3, <3>2, <3>4 DEF Update, NoKeyUpdate, STATUS_FOR_UPDATE
    <3> QED
      BY <3>3, <3>4
  <2>6. PICK n : n = [xid |-> x, status |-> s]
    OBVIOUS
  <2>7. n.xid = x /\ n.status = s
    BY <2>6
  <2>8. UpdaterOf(c)' = {m.xid : m \in {k \in {n} : k.status > STATUS_FOR_UPDATE}}
    BY <2>4, <2>6 DEF UpdaterOf, IsUpdater
  <2>9. UpdatersIn({me}) = {m.xid : m \in {k \in {me} : k.status > STATUS_FOR_UPDATE}}
    BY DEF UpdatersIn, IsUpdater
  <2>10. UpdaterOf(c)' = UpdatersIn({me})
    <3>1. CASE st > STATUS_FOR_UPDATE
      <4>1. UpdaterOf(c)' = {x}
        BY <2>5, <2>7, <2>8, <3>1
      <4>2. UpdatersIn({me}) = {x}
        BY <1>1, <2>9, <3>1
      <4> QED
        BY <4>1, <4>2
    <3>2. CASE ~(st > STATUS_FOR_UPDATE)
      <4>1. UpdaterOf(c)' = {}
        BY <2>5, <2>7, <2>8, <3>2
      <4>2. UpdatersIn({me}) = {}
        BY <1>1, <2>9, <3>2
      <4> QED
        BY <4>1, <4>2
    <3> QED
      BY <3>1, <3>2
  <2> QED
    BY <1>2, <1>3, <2>1, <2>10
<1>4. CASE others # {}
  <2>1. PICK m : m = Len(offsets) + 1
    OBVIOUS
  <2>2. m \in DOMAIN offsets' /\ m \in Nat /\ m # 0 /\ MembersOf(m)' = others \cup {me}
    <3>1. others # {} => \A k : k = Len(offsets) + 1 =>
             k \in DOMAIN offsets' /\ k \in Nat /\ k # 0 /\ MembersOf(k)' = others \cup {me}
      <4>1. /\ c \in Tuples(page) /\ others \subseteq XmaxMembers(c)
            /\ me \in Member /\ Record(others, me)
        BY <1>1
      <4> HIDE DEF Stamping
      <4> QED
        BY <4>1, RecordIs
    <3> QED
      BY <1>4, <2>1, <3>1
  <2>3. t.xmax = m /\ t.multi
    BY <1>4, <2>1
  <2>4. XmaxMembers(c)' = MembersOf(m)'
    BY <2>2, <2>3 DEF XmaxMembers, MembersOf, LastOf, INVALID_XID
  <2>5. UpdaterOf(c)' = UpdatersIn(others \cup {me})
    BY <2>2, <2>4 DEF UpdaterOf, UpdatersIn, IsUpdater
  <2> QED
    BY <1>2, <2>2, <2>3, <2>5
<1> QED
  BY <1>3, <1>4

-----------------------------------------------------------------------------
\* The steps of the server on the page.

\* A chain starts at a tuple of its root.
LEMMA StartTuple ==
    ASSUME Rooted, NEW r \in DOMAIN page, IsRoot(page, r)
    PROVE  StartOf(page, r) \in Tuples(page) /\ Root(VerAt(StartOf(page, r))) = r
BY DEF Rooted, IsRoot, StartOf, Tuples, LP_REDIRECT, LP_NORMAL

\* The root of a version that is not dead is on the page.
LEMMA LiveRoot ==
    ASSUME Present, Rooted, NEW v \in DOMAIN vers, ~DeadVer(v)
    PROVE  Root(v) \in DOMAIN page /\ IsRoot(page, Root(v))
BY DEF Present, Rooted

\* No tuple and no version that is not dead has an unused line pointer as its root.
LEMMA UnusedRoot ==
    ASSUME Present, Rooted, NEW o, o \in DOMAIN page => ~IsRoot(page, o)
    PROVE  /\ \A c \in Tuples(page) : Root(VerAt(c)) # o
           /\ \A v \in DOMAIN vers : Root(v) = o => DeadVer(v)
           /\ \A r \in DOMAIN page : page[r].lp = LP_REDIRECT => r # o
BY DEF Present, Rooted, IsRoot

\* Reclaiming a dead line pointer.
LEMMA VacuumPage ==
    ASSUME Shaped, Logged, PageInv, FitsOn(page), NEW o \in DOMAIN page, Vacuum(o)
    PROVE  Shaped' /\ PageInv' /\ FitsOn(page)'
<1> USE DEF PageInv
<1>0. page[o].lp = LP_DEAD /\ page' = [page EXCEPT ![o] = Unused] /\ UNCHANGED <<clog, offsets, members, vers>>
  BY DEF Vacuum
<1>1. Unused \in ItemType /\ Unused.lp = LP_UNUSED
  BY Assumed DEF Unused, Item, NoTuple, ItemType, TupleType, LP_UNUSED, LP_DEAD
<1>2. /\ page' \in Seq(ItemType) /\ DOMAIN page' = DOMAIN page /\ Len(page') = Len(page)
      /\ page'[o] = Unused /\ \A p \in DOMAIN page : p # o => page'[p] = page[p]
  BY <1>0, <1>1 DEF Shaped
<1>3. Shaped'
  BY <1>0, <1>2 DEF Shaped
<1>4. FitsOn(page')
  <2>1. page \in Seq(ItemType)
    BY DEF Shaped
  <2>2. \A k \in 1..Len(page) : Size(page'[k]) <= Size(page[k])
    <3>1. \A k \in DOMAIN page : k # o => Size(page'[k]) = Size(page[k])
      BY <1>2
    <3>2. Size(page'[o]) = 0
      BY <1>1, <1>2 DEF Size, LP_UNUSED, LP_NORMAL
    <3>3. \A k \in DOMAIN page : Size(page[k]) \in Nat
      BY <2>1, SizeIs
    <3> QED
      BY <2>1, <3>1, <3>2, <3>3
  <2> QED
    BY <1>2, <2>1, <2>2, FitsStill
<1>5. Tuples(page)' = Tuples(page) /\ Tuples(page') = Tuples(page) /\ o \notin Tuples(page)
  BY <1>0, <1>1, <1>2 DEF Tuples, LP_DEAD, LP_NORMAL, LP_UNUSED
<1>6. \A c \in Tuples(page) : page'[c] = page[c]
  BY <1>2, <1>5 DEF Tuples
<1>7. \A c \in Tuples(page) : VerAt(c)' = VerAt(c) /\ UpdaterOf(c)' = UpdaterOf(c)
  <2>1. \A m \in DOMAIN offsets : MembersOf(m)' = MembersOf(m)
    BY <1>0 DEF MembersOf, LastOf
  <2> QED
    BY <1>0, <1>6, <2>1, SameUpdaters DEF VerAt
<1>8. \A v : By(v)' = By(v) /\ Ends(v)' = Ends(v) /\ Root(v)' = Root(v)
  BY <1>0 DEF By, Ends, Root
<1>9. /\ \A x : TrulyCommitted(x)' <=> TrulyCommitted(x)
      /\ \A x : Doomed(x)' <=> Doomed(x)
      /\ \A x : Alive(x)' <=> Alive(x)
  BY <1>0, SameFates
<1>10. \A v : DeadVer(v)' <=> DeadVer(v)
  BY <1>0, <1>9 DEF DeadVer
<1>11. \A r \in DOMAIN page : IsRoot(page, r) => r # o
  BY <1>0 DEF IsRoot, LP_DEAD, LP_REDIRECT, LP_NORMAL
<1>12. /\ \A r \in DOMAIN page : IsRoot(page, r) => IsRoot(page', r)
       /\ \A r \in DOMAIN page : IsRoot(page, r) => StartOf(page', r) = StartOf(page, r)
       /\ \A r \in DOMAIN page' : page'[r].lp = LP_REDIRECT => page[r].lp = LP_REDIRECT /\ page'[r] = page[r]
  BY <1>1, <1>2, <1>11 DEF IsRoot, StartOf, LP_UNUSED, LP_REDIRECT
<1>13. \A c, d \in Tuples(page) : Linked(c, d)' <=> Linked(c, d)
  BY <1>5, <1>6, <1>7 DEF Linked
<1>14. Multis'
  BY <1>0 DEF Multis
<1>15. Stamped'
  BY <1>0, <1>5, <1>6, <1>7 DEF Stamped
<1>16. Versions'
  <2>1. DOMAIN vers' = DOMAIN vers
    BY <1>0
  <2>2. \A c \in Tuples(page) : By(VerAt(c))' = By(VerAt(c)) /\ Ends(VerAt(c))' = Ends(VerAt(c))
    BY <1>7, <1>8
  <2> QED
    BY <1>5, <1>6, <1>7, <1>9, <2>1, <2>2 DEF Versions
<1>17. SeenFirst'
  BY <1>0, <1>8, <1>9 DEF SeenFirst
<1>18. Ordered'
  BY <1>0, <1>8, <1>9 DEF Ordered
<1>19. Present'
  BY <1>0, <1>5, <1>7, <1>10 DEF Present
<1>20. Rooted'
  BY <1>2, <1>5, <1>6, <1>7, <1>8, <1>12 DEF Rooted
<1>21. Starts'
  <2>1. ASSUME NEW v \in DOMAIN vers, ~DeadVer(v)
        PROVE  \E s : s = StartOf(page', Root(v)) /\ s \in Tuples(page)
                      /\ VerAt(s) <= v /\ ~Doomed(By(VerAt(s)))
    BY <2>1, <1>12, LiveRoot, StartTuple DEF Starts
  <2> QED
    BY <2>1, <1>0, <1>7, <1>8, <1>9, <1>10 DEF Starts
<1>22. Links'
  <2>1. ASSUME NEW c \in Tuples(page), page[c].tup.hotUpdated, NEW u \in UpdaterOf(c), ~Doomed(u)
        PROVE  page[c].tup.ctid \in Tuples(page)
    BY <2>1 DEF Links, Tuples
  <2> QED
    BY <2>1, <1>2, <1>5, <1>6, <1>7, <1>8, <1>9, <1>13 DEF Links
<1>23. Nexts'
  BY <1>0, <1>5, <1>7, <1>8, <1>9, <1>10, <1>13 DEF Nexts
<1> QED
  BY <1>3, <1>4, <1>14, <1>15, <1>16, <1>17, <1>18, <1>19, <1>20, <1>21, <1>22, <1>23


\* The item of a new version.
LEMMA NewItemIs ==
    ASSUME Shaped, Len(vers) < MaxVers, NEW x \in Xids, NEW o \in Offnums, NEW hot \in BOOLEAN,
           NEW i, i = NewItem(x, o, hot)
    PROVE  /\ i \in ItemType /\ i.lp = LP_NORMAL /\ i.tup.ver = Len(vers) + 1
           /\ i.tup.xmin = x /\ i.tup.xmax = 0 /\ ~i.tup.multi /\ ~i.tup.lockOnly
           /\ i.tup.ctid = o /\ i.tup.heapOnly = hot /\ ~i.tup.hotUpdated
<1>1. PICK v : v = Len(vers) + 1
  OBVIOUS
<1>2. v \in 1..MaxVers
  BY <1>1, Assumed DEF Shaped
<1>3. PICK b : b = 2 * ((v + 1) % 2)
  OBVIOUS
<1>4. b \in {0, 2}
  BY <1>2, <1>3
<1>5. i = [lp |-> LP_NORMAL, to |-> 0,
           tup |-> [xmin |-> x, xmax |-> 0, lockOnly |-> FALSE, multi |-> FALSE, ctid |-> o,
                    heapOnly |-> hot, hotUpdated |-> FALSE, bitmap |-> b, attrs |-> 8, ver |-> v]]
  BY <1>1, <1>3 DEF NewItem, Item, NoTuple
<1>6. o \in 0..NSlots /\ 0 \in 0..NSlots /\ LP_NORMAL \in LP_UNUSED..LP_DEAD
  BY Assumed DEF Offnums, LP_NORMAL, LP_UNUSED, LP_DEAD
<1>7. [xmin |-> x, xmax |-> 0, lockOnly |-> FALSE, multi |-> FALSE, ctid |-> o,
       heapOnly |-> hot, hotUpdated |-> FALSE, bitmap |-> b, attrs |-> 8, ver |-> v] \in TupleType
  BY <1>2, <1>4, <1>6, Assumed DEF TupleType
<1> QED
  BY <1>1, <1>5, <1>6, <1>7 DEF ItemType

\* A new row in a free slot.
LEMMA InsertPage ==
    ASSUME Shaped, Logged, PageInv, NEW x \in Xids, Insert(x)
    PROVE  Shaped' /\ PageInv' /\ FitsOn(page)'
<1> USE DEF PageInv
<1>1. PICK o : o = FreeSlot
  OBVIOUS
<1>2. PICK v : v = Len(vers) + 1
  OBVIOUS
<1>3. PICK i : i = NewItem(x, o, FALSE)
  OBVIOUS
<1>4. /\ page' = Put(page, o, i) /\ FitsOn(page')
      /\ vers' = Append(vers, NewVer(x, o)) /\ UNCHANGED <<clog, offsets, members>>
      /\ Running(x) /\ Len(vers) < MaxVers /\ FreeSlots # {}
  BY <1>1, <1>3 DEF Insert, CanWrite
<1>5. Alive(x) /\ ~Doomed(x) /\ ~TrulyCommitted(x)
  BY <1>4, RunningIs
<1>6. /\ o \in Offnums /\ o \in Nat /\ (o \in DOMAIN page => page[o].lp = LP_UNUSED)
      /\ o \in DOMAIN page \/ o = Len(page) + 1
  BY <1>1, <1>4, FreeSlotIs DEF Offnums
<1>7. /\ i \in ItemType /\ i.lp = LP_NORMAL /\ i.tup.ver = v
      /\ i.tup.xmin = x /\ i.tup.xmax = 0 /\ ~i.tup.multi /\ ~i.tup.lockOnly
      /\ i.tup.ctid = o /\ ~i.tup.heapOnly /\ ~i.tup.hotUpdated
  <2>1. \A hot \in BOOLEAN : i = NewItem(x, o, hot) =>
           /\ i \in ItemType /\ i.lp = LP_NORMAL /\ i.tup.ver = Len(vers) + 1
           /\ i.tup.xmin = x /\ i.tup.xmax = 0 /\ ~i.tup.multi /\ ~i.tup.lockOnly
           /\ i.tup.ctid = o /\ i.tup.heapOnly = hot /\ ~i.tup.hotUpdated
    BY <1>4, <1>6, NewItemIs
  <2> QED
    BY <1>2, <1>3, <2>1
<1>8. /\ page' \in Seq(ItemType) /\ DOMAIN page' = DOMAIN page \cup {o} /\ Len(page') <= NSlots
      /\ page'[o] = i /\ \A p \in DOMAIN page : p # o => page'[p] = page[p]
  <2>1. page \in Seq(ItemType) /\ Len(page) <= NSlots /\ o <= NSlots
    BY <1>6, Assumed DEF Shaped, Offnums
  <2>2. o \in Nat /\ i \in ItemType /\ (o \in DOMAIN page \/ o = Len(page) + 1)
    BY <1>6, <1>7
  <2>3. IsPut(page', page, o, i)
    BY <1>4, <2>1, <2>2, PutIs
  <2> QED
    BY <2>1, <2>3 DEF IsPut
<1>9. /\ v \in Nat /\ v \in 1..MaxVers /\ DOMAIN vers' = DOMAIN vers \cup {v}
      /\ \A w \in DOMAIN vers : w \in Nat /\ w < v
      /\ v \notin DOMAIN vers /\ vers' \in Seq(VerType) /\ Len(vers') <= MaxVers
      /\ \A w \in DOMAIN vers : vers'[w] = vers[w]
      /\ vers'[v] = [root |-> o, by |-> x, ends |-> {}]
  <2>1. vers \in Seq(VerType) /\ NewVer(x, o) \in VerType
    BY <1>6 DEF Shaped, NewVer, VerType
  <2>2. NewVer(x, o) = [root |-> o, by |-> x, ends |-> {}]
    BY DEF NewVer
  <2>3. PICK e \in VerType : e = NewVer(x, o)
    BY <2>1
  <2>4. vers' = Append(vers, e) /\ Len(vers) < MaxVers
    BY <1>4, <2>3
  <2> QED
    BY <1>2, <2>1, <2>2, <2>3, <2>4, Assumed
<1>10. Shaped'
  BY <1>4, <1>8, <1>9 DEF Shaped
<1>11. /\ Tuples(page)' = Tuples(page) \cup {o} /\ Tuples(page') = Tuples(page) \cup {o}
       /\ o \notin Tuples(page) /\ Tuples(page) \subseteq DOMAIN page
  BY <1>6, <1>7, <1>8 DEF Tuples, LP_UNUSED, LP_NORMAL
<1>12. \A c \in Tuples(page) : page'[c] = page[c] /\ c # o
  BY <1>8, <1>11
<1>13. \A c \in Tuples(page) : VerAt(c)' = VerAt(c) /\ UpdaterOf(c)' = UpdaterOf(c)
  <2>1. \A m \in DOMAIN offsets : MembersOf(m)' = MembersOf(m)
    BY <1>4 DEF MembersOf, LastOf
  <2> QED
    BY <1>4, <1>12, <2>1, SameUpdaters DEF VerAt
<1>14. VerAt(o)' = v /\ UpdaterOf(o)' = {}
  <2>1. XmaxMembers(o)' = {}
    BY <1>7, <1>8 DEF XmaxMembers, INVALID_XID
  <2> QED
    BY <1>7, <1>8, <2>1 DEF VerAt, UpdaterOf
<1>15. /\ \A w \in DOMAIN vers : By(w)' = By(w) /\ Ends(w)' = Ends(w) /\ Root(w)' = Root(w)
       /\ By(v)' = x /\ Ends(v)' = {} /\ Root(v)' = o
  BY <1>9 DEF By, Ends, Root
<1>16. /\ \A y : TrulyCommitted(y)' <=> TrulyCommitted(y)
       /\ \A y : Doomed(y)' <=> Doomed(y)
       /\ \A y : Alive(y)' <=> Alive(y)
       /\ Logged'
  BY <1>4, SameFates
<1>17. /\ \A w \in DOMAIN vers : DeadVer(w)' <=> DeadVer(w)
       /\ ~DeadVer(v)'
  BY <1>5, <1>9, <1>16 DEF DeadVer
<1>18. o \in DOMAIN page => ~IsRoot(page, o)
  BY <1>6 DEF IsRoot, LP_UNUSED, LP_REDIRECT, LP_NORMAL
<1>19. /\ \A c \in Tuples(page) : Root(VerAt(c)) # o
       /\ \A w \in DOMAIN vers : Root(w) = o => DeadVer(w)
       /\ \A r \in DOMAIN page : page[r].lp = LP_REDIRECT => r # o
  BY <1>18, UnusedRoot
<1>20. \A w \in DOMAIN vers : Root(w) = o => Doomed(By(w)) \/ \E y \in Ends(w) : TrulyCommitted(y)
  BY <1>19, DeadIsHolds DEF DeadIs
<1>21. \A c \in Tuples(page) : VerAt(c) \in DOMAIN vers
  BY DEF Versions
<1>22. \A c \in Tuples(page) : By(VerAt(c))' = By(VerAt(c)) /\ Ends(VerAt(c))' = Ends(VerAt(c))
                               /\ Root(VerAt(c))' = Root(VerAt(c))
  BY <1>13, <1>15, <1>21
<1>23. By(VerAt(o))' = x /\ Ends(VerAt(o))' = {} /\ Root(VerAt(o))' = o
  BY <1>14, <1>15
<1>24. /\ \A r \in DOMAIN page : IsRoot(page, r) => IsRoot(page', r) /\ StartOf(page', r) = StartOf(page, r)
       /\ IsRoot(page', o) /\ StartOf(page', o) = o
       /\ \A r \in DOMAIN page' : page'[r].lp = LP_REDIRECT =>
             r \in DOMAIN page /\ page[r].lp = LP_REDIRECT /\ page'[r] = page[r]
  <2>1. \A r \in DOMAIN page : IsRoot(page, r) => IsRoot(page', r) /\ StartOf(page', r) = StartOf(page, r)
    BY <1>8, <1>18 DEF IsRoot, StartOf
  <2>2. IsRoot(page', o) /\ StartOf(page', o) = o
    BY <1>7, <1>8 DEF IsRoot, StartOf, LP_NORMAL, LP_REDIRECT
  <2>3. \A r \in DOMAIN page' : page'[r].lp = LP_REDIRECT =>
             r \in DOMAIN page /\ page[r].lp = LP_REDIRECT /\ page'[r] = page[r]
    BY <1>7, <1>8 DEF LP_NORMAL, LP_REDIRECT
  <2> QED
    BY <2>1, <2>2, <2>3
<1>25. \A c \in Tuples(page) : page[c].tup.hotUpdated /\ page[c].tup.ctid = o =>
          \A u \in UpdaterOf(c) : Doomed(u)
  BY <1>6 DEF Links, LP_UNUSED, LP_NORMAL
<1>26. \A c, d \in Tuples(page) \cup {o} :
          Linked(c, d)' <=> c \in Tuples(page) /\ d \in Tuples(page) /\ Linked(c, d)
  <2>1. \A d : ~Linked(o, d)'
    BY <1>7, <1>8 DEF Linked
  <2>2. \A c \in Tuples(page) : ~Linked(c, o)'
    BY <1>5, <1>7, <1>8, <1>12, <1>13, <1>25 DEF Linked
  <2>3. \A c, d \in Tuples(page) : Linked(c, d)' <=> Linked(c, d)
    BY <1>11, <1>12, <1>13 DEF Linked
  <2> QED
    BY <1>11, <2>1, <2>2, <2>3
<1>30. Multis'
  BY <1>4 DEF Multis
<1>31. Stamped'
  BY <1>4, <1>7, <1>8, <1>11, <1>12, <1>13, <1>14 DEF Stamped, INVALID_XID
<1>32. Versions'
  <2>1. \A c, d \in Tuples(page) \cup {o} : VerAt(c)' = VerAt(d)' => c = d
    BY <1>9, <1>13, <1>14, <1>21 DEF Versions
  <2>2. ASSUME NEW c \in Tuples(page)
        PROVE  /\ VerAt(c)' \in DOMAIN vers' /\ By(VerAt(c))' = page'[c].tup.xmin
               /\ UpdaterOf(c)' \subseteq Ends(VerAt(c))'
               /\ \A y \in Ends(VerAt(c))' : y \in UpdaterOf(c)' \/ Doomed(y)'
    BY <1>9, <1>12, <1>13, <1>16, <1>21, <1>22 DEF Versions
  <2>3. /\ VerAt(o)' \in DOMAIN vers' /\ By(VerAt(o))' = page'[o].tup.xmin
        /\ UpdaterOf(o)' \subseteq Ends(VerAt(o))'
        /\ \A y \in Ends(VerAt(o))' : y \in UpdaterOf(o)' \/ Doomed(y)'
    BY <1>7, <1>8, <1>9, <1>14, <1>23
  <2> QED
    BY <1>11, <2>1, <2>2, <2>3 DEF Versions
<1>33. SeenFirst'
  BY <1>9, <1>15, <1>16 DEF SeenFirst
<1>34. Ordered'
  <2> SUFFICES ASSUME NEW w \in DOMAIN vers', NEW u \in DOMAIN vers', w < u, Root(w)' = Root(u)'
               PROVE  \/ Doomed(By(w))' \/ Doomed(By(u))'
                      \/ \E y \in Ends(w)' : TrulyCommitted(y)' \/ y = By(u)' \/ y = Top(By(u))'
    BY DEF Ordered
  <2>1. w \in DOMAIN vers
    BY <1>9
  <2>2. CASE u \in DOMAIN vers
    BY <1>15, <1>16, <2>1, <2>2 DEF Ordered, Top
  <2>3. CASE u = v
    BY <1>15, <1>16, <1>20, <2>1, <2>3
  <2> QED
    BY <1>9, <2>2, <2>3
<1>35. Present'
  BY <1>9, <1>11, <1>13, <1>14, <1>17 DEF Present
<1>36. Rooted'
  <2>1. \A c \in Tuples(page) : /\ ~page'[c].tup.heapOnly => Root(VerAt(c))' = c
                                /\ Root(VerAt(c))' \in DOMAIN page' /\ IsRoot(page', Root(VerAt(c))')
    BY <1>8, <1>12, <1>22, <1>24 DEF Rooted
  <2>2. Root(VerAt(o))' = o /\ o \in DOMAIN page' /\ IsRoot(page', o)
    BY <1>8, <1>23, <1>24
  <2>3. \A r \in DOMAIN page' : page'[r].lp = LP_REDIRECT =>
          \E e \in Tuples(page) : e = page'[r].to /\ page'[e].tup.heapOnly /\ Root(VerAt(e))' = r
    BY <1>12, <1>22, <1>24 DEF Rooted
  <2> QED
    BY <1>11, <2>1, <2>2, <2>3 DEF Rooted
<1>37. Starts'
  <2>1. ASSUME NEW w \in DOMAIN vers, ~DeadVer(w)
        PROVE  \E s : s = StartOf(page', Root(w)) /\ s \in Tuples(page)
                      /\ VerAt(s) <= w /\ ~Doomed(By(VerAt(s)))
    BY <2>1, <1>24, LiveRoot, StartTuple DEF Starts
  <2>2. ASSUME NEW w \in DOMAIN vers', ~DeadVer(w)'
        PROVE  \E s : s = StartOf(page', Root(w)') /\ VerAt(s)' <= w /\ ~Doomed(By(VerAt(s)))'
    <3>1. CASE w \in DOMAIN vers
      BY <1>13, <1>15, <1>16, <1>17, <1>22, <2>1, <2>2, <3>1
    <3>2. CASE w = v
      BY <1>5, <1>9, <1>14, <1>15, <1>16, <1>23, <1>24, <3>2
    <3> QED
      BY <1>9, <3>1, <3>2
  <2> QED
    BY <2>2 DEF Starts
<1>38. Links'
  <2>1. ASSUME NEW c \in Tuples(page) \cup {o}, page'[c].tup.hotUpdated
        PROVE  /\ page'[c].tup.ctid \in DOMAIN page'
               /\ \A u \in UpdaterOf(c)' : ~Doomed(u)' =>
                     /\ page'[page'[c].tup.ctid].lp = LP_NORMAL
                     /\ page'[page'[c].tup.ctid].tup.xmin = u
    <3>1. c \in Tuples(page) /\ page'[c] = page[c]
      BY <1>7, <1>8, <1>12, <2>1
    <3>2. page[c].tup.ctid \in DOMAIN page
      BY <2>1, <3>1 DEF Links
    <3>3. ASSUME NEW u \in UpdaterOf(c), ~Doomed(u)
          PROVE  /\ page[page[c].tup.ctid].lp = LP_NORMAL
                 /\ page[page[c].tup.ctid].tup.xmin = u
                 /\ page[c].tup.ctid # o
      BY <1>25, <2>1, <3>1, <3>3 DEF Links
    <3> QED
      BY <1>8, <1>13, <1>16, <3>1, <3>2, <3>3
  <2>2. ASSUME NEW c \in Tuples(page) \cup {o}, NEW d \in Tuples(page) \cup {o}, Linked(c, d)'
        PROVE  page'[d].tup.heapOnly /\ Root(VerAt(d))' = Root(VerAt(c))' /\ VerAt(c)' < VerAt(d)'
    BY <1>12, <1>13, <1>22, <1>26, <2>2 DEF Links
  <2> QED
    BY <1>11, <2>1, <2>2 DEF Links
<1>39. Nexts'
  <2> SUFFICES ASSUME NEW c \in Tuples(page) \cup {o}, NEW w \in DOMAIN vers',
                      ~Doomed(By(VerAt(c)))', ~DeadVer(w)', Root(w)' = Root(VerAt(c))', VerAt(c)' < w
               PROVE  \E d \in Tuples(page) \cup {o} :
                         Linked(c, d)' /\ VerAt(d)' <= w /\ ~Doomed(By(VerAt(d)))'
    BY <1>11 DEF Nexts
  <2>1. c \in Tuples(page) /\ w \in DOMAIN vers
    BY <1>9, <1>14, <1>15, <1>19, <1>22
  <2>2. PICK d \in Tuples(page) : Linked(c, d) /\ VerAt(d) <= w /\ ~Doomed(By(VerAt(d)))
    BY <1>13, <1>15, <1>16, <1>17, <1>22, <2>1 DEF Nexts
  <2> QED
    BY <1>13, <1>16, <1>22, <1>26, <2>1, <2>2
<1> QED
  BY <1>4, <1>10, <1>30, <1>31, <1>32, <1>33, <1>34, <1>35, <1>36, <1>37, <1>38, <1>39


\* The tuples that are not touched keep what they stand for.
Kept(c) == /\ DOMAIN offsets \subseteq DOMAIN offsets'
           /\ \A m \in DOMAIN offsets : MembersOf(m)' = MembersOf(m)
           /\ \A d \in Tuples(page) : d # c => page'[d] = page[d]

\* If everyone who ended a version came to nothing, so did its successors.
LEMMA Superseded ==
    ASSUME Shaped, Logged, Ordered, NEW p \in DOMAIN vers, ~Doomed(By(p)), \A y \in Ends(p) : Doomed(y)
    PROVE  \A w \in DOMAIN vers : p < w /\ Root(w) = Root(p) => Doomed(By(w))
<1> SUFFICES ASSUME NEW w \in DOMAIN vers, p < w, Root(w) = Root(p), ~Doomed(By(w)) PROVE FALSE
  OBVIOUS
<1>1. PICK y \in Ends(p) : TrulyCommitted(y) \/ y = By(w) \/ y = Top(By(w))
  BY DEF Ordered
<1>2. Ends(p) \subseteq Xids /\ By(w) \in Xids \cup {FROZEN_XID}
  BY VerIs
<1>3. y \in Xids /\ Doomed(y) /\ ~TrulyCommitted(y)
  BY <1>2, Fates
<1>4. y = Top(By(w))
  BY <1>1, <1>3
<1>5. By(w) \in Xids => Doomed(By(w))
  BY <1>3, <1>4, Parents DEF Top
<1> QED
  BY <1>2, <1>3, <1>4, <1>5, Assumed DEF Top, FROZEN_XID

\* Transaction x may end the version at c: it sees it, and everyone who ended
\* it before came to nothing.
LEMMA WriterSees ==
    ASSUME Shaped, Logged, PageInv, NEW x \in Xids, NEW c \in Tuples(page), CanWrite(x), Writable(c, x),
           NEW p, p = VerAt(c)
    PROVE  /\ p \in DOMAIN vers /\ Alive(x) /\ ~Doomed(x) /\ ~TrulyCommitted(x)
           /\ ~Doomed(By(p))
           /\ TrulyCommitted(By(p)) \/ By(p) = x \/ By(p) = SubOf[x]
           /\ \A u \in UpdaterOf(c) : Doomed(u)
           /\ \A y \in Ends(p) : Doomed(y)
           /\ \A m \in OthersAlive(c, x) : ~IsUpdater(m)
           /\ \A w \in DOMAIN vers : p < w /\ Root(w) = Root(p) => Doomed(By(w))
<1> USE DEF PageInv
<1>1. p \in DOMAIN vers /\ By(p) = page[c].tup.xmin
  BY DEF Versions
<1>2. By(p) \in Xids \cup {FROZEN_XID} /\ Ends(p) \subseteq Xids
  BY <1>1, VerIs
<1>3. Alive(x) /\ ~Doomed(x) /\ ~TrulyCommitted(x)
  BY RunningIs DEF CanWrite
<1>4. TrulyCommitted(By(p)) \/ (Alive(By(p)) /\ SubOf[By(p)] = SubOf[x])
  BY <1>1 DEF Writable, Sees
<1>5. ~Doomed(By(p))
  BY <1>2, <1>4, Fates
<1>6. TrulyCommitted(By(p)) \/ By(p) = x \/ By(p) = SubOf[x]
  <2> SUFFICES ASSUME Alive(By(p)), SubOf[By(p)] = SubOf[x], By(p) # x, By(p) # SubOf[x]
               PROVE  FALSE
    BY <1>4
  <2>1. By(p) \in Xids /\ status_in_page(clog, By(p)) # Aborted
    BY DEF Alive, Aborted, InProgress, SubCommitted
  <2>2. By(p) \in Children(SubOf[x]) \ {x}
    BY <2>1 DEF Children
  <2>3. Acted(By(p))
    BY <1>1 DEF Acted, By
  <2> QED
    BY <2>2, <2>3 DEF CanWrite
<1>7. \A m \in XmaxMembers(c) : IsUpdater(m) => ~Alive(m.xid) /\ ~TrulyCommitted(m.xid)
  BY DEF Writable, Standing
<1>8. \A u \in UpdaterOf(c) : Doomed(u)
  <2> SUFFICES ASSUME NEW u \in UpdaterOf(c) PROVE Doomed(u)
    OBVIOUS
  <2>1. u \in Xids
    BY <1>2 DEF Versions
  <2>2. ~Alive(u) /\ ~TrulyCommitted(u)
    BY <1>7 DEF UpdaterOf
  <2> QED
    BY <2>1, <2>2, Fates
<1>9. \A y \in Ends(p) : Doomed(y)
  BY <1>8 DEF Versions
<1>10. \A m \in OthersAlive(c, x) : ~IsUpdater(m)
  BY <1>7 DEF OthersAlive
<1>11. \A w \in DOMAIN vers : p < w /\ Root(w) = Root(p) => Doomed(By(w))
  BY <1>1, <1>5, <1>9, Superseded
<1> QED
  BY <1>1, <1>3, <1>5, <1>6, <1>8, <1>9, <1>10, <1>11

\* The tuple t stamped at c: version p is now ended by E, and has updaters U.
Restamps(c, p, t, E, U) ==
    /\ p = VerAt(c) /\ t \in TupleType
    /\ page' \in Seq(ItemType) /\ Len(page') = Len(page)
    /\ \A q \in DOMAIN page : q # c => page'[q] = page[q]
    /\ page'[c].lp = page[c].lp /\ page'[c].tup = t
    /\ t.xmin = page[c].tup.xmin /\ t.heapOnly = page[c].tup.heapOnly /\ t.ver = p
    /\ t.bitmap = page[c].tup.bitmap /\ t.attrs = page[c].tup.attrs
    /\ vers' \in Seq(VerType) /\ Len(vers') = Len(vers)
    /\ \A w \in DOMAIN vers : w # p => vers'[w] = vers[w]
    /\ By(p)' = By(p) /\ Root(p)' = Root(p) /\ Ends(p)' = E
    /\ clog' = clog /\ offsets' \in Seq(Nat \ {0}) /\ members' \in Seq(Member) /\ Multis' /\ Kept(c)
    /\ UpdaterOf(c)' = U
    /\ t.multi => t.xmax \in DOMAIN offsets'
    /\ ~t.multi => t.xmax \in Xids
    /\ t.lockOnly => U = {}
    /\ \A y, z \in U : y = z
    /\ Ends(p) \subseteq E /\ U \subseteq E
    /\ \A y \in E : y \in U \/ Doomed(y)
    /\ \A y \in E : TrulyCommitted(y) => y \in Ends(p)
    /\ \A y \in E : TrulyCommitted(By(p)) \/ Doomed(y) \/ y = By(p) \/ By(p) = SubOf[y]

\* The versions after p of its root came to nothing; or the link at c stays.
Unlinks(p, t) == ~t.hotUpdated /\ \A w \in DOMAIN vers : p < w /\ Root(w) = Root(p) => Doomed(By(w))
KeepsLink(c, t, U) == /\ t.hotUpdated = page[c].tup.hotUpdated /\ t.ctid = page[c].tup.ctid
                      /\ U \subseteq UpdaterOf(c) /\ \A u \in UpdaterOf(c) : u \in U \/ Doomed(u)

\* Such a step keeps the invariants of the page.
LEMMA Restamp ==
    ASSUME Shaped, Logged, PageInv, FitsOn(page), NEW c \in Tuples(page), NEW p, NEW t, NEW E, NEW U,
           Restamps(c, p, t, E, U), Unlinks(p, t) \/ KeepsLink(c, t, U)
    PROVE  Shaped' /\ PageInv' /\ FitsOn(page)'
<1> USE DEF PageInv, Restamps, Unlinks, KeepsLink
<1>1. c \in DOMAIN page /\ page[c].lp = LP_NORMAL /\ page[c].tup \in TupleType /\ page[c].tup.ver = p
  BY TupleIs DEF VerAt
<1>2. /\ DOMAIN page' = DOMAIN page /\ DOMAIN vers' = DOMAIN vers /\ p \in DOMAIN vers
      /\ Tuples(page) \subseteq DOMAIN page
  BY DEF Shaped, Versions, Tuples
<1>3. Shaped'
  BY DEF Shaped
<1>4. Tuples(page)' = Tuples(page) /\ Tuples(page') = Tuples(page)
  BY <1>1, <1>2 DEF Tuples
<1>5. /\ \A d \in Tuples(page) : VerAt(d)' = VerAt(d) /\ page'[d].lp = LP_NORMAL
         /\ page'[d].tup.xmin = page[d].tup.xmin /\ page'[d].tup.heapOnly = page[d].tup.heapOnly
      /\ \A d \in Tuples(page) : d # c => page'[d] = page[d]
  BY <1>1, <1>2 DEF VerAt, Tuples
<1>6. \A d \in Tuples(page) : d # c => UpdaterOf(d)' = UpdaterOf(d)
  BY SameUpdaters DEF Kept
<1>7. /\ \A w \in DOMAIN vers : By(w)' = By(w) /\ Root(w)' = Root(w) /\ Ends(w) \subseteq Ends(w)'
      /\ \A w \in DOMAIN vers : w # p => Ends(w)' = Ends(w)
  BY DEF By, Root, Ends
<1>8. /\ \A y : TrulyCommitted(y)' <=> TrulyCommitted(y)
      /\ \A y : Doomed(y)' <=> Doomed(y)
      /\ \A y : Alive(y)' <=> Alive(y)
      /\ Logged'
  BY SameFates
<1>9. \A w \in DOMAIN vers : DeadVer(w)' <=> DeadVer(w)
  <2>1. \A w \in DOMAIN vers : (\E y \in Ends(w)' : TrulyCommitted(y)) <=> (\E y \in Ends(w) : TrulyCommitted(y))
    BY <1>7
  <2> QED
    BY <1>7, <1>8, <2>1 DEF DeadVer, By, Ends
<1>10. \A d \in Tuples(page) : VerAt(d) \in DOMAIN vers /\ (VerAt(d) = p => d = c)
  BY DEF Versions
<1>11. \A d \in Tuples(page) : By(VerAt(d))' = By(VerAt(d)) /\ Root(VerAt(d))' = Root(VerAt(d))
          /\ (d # c => Ends(VerAt(d))' = Ends(VerAt(d)))
  BY <1>5, <1>7, <1>10
<1>12. By(VerAt(c))' = By(p) /\ Ends(VerAt(c))' = E
  BY <1>5
<1>13. \A r \in DOMAIN page : /\ IsRoot(page', r) <=> IsRoot(page, r)
                              /\ page'[r].lp = page[r].lp /\ page'[r].lp = LP_REDIRECT => page'[r] = page[r]
                              /\ StartOf(page', r) = StartOf(page, r)
  <2> SUFFICES ASSUME NEW r \in DOMAIN page
               PROVE  /\ IsRoot(page', r) <=> IsRoot(page, r)
                      /\ page'[r].lp = page[r].lp /\ page'[r].lp = LP_REDIRECT => page'[r] = page[r]
                      /\ StartOf(page', r) = StartOf(page, r)
    OBVIOUS
  <2>1. CASE r # c
    BY <2>1 DEF IsRoot, StartOf
  <2>2. CASE r = c
    BY <1>1, <2>2 DEF IsRoot, StartOf, LP_REDIRECT, LP_NORMAL
  <2> QED
    BY <2>1, <2>2
<1>14. \A d, e \in Tuples(page) : d # c => (Linked(d, e)' <=> Linked(d, e))
  BY <1>4, <1>5, <1>6 DEF Linked
<1>15. ASSUME NEW e \in Tuples(page), Linked(c, e)' PROVE Linked(c, e)
  BY <1>4, <1>5, <1>15 DEF Linked
<1>16. FitsOn(page')
  <2>1. page \in Seq(ItemType)
    BY DEF Shaped
  <2>2. Size(page'[c]) = Size(page[c])
    BY DEF Size, TupleLen, HOff
  <2>3. \A k \in DOMAIN page : Size(page[k]) \in Nat
    BY <2>1, SizeIs
  <2>4. \A k \in 1..Len(page) : Size(page'[k]) <= Size(page[k])
    BY <2>1, <2>2, <2>3
  <2> QED
    BY <2>1, <2>4, FitsStill
<1>20. Stamped'
  <2>1. \A d \in Tuples(page) : d # c =>
          /\ page'[d].tup.multi => page'[d].tup.xmax \in DOMAIN offsets'
          /\ ~page'[d].tup.multi => page'[d].tup.xmax \in Xids \cup {INVALID_XID}
          /\ page'[d].tup.lockOnly => UpdaterOf(d)' = {}
          /\ \A y, z \in UpdaterOf(d)' : y = z
    <3> HIDE DEF Restamps, Unlinks, KeepsLink
    <3>1. DOMAIN offsets \subseteq DOMAIN offsets'
      BY DEF Restamps, Kept
    <3> QED
      BY <1>5, <1>6, <3>1 DEF Stamped
  <2> QED
    BY <1>4, <2>1 DEF Stamped
<1>21. Versions'
  <2>1. \A d \in Tuples(page) : d # c =>
          /\ VerAt(d)' \in DOMAIN vers' /\ By(VerAt(d))' = page'[d].tup.xmin
          /\ UpdaterOf(d)' \subseteq Ends(VerAt(d))'
          /\ \A y \in Ends(VerAt(d))' : y \in UpdaterOf(d)' \/ Doomed(y)'
    BY <1>2, <1>5, <1>6, <1>8, <1>10, <1>11 DEF Versions
  <2>2. /\ VerAt(c)' \in DOMAIN vers' /\ By(VerAt(c))' = page'[c].tup.xmin
        /\ UpdaterOf(c)' \subseteq Ends(VerAt(c))'
        /\ \A y \in Ends(VerAt(c))' : y \in UpdaterOf(c)' \/ Doomed(y)'
    BY <1>2, <1>5, <1>8, <1>10, <1>12 DEF Versions
  <2>3. \A d, e \in Tuples(page) : VerAt(d)' = VerAt(e)' => d = e
    BY <1>5 DEF Versions
  <2> QED
    BY <1>4, <2>1, <2>2, <2>3 DEF Versions
<1>22. SeenFirst'
  <2>1. \A w \in DOMAIN vers : \A y \in Ends(w)' :
          TrulyCommitted(By(w)) \/ Doomed(y) \/ y = By(w) \/ By(w) = SubOf[y]
    BY <1>7, SMTT(30) DEF SeenFirst
  <2> QED
    BY <1>2, <1>7, <1>8, <2>1 DEF SeenFirst
<1>23. Ordered'
  <2> SUFFICES ASSUME NEW w \in DOMAIN vers, NEW u \in DOMAIN vers, w < u, Root(w)' = Root(u)'
               PROVE  \/ Doomed(By(w))' \/ Doomed(By(u))'
                      \/ \E y \in Ends(w)' : TrulyCommitted(y)' \/ y = By(u)' \/ y = Top(By(u))'
    BY <1>2 DEF Ordered
  <2> QED
    BY <1>7, <1>8 DEF Ordered, Top
<1>24. Present'
  BY <1>2, <1>4, <1>5, <1>9 DEF Present
<1>25. Rooted'
  <2>1. \A d \in Tuples(page) : /\ ~page'[d].tup.heapOnly => Root(VerAt(d))' = d
                                /\ Root(VerAt(d))' \in DOMAIN page' /\ IsRoot(page', Root(VerAt(d))')
    BY <1>2, <1>5, <1>11, <1>13, SMTT(30) DEF Rooted
  <2>2. \A r \in DOMAIN page' : page'[r].lp = LP_REDIRECT =>
          \E e \in Tuples(page) : e = page'[r].to /\ page'[e].tup.heapOnly /\ Root(VerAt(e))' = r
    <3> SUFFICES ASSUME NEW r \in DOMAIN page, page'[r].lp = LP_REDIRECT
                 PROVE  \E e \in Tuples(page) : e = page'[r].to /\ page'[e].tup.heapOnly /\ Root(VerAt(e))' = r
      BY <1>2
    <3>1. page[r].lp = LP_REDIRECT /\ page'[r] = page[r]
      BY <1>13
    <3>2. PICK e \in Tuples(page) : e = page[r].to /\ page[e].tup.heapOnly /\ Root(VerAt(e)) = r
      BY <3>1 DEF Rooted
    <3> QED
      BY <1>5, <1>11, <3>1, <3>2
  <2> QED
    BY <1>4, <2>1, <2>2 DEF Rooted
<1>26. Starts'
  <2>1. ASSUME NEW w \in DOMAIN vers, ~DeadVer(w)
        PROVE  \E s : s = StartOf(page', Root(w)) /\ s \in Tuples(page)
                      /\ VerAt(s) <= w /\ ~Doomed(By(VerAt(s)))
    BY <2>1, <1>13, LiveRoot, StartTuple DEF Starts
  <2>2. ASSUME NEW w \in DOMAIN vers', ~DeadVer(w)'
        PROVE  \E s : s = StartOf(page', Root(w)') /\ VerAt(s)' <= w /\ ~Doomed(By(VerAt(s)))'
    BY <1>2, <1>5, <1>7, <1>8, <1>9, <1>11, <2>1, <2>2
  <2> QED
    BY <2>2 DEF Starts
<1>27. Links'
  <2>1. ASSUME NEW d \in Tuples(page), page'[d].tup.hotUpdated
        PROVE  /\ page'[d].tup.ctid \in DOMAIN page'
               /\ \A u \in UpdaterOf(d)' : ~Doomed(u)' =>
                     /\ page'[page'[d].tup.ctid].lp = LP_NORMAL
                     /\ page'[page'[d].tup.ctid].tup.xmin = u
    <3>1. /\ page[d].tup.hotUpdated /\ page'[d].tup.ctid = page[d].tup.ctid
          /\ \A u \in UpdaterOf(d)' : u \in UpdaterOf(d)
      BY <1>5, <1>6, <2>1
    <3>2. PICK e : e = page[d].tup.ctid
      OBVIOUS
    <3>3. e \in DOMAIN page
      BY <3>1, <3>2 DEF Links
    <3>4. ASSUME NEW u \in UpdaterOf(d), ~Doomed(u)
          PROVE  page'[e].lp = LP_NORMAL /\ page'[e].tup.xmin = u
      <4>1. page[e].lp = LP_NORMAL /\ page[e].tup.xmin = u
        BY <3>1, <3>2, <3>4 DEF Links
      <4>2. e \in Tuples(page)
        BY <3>3, <4>1 DEF Tuples
      <4> QED
        BY <1>5, <4>1, <4>2
    <3> QED
      BY <1>2, <1>8, <3>1, <3>2, <3>3, <3>4
  <2>2. ASSUME NEW d \in Tuples(page), NEW e \in Tuples(page), Linked(d, e)'
        PROVE  page'[e].tup.heapOnly /\ Root(VerAt(e))' = Root(VerAt(d))' /\ VerAt(d)' < VerAt(e)'
    <3>1. Linked(d, e)
      BY <1>14, <1>15, <2>2
    <3>2. page[e].tup.heapOnly /\ Root(VerAt(e)) = Root(VerAt(d)) /\ VerAt(d) < VerAt(e)
      BY <3>1 DEF Links
    <3>3. page'[e].tup.heapOnly = page[e].tup.heapOnly /\ VerAt(d)' = VerAt(d) /\ VerAt(e)' = VerAt(e)
      BY <1>5
    <3> QED
      BY <1>11, <3>2, <3>3
  <2> QED
    BY <1>4, <2>1, <2>2 DEF Links
<1>28. Nexts'
  <2> SUFFICES ASSUME NEW d \in Tuples(page), NEW w \in DOMAIN vers,
                      ~Doomed(By(VerAt(d)))', ~DeadVer(w)', Root(w)' = Root(VerAt(d))', VerAt(d)' < w
               PROVE  \E e \in Tuples(page) :
                         Linked(d, e)' /\ VerAt(e)' <= w /\ ~Doomed(By(VerAt(e)))'
    BY <1>2, <1>4 DEF Nexts
  <2>1. /\ ~Doomed(By(VerAt(d))) /\ ~DeadVer(w) /\ Root(w) = Root(VerAt(d)) /\ VerAt(d) < w
    BY <1>5, <1>7, <1>8, <1>9, <1>11
  <2>2. PICK e \in Tuples(page) : Linked(d, e) /\ VerAt(e) <= w /\ ~Doomed(By(VerAt(e)))
    BY <2>1 DEF Nexts
  <2>3. VerAt(e)' <= w /\ ~Doomed(By(VerAt(e)))'
    BY <1>5, <1>8, <1>11, <2>2
  <2>4. CASE d # c
    BY <1>14, <2>2, <2>3, <2>4
  <2>5. CASE d = c
    <3>1. ~Doomed(By(w))
      BY <2>1, DeadIsHolds DEF DeadIs
    <3>2. ~(~t.hotUpdated /\ \A u \in DOMAIN vers : p < u /\ Root(u) = Root(p) => Doomed(By(u)))
      BY <2>1, <2>5, <3>1
    <3>3. /\ t.hotUpdated = page[c].tup.hotUpdated /\ t.ctid = page[c].tup.ctid
          /\ U \subseteq UpdaterOf(c) /\ \A u \in UpdaterOf(c) : u \in U \/ Doomed(u)
      BY <3>2
    <3>4. page[e].tup.xmin \in U
      <4>1. page[e].tup.xmin \in UpdaterOf(c) /\ page[e].tup.xmin = By(VerAt(e))
        BY <2>2, <2>5 DEF Linked, Versions
      <4> QED
        BY <2>2, <3>3, <4>1
    <3>5. Linked(c, e)'
      BY <1>4, <1>5, <2>2, <2>5, <3>3, <3>4 DEF Linked
    <3> QED
      BY <2>3, <2>5, <3>5
  <2> QED
    BY <2>4, <2>5
<1> QED
  BY <1>3, <1>16, <1>20, <1>21, <1>22, <1>23, <1>24, <1>25, <1>26, <1>27, <1>28


\* A page with another tuple at c.
LEMMA SetTupleIs ==
    ASSUME NEW pg \in Seq(ItemType), NEW c \in DOMAIN pg, NEW t \in TupleType,
           NEW w, w = [pg EXCEPT ![c].tup = t]
    PROVE  /\ w \in Seq(ItemType) /\ Len(w) = Len(pg) /\ DOMAIN w = DOMAIN pg
           /\ \A q \in DOMAIN pg : q # c => w[q] = pg[q]
           /\ w[c].lp = pg[c].lp /\ w[c].tup = t
<1>1. PICK i : i = [pg[c] EXCEPT !.tup = t]
  OBVIOUS
<1>2. pg[c] \in ItemType
  OBVIOUS
<1>3. i \in ItemType /\ i.lp = pg[c].lp /\ i.tup = t
  BY <1>1, <1>2 DEF ItemType
<1>4. w = [pg EXCEPT ![c] = i]
  BY <1>1
<1>5. w \in [1..Len(pg) -> ItemType] /\ w[c] = i /\ \A q \in DOMAIN pg : q # c => w[q] = pg[q]
  BY <1>3, <1>4
<1>6. w \in Seq(ItemType) /\ Len(w) = Len(pg) /\ DOMAIN w = DOMAIN pg
  BY <1>5
<1> QED
  BY <1>3, <1>5, <1>6

\* A version ended by one more transaction.
LEMMA EndedIs ==
    ASSUME Shaped, NEW p \in DOMAIN vers, NEW x \in Xids, NEW w, w = Ended(p, x)
    PROVE  /\ w \in Seq(VerType) /\ Len(w) = Len(vers) /\ DOMAIN w = DOMAIN vers
           /\ \A q \in DOMAIN vers : q # p => w[q] = vers[q]
           /\ w[p].by = By(p) /\ w[p].root = Root(p) /\ w[p].ends = Ends(p) \cup {x}
<1>1. PICK i : i = [vers[p] EXCEPT !.ends = vers[p].ends \cup {x}]
  OBVIOUS
<1>2. vers \in Seq(VerType) /\ vers[p] \in VerType
  BY DEF Shaped
<1>3. i \in VerType /\ i.by = By(p) /\ i.root = Root(p) /\ i.ends = Ends(p) \cup {x}
  BY <1>1, <1>2 DEF VerType, By, Root, Ends
<1>4. w = [vers EXCEPT ![p] = i]
  BY <1>1 DEF Ended
<1>5. w \in [1..Len(vers) -> VerType] /\ w[p] = i /\ \A q \in DOMAIN vers : q # p => w[q] = vers[q]
  BY <1>2, <1>3, <1>4
<1>6. w \in Seq(VerType) /\ Len(w) = Len(vers) /\ DOMAIN w = DOMAIN vers
  BY <1>2, <1>5
<1> QED
  BY <1>3, <1>5, <1>6

\* The updaters among locks and one more member.
LEMMA OneUpdater ==
    ASSUME NEW S, \A m \in S : ~IsUpdater(m), NEW x, NEW st \in {NoKeyUpdate, Update}
    PROVE  UpdatersIn(S \cup {[xid |-> x, status |-> st]}) = {x}
<1>1. PICK me : me = [xid |-> x, status |-> st]
  OBVIOUS
<1>2. me.xid = x /\ me.status = st
  BY <1>1
<1>3. IsUpdater(me)
  BY <1>2 DEF IsUpdater, NoKeyUpdate, Update, STATUS_FOR_UPDATE
<1>4. {n \in S \cup {me} : IsUpdater(n)} = {me}
  BY <1>3
<1> QED
  BY <1>1, <1>2, <1>4 DEF UpdatersIn

\* A delete.
LEMMA DeletePage ==
    ASSUME Shaped, Logged, PageInv, FitsOn(page), NEW x \in Xids, NEW c \in Tuples(page), DeleteRow(x, c)
    PROVE  Shaped' /\ PageInv' /\ FitsOn(page)'
<1>1. PICK s : s = page[c].tup
  OBVIOUS
<1>2. PICK p : p = VerAt(c)
  OBVIOUS
<1>3. PICK others : others = OthersAlive(c, x)
  OBVIOUS
<1>4. PICK me : me = [xid |-> x, status |-> Update]
  OBVIOUS
<1>5. PICK a : a = IF others = {} THEN x ELSE Len(offsets) + 1
  OBVIOUS
<1>6. PICK l \in BOOLEAN : l = \A m \in others \cup {me} : ~IsUpdater(m)
  OBVIOUS
<1>7. PICK k \in BOOLEAN : k = (others # {})
  OBVIOUS
<1>8. PICK t : t = [[s EXCEPT !.xmax = a, !.multi = k, !.lockOnly = l] EXCEPT !.ctid = c, !.hotUpdated = FALSE]
  OBVIOUS
<1>9. me.xid = x
  BY <1>4
<1>10. /\ CanWrite(x) /\ Writable(c, x) /\ Record(others, me)
       /\ page' = [page EXCEPT ![c].tup = t] /\ vers' = Ended(p, x) /\ clog' = clog
  BY <1>1, <1>2, <1>3, <1>4, <1>5, <1>6, <1>7, <1>8, <1>9 DEF DeleteRow, Stamp, VerAt
<1>11. s \in TupleType /\ c \in DOMAIN page /\ c \in 0..NSlots /\ s.ver = p /\ page \in Seq(ItemType)
  BY <1>1, <1>2, TupleIs, Assumed DEF Shaped, VerAt
<1>12. others \subseteq XmaxMembers(c)
  BY <1>3 DEF OthersAlive
<1>13. me \in Member /\ Update \in {ForKeyShare, NoKeyUpdate, Update}
  BY <1>4 DEF Member, Update
<1>14. Stamped /\ Multis
  BY DEF PageInv
<1>15. a \in Nat
  BY <1>5, Assumed DEF Shaped
<1>16. /\ t \in TupleType /\ t.xmax = a /\ t.multi = k /\ t.lockOnly = l /\ t.ctid = c /\ ~t.hotUpdated
       /\ t.xmin = s.xmin /\ t.heapOnly = s.heapOnly /\ t.ver = s.ver
       /\ t.bitmap = s.bitmap /\ t.attrs = s.attrs
  BY <1>8, <1>11, <1>15 DEF TupleType
<1>17. /\ page' \in Seq(ItemType) /\ Len(page') = Len(page)
       /\ \A q \in DOMAIN page : q # c => page'[q] = page[q]
       /\ page'[c].lp = page[c].lp /\ page'[c].tup = t
  BY <1>10, <1>11, <1>16, SetTupleIs
<1>18. /\ offsets' \in Seq(Nat \ {0}) /\ members' \in Seq(Member) /\ Multis'
       /\ DOMAIN offsets \subseteq DOMAIN offsets'
       /\ \A m \in DOMAIN offsets : MembersOf(m)' = MembersOf(m)
  BY <1>10, <1>12, <1>13, <1>14, RecordIs
<1>19. Kept(c)
  BY <1>17, <1>18 DEF Kept, Tuples
<1>20. /\ UpdaterOf(c)' = UpdatersIn(others \cup {me})
       /\ t.multi => t.xmax \in DOMAIN offsets'
       /\ ~t.multi => t.xmax \in Xids
       /\ t.lockOnly => UpdatersIn(others \cup {me}) = {}
  <2>1. Stamping(c, others, x, Update, me, t)
    BY <1>4, <1>5, <1>6, <1>7, <1>10, <1>12, <1>13, <1>16, <1>17 DEF Stamping
  <2> QED
    BY <1>14, <2>1, StampIs
<1>21. /\ p \in DOMAIN vers /\ Alive(x) /\ ~Doomed(x) /\ ~TrulyCommitted(x)
       /\ TrulyCommitted(By(p)) \/ By(p) = x \/ By(p) = SubOf[x]
       /\ \A y \in Ends(p) : Doomed(y)
       /\ \A m \in others : ~IsUpdater(m)
       /\ \A w \in DOMAIN vers : p < w /\ Root(w) = Root(p) => Doomed(By(w))
  BY <1>2, <1>3, <1>10, WriterSees
<1>22. UpdatersIn(others \cup {me}) = {x}
  BY <1>4, <1>21, OneUpdater
<1>23. /\ vers' \in Seq(VerType) /\ Len(vers') = Len(vers)
       /\ \A w \in DOMAIN vers : w # p => vers'[w] = vers[w]
       /\ By(p)' = By(p) /\ Root(p)' = Root(p) /\ Ends(p)' = Ends(p) \cup {x}
  BY <1>10, <1>21, EndedIs DEF By, Root, Ends
<1>24. PICK E : E = Ends(p) \cup {x}
  OBVIOUS
<1>25. PICK U : U = {x}
  OBVIOUS
<1>26. /\ Ends(p)' = E /\ UpdaterOf(c)' = U /\ (t.lockOnly => U = {})
       /\ Ends(p) \subseteq E /\ U \subseteq E
       /\ \A y, z \in U : y = z
       /\ \A y \in E : y \in U \/ Doomed(y)
       /\ \A y \in E : TrulyCommitted(y) => y \in Ends(p)
       /\ \A y \in E : TrulyCommitted(By(p)) \/ Doomed(y) \/ y = By(p) \/ By(p) = SubOf[y]
  BY <1>20, <1>21, <1>22, <1>23, <1>24, <1>25
<1>27. Restamps(c, p, t, E, U)
  BY <1>1, <1>2, <1>10, <1>11, <1>16, <1>17, <1>18, <1>19, <1>20, <1>23, <1>26 DEF Restamps
<1>28. Unlinks(p, t)
  BY <1>16, <1>21 DEF Unlinks
<1> QED
  BY <1>27, <1>28, Restamp


\* A row lock.
LEMMA LockPage ==
    ASSUME Shaped, Logged, PageInv, FitsOn(page), NEW x \in Xids, NEW c \in Tuples(page), LockRow(x, c)
    PROVE  Shaped' /\ PageInv' /\ FitsOn(page)'
<1>1. PICK s : s = page[c].tup
  OBVIOUS
<1>2. PICK p : p = VerAt(c)
  OBVIOUS
<1>3. PICK others : others = OthersAlive(c, x)
  OBVIOUS
<1>4. PICK me : me = [xid |-> x, status |-> ForKeyShare]
  OBVIOUS
<1>5. PICK a : a = IF others = {} THEN x ELSE Len(offsets) + 1
  OBVIOUS
<1>6. PICK l \in BOOLEAN : l = \A m \in others \cup {me} : ~IsUpdater(m)
  OBVIOUS
<1>7. PICK k \in BOOLEAN : k = (others # {})
  OBVIOUS
<1>8. PICK b : b = [s EXCEPT !.xmax = a, !.multi = k, !.lockOnly = l]
  OBVIOUS
<1>9. me.xid = x /\ me.status = ForKeyShare
  BY <1>4
<1>10. PICK t : t = IF b.lockOnly THEN [b EXCEPT !.ctid = c, !.hotUpdated = FALSE] ELSE b
  OBVIOUS
<1>11. b = Stamp(s, others, me)
  BY <1>5, <1>6, <1>7, <1>8, <1>9 DEF Stamp
<1>12. /\ TrulyCommitted(s.xmin) /\ Record(others, me)
       /\ \A m \in Standing(c) : m.status = NoKeyUpdate /\ Alive(m.xid)
       /\ \A m \in XmaxMembers(c) : m.xid # x
       /\ page' = [page EXCEPT ![c].tup = t] /\ vers' = vers /\ clog' = clog
  BY <1>1, <1>3, <1>4, <1>10, <1>11 DEF LockRow
<1>13. s \in TupleType /\ c \in DOMAIN page /\ c \in 0..NSlots /\ s.ver = p /\ page \in Seq(ItemType)
  BY <1>1, <1>2, TupleIs, Assumed DEF Shaped, VerAt
<1>14. a \in Nat
  BY <1>5, Assumed DEF Shaped
<1>15. /\ b \in TupleType /\ b.xmax = a /\ b.multi = k /\ b.lockOnly = l
       /\ b.ctid = s.ctid /\ b.hotUpdated = s.hotUpdated
       /\ b.xmin = s.xmin /\ b.heapOnly = s.heapOnly /\ b.ver = s.ver
       /\ b.bitmap = s.bitmap /\ b.attrs = s.attrs
  BY <1>8, <1>13, <1>14 DEF TupleType
<1>16. /\ t \in TupleType /\ t.xmax = a /\ t.multi = k /\ t.lockOnly = l
       /\ t.xmin = s.xmin /\ t.heapOnly = s.heapOnly /\ t.ver = s.ver
       /\ t.bitmap = s.bitmap /\ t.attrs = s.attrs
       /\ l => ~t.hotUpdated
       /\ ~l => t.ctid = s.ctid /\ t.hotUpdated = s.hotUpdated
  <2>1. CASE l
    <3>1. t = [b EXCEPT !.ctid = c, !.hotUpdated = FALSE]
      BY <1>10, <1>15, <2>1
    <3> QED
      BY <1>13, <1>15, <2>1, <3>1 DEF TupleType
  <2>2. CASE ~l
    BY <1>10, <1>15, <2>2
  <2> QED
    BY <2>1, <2>2
<1>17. /\ page' \in Seq(ItemType) /\ Len(page') = Len(page)
       /\ \A q \in DOMAIN page : q # c => page'[q] = page[q]
       /\ page'[c].lp = page[c].lp /\ page'[c].tup = t
  BY <1>12, <1>13, <1>16, SetTupleIs
<1>18. Stamped /\ Multis /\ others \subseteq XmaxMembers(c) /\ me \in Member
       /\ ForKeyShare \in {ForKeyShare, NoKeyUpdate, Update}
  BY <1>3, <1>4 DEF PageInv, OthersAlive, Member, ForKeyShare
<1>19. /\ offsets' \in Seq(Nat \ {0}) /\ members' \in Seq(Member) /\ Multis'
       /\ DOMAIN offsets \subseteq DOMAIN offsets'
       /\ \A m \in DOMAIN offsets : MembersOf(m)' = MembersOf(m)
  BY <1>12, <1>18, RecordIs
<1>20. Kept(c)
  BY <1>17, <1>19 DEF Kept, Tuples
<1>21. PICK U : U = UpdatersIn(others \cup {me})
  OBVIOUS
<1>22. /\ UpdaterOf(c)' = U
       /\ t.multi => t.xmax \in DOMAIN offsets'
       /\ ~t.multi => t.xmax \in Xids
       /\ t.lockOnly => U = {}
  <2>1. Stamping(c, others, x, ForKeyShare, me, t)
    BY <1>4, <1>5, <1>6, <1>7, <1>12, <1>16, <1>17, <1>18 DEF Stamping
  <2> QED
    BY <1>18, <1>21, <2>1, StampIs
<1>23. /\ p \in DOMAIN vers /\ By(p) = s.xmin /\ Ends(p) \subseteq Xids
       /\ UpdaterOf(c) \subseteq Ends(p) /\ \A y \in Ends(p) : y \in UpdaterOf(c) \/ Doomed(y)
  BY <1>1, <1>2, VerIs DEF PageInv, Versions
<1>24. U \subseteq UpdaterOf(c)
  BY <1>9, <1>18, <1>21 DEF UpdatersIn, UpdaterOf, IsUpdater, ForKeyShare, STATUS_FOR_UPDATE
<1>25. ASSUME NEW u \in UpdaterOf(c) PROVE u \in U \/ Doomed(u)
  <2>1. PICK m \in XmaxMembers(c) : IsUpdater(m) /\ m.xid = u
    BY DEF UpdaterOf
  <2>2. u \in Xids
    BY <1>23
  <2>3. CASE Alive(u)
    BY <1>3, <1>12, <1>21, <2>1, <2>3 DEF OthersAlive, UpdatersIn
  <2>4. CASE TrulyCommitted(u)
    <3>1. m \in Standing(c)
      BY <2>1, <2>4 DEF Standing
    <3> QED
      BY <1>12, <2>1, <2>2, <2>4, <3>1, Fates
  <2> QED
    BY <2>2, <2>3, <2>4, Fates
<1>26. PICK E : E = Ends(p)
  OBVIOUS
<1>27. /\ Ends(p)' = E /\ By(p)' = By(p) /\ Root(p)' = Root(p)
       /\ Ends(p) \subseteq E /\ U \subseteq E
       /\ \A y \in E : y \in U \/ Doomed(y)
       /\ \A y \in E : TrulyCommitted(y) => y \in Ends(p)
  BY <1>12, <1>23, <1>24, <1>25, <1>26 DEF Ends, By, Root
<1>28. \A y \in E : TrulyCommitted(By(p)) \/ Doomed(y) \/ y = By(p) \/ By(p) = SubOf[y]
  BY <1>23, <1>26 DEF PageInv, SeenFirst
<1>29. \A y, z \in U : y = z
  BY <1>24 DEF PageInv, Stamped
<1>30. vers' \in Seq(VerType) /\ Len(vers') = Len(vers) /\ \A w \in DOMAIN vers : w # p => vers'[w] = vers[w]
  BY <1>12 DEF Shaped
<1>31. Restamps(c, p, t, E, U)
  BY <1>1, <1>2, <1>12, <1>13, <1>16, <1>17, <1>19, <1>20, <1>22, <1>27, <1>28, <1>29, <1>30 DEF Restamps
<1>32. ~Doomed(By(p))
  BY <1>12, <1>23, VerIs, Fates
<1>33. CASE l
  <2>1. \A y \in Ends(p) : Doomed(y)
    BY <1>16, <1>22, <1>26, <1>27, <1>33
  <2>2. Unlinks(p, t)
    BY <1>16, <1>23, <1>32, <1>33, <2>1, Superseded DEF Unlinks, PageInv
  <2> QED
    BY <1>31, <2>2, Restamp
<1>34. CASE ~l
  <2>1. KeepsLink(c, t, U)
    BY <1>1, <1>16, <1>24, <1>25, <1>34 DEF KeepsLink
  <2> QED
    BY <1>31, <2>1, Restamp
<1> QED
  BY <1>33, <1>34

\* A multixact of some other page.
LEMMA OtherMultiPage ==
    ASSUME Shaped, Logged, PageInv, FitsOn(page), OtherMulti
    PROVE  Shaped' /\ PageInv' /\ FitsOn(page)'
<1> USE DEF PageInv
<1>1. PICK m : m = [xid |-> Min(Xids), status |-> ForKeyShare]
  OBVIOUS
<1>2. /\ offsets' = Append(offsets, Len(members) + 1) /\ members' = Append(members, m)
      /\ UNCHANGED <<page, clog, vers>>
  BY <1>1 DEF OtherMulti
<1>3. m \in Member
  BY <1>1, Least, Assumed DEF Member, ForKeyShare
<1>4. PICK q : q = <<m>>
  OBVIOUS
<1>5. q \in Seq(Member) /\ q # <<>>
  BY <1>3, <1>4
<1>6. members' = members \o q
  BY <1>2, <1>3, <1>4 DEF Shaped
<1>7. /\ offsets' \in Seq(Nat \ {0}) /\ members' \in Seq(Member) /\ Multis'
      /\ DOMAIN offsets \subseteq DOMAIN offsets'
      /\ \A k \in DOMAIN offsets : MembersOf(k)' = MembersOf(k)
  <2>1. /\ offsets' \in Seq(Nat \ {0}) /\ members' \in Seq(Member) /\ Multis'
        /\ DOMAIN offsets' = DOMAIN offsets \cup {Len(offsets) + 1}
        /\ \A k \in DOMAIN offsets : MembersOf(k)' = MembersOf(k)
    BY <1>2, <1>5, <1>6, NewMulti
  <2> QED
    BY <2>1
<1>8. Shaped'
  BY <1>2, <1>7 DEF Shaped
<1>9. \A c \in Tuples(page) : UpdaterOf(c)' = UpdaterOf(c)
  BY <1>2, <1>7, SameUpdaters
<1>10. /\ Tuples(page)' = Tuples(page) /\ Tuples(page') = Tuples(page)
       /\ \A c : VerAt(c)' = VerAt(c)
       /\ \A v : By(v)' = By(v) /\ Ends(v)' = Ends(v) /\ Root(v)' = Root(v)
  BY <1>2 DEF Tuples, VerAt, By, Ends, Root
<1>11. /\ \A x : TrulyCommitted(x)' <=> TrulyCommitted(x)
       /\ \A x : Doomed(x)' <=> Doomed(x)
       /\ \A x : Alive(x)' <=> Alive(x)
  BY <1>2, SameFates
<1>12. \A v : DeadVer(v)' <=> DeadVer(v)
  BY <1>2, <1>11 DEF DeadVer
<1>13. \A c, d \in Tuples(page) : Linked(c, d)' <=> Linked(c, d)
  BY <1>2, <1>9, <1>10 DEF Linked
<1>14. Stamped'
  BY <1>2, <1>7, <1>9, <1>10 DEF Stamped
<1>15. Versions'
  BY <1>2, <1>9, <1>10, <1>11 DEF Versions
<1>16. SeenFirst'
  BY <1>2, <1>10, <1>11 DEF SeenFirst
<1>17. Ordered'
  BY <1>2, <1>10, <1>11 DEF Ordered
<1>18. Present'
  BY <1>2, <1>10, <1>12 DEF Present
<1>19. Rooted'
  BY <1>2, <1>10 DEF Rooted
<1>20. Starts'
  BY <1>2, <1>10, <1>11, <1>12 DEF Starts
<1>21. Links'
  BY <1>2, <1>9, <1>10, <1>11, <1>13 DEF Links
<1>22. Nexts'
  BY <1>2, <1>10, <1>11, <1>12, <1>13 DEF Nexts
<1>23. FitsOn(page)'
  BY <1>2
<1> QED
  BY <1>7, <1>8, <1>14, <1>15, <1>16, <1>17, <1>18, <1>19, <1>20, <1>21, <1>22, <1>23


\* What an update does to the page: the tuple t stamped at c, version p ended
\* by x, and version v of root r at the free slot o, linked from c if hot.
Updates(x, c, hot, p, v, o, r, t, i) ==
    /\ p = VerAt(c) /\ v = Len(vers) + 1 /\ clog' = clog
    /\ o \in Offnums /\ o \notin Tuples(page) /\ (o \in DOMAIN page => ~IsRoot(page, o) /\ page[o].lp # LP_NORMAL)
    /\ t \in TupleType /\ t.xmin = page[c].tup.xmin /\ t.heapOnly = page[c].tup.heapOnly /\ t.ver = p
    /\ t.ctid = o /\ t.hotUpdated = hot /\ ~t.lockOnly
    /\ t.multi => t.xmax \in DOMAIN offsets'
    /\ ~t.multi => t.xmax \in Xids
    /\ i.lp = LP_NORMAL /\ i.tup.ver = v /\ i.tup.xmin = x /\ i.tup.xmax = 0 /\ ~i.tup.multi /\ ~i.tup.lockOnly
    /\ i.tup.heapOnly = hot /\ ~i.tup.hotUpdated
    /\ page' \in Seq(ItemType) /\ Len(page') <= NSlots /\ DOMAIN page' = DOMAIN page \cup {o}
    /\ \A q \in DOMAIN page : q # c /\ q # o => page'[q] = page[q]
    /\ page'[c].lp = page[c].lp /\ page'[c].tup = t /\ page'[o] = i
    /\ offsets' \in Seq(Nat \ {0}) /\ members' \in Seq(Member) /\ Multis' /\ Kept(c)
    /\ UpdaterOf(c)' = {x}
    /\ vers' \in Seq(VerType) /\ Len(vers') <= MaxVers /\ DOMAIN vers' = DOMAIN vers \cup {v}
    /\ \A w \in DOMAIN vers : w # p => vers'[w] = vers[w]
    /\ By(p)' = By(p) /\ Root(p)' = Root(p) /\ Ends(p)' = Ends(p) \cup {x}
    /\ vers'[v] = [root |-> r, by |-> x, ends |-> {}]
    /\ r = IF hot THEN Root(p) ELSE o

\* An update does so.
LEMMA UpdateIs ==
    ASSUME Shaped, Logged, PageInv, NEW x \in Xids, NEW c \in Tuples(page), NEW hot \in BOOLEAN,
           UpdateRow(x, c, hot)
    PROVE  /\ CanWrite(x) /\ Writable(c, x) /\ FitsOn(page')
           /\ \E p, v, o, r, t, i : Updates(x, c, hot, p, v, o, r, t, i)
<1>1. PICK s : s = page[c].tup
  OBVIOUS
<1>2. PICK p : p = VerAt(c)
  OBVIOUS
<1>3. PICK others : others = OthersAlive(c, x)
  OBVIOUS
<1>4. PICK me : me = [xid |-> x, status |-> NoKeyUpdate]
  OBVIOUS
<1>5. PICK a : a = IF others = {} THEN x ELSE Len(offsets) + 1
  OBVIOUS
<1>6. PICK l \in BOOLEAN : l = \A m \in others \cup {me} : ~IsUpdater(m)
  OBVIOUS
<1>7. PICK k \in BOOLEAN : k = (others # {})
  OBVIOUS
<1>8. PICK o : o = FreeSlot
  OBVIOUS
<1>9. PICK b : b = [s EXCEPT !.xmax = a, !.multi = k, !.lockOnly = l]
  OBVIOUS
<1>10. PICK t : t = [b EXCEPT !.ctid = o, !.hotUpdated = hot]
  OBVIOUS
<1>11. PICK i : i = NewItem(x, o, hot)
  OBVIOUS
<1>12. PICK pg : pg = [page EXCEPT ![c].tup = t]
  OBVIOUS
<1>13. PICK r : r = IF hot THEN vers[s.ver].root ELSE o
  OBVIOUS
<1>14. me.xid = x /\ me.status = NoKeyUpdate
  BY <1>4
<1>15. b = Stamp(s, others, me)
  BY <1>5, <1>6, <1>7, <1>9, <1>14 DEF Stamp
<1>16. /\ CanWrite(x) /\ Writable(c, x) /\ FreeSlots # {} /\ Len(vers) < MaxVers
       /\ Record(others, me) /\ page' = Put(pg, o, i) /\ FitsOn(page')
       /\ vers' = Append(Ended(s.ver, x), NewVer(x, r)) /\ clog' = clog
  BY <1>1, <1>3, <1>4, <1>8, <1>10, <1>11, <1>12, <1>13, <1>15 DEF UpdateRow
<1>17. s \in TupleType /\ c \in DOMAIN page /\ s.ver = p /\ page \in Seq(ItemType) /\ page[c].lp = LP_NORMAL
  BY <1>1, <1>2, TupleIs DEF Shaped, VerAt
<1>18. /\ o \in Offnums /\ o \in Nat /\ o \in 0..NSlots /\ o <= NSlots /\ (o \in DOMAIN page => page[o].lp = LP_UNUSED)
       /\ o \in DOMAIN page \/ o = Len(page) + 1
  BY <1>8, <1>16, FreeSlotIs, Assumed DEF Offnums
<1>19. a \in Nat
  BY <1>5, Assumed DEF Shaped
<1>20. /\ b \in TupleType /\ b.xmax = a /\ b.multi = k /\ b.lockOnly = l
       /\ b.xmin = s.xmin /\ b.heapOnly = s.heapOnly /\ b.ver = s.ver
  BY <1>9, <1>17, <1>19 DEF TupleType
<1>21. /\ t \in TupleType /\ t.xmax = a /\ t.multi = k /\ t.lockOnly = l /\ t.ctid = o /\ t.hotUpdated = hot
       /\ t.xmin = s.xmin /\ t.heapOnly = s.heapOnly /\ t.ver = s.ver
  BY <1>10, <1>18, <1>20 DEF TupleType
<1>22. /\ pg \in Seq(ItemType) /\ Len(pg) = Len(page) /\ DOMAIN pg = DOMAIN page
       /\ \A q \in DOMAIN page : q # c => pg[q] = page[q]
       /\ pg[c].lp = page[c].lp /\ pg[c].tup = t
  <2>1. page \in Seq(ItemType) /\ c \in DOMAIN page /\ t \in TupleType
    BY <1>17, <1>21
  <2> QED
    BY <1>12, <2>1, SetTupleIs
<1>23. /\ i \in ItemType /\ i.lp = LP_NORMAL /\ i.tup.ver = Len(vers) + 1
       /\ i.tup.xmin = x /\ i.tup.xmax = 0 /\ ~i.tup.multi /\ ~i.tup.lockOnly
       /\ i.tup.ctid = o /\ i.tup.heapOnly = hot /\ ~i.tup.hotUpdated
  BY <1>11, <1>16, <1>18, NewItemIs
<1>24. IsPut(page', pg, o, i)
  <2>1. o \in DOMAIN pg \/ o = Len(pg) + 1
    BY <1>18, <1>22
  <2> QED
    BY <1>16, <1>18, <1>22, <1>23, <2>1, PutIs
<1>25. c # o
  BY <1>17, <1>18 DEF LP_UNUSED, LP_NORMAL
<1>26. /\ page' \in Seq(ItemType) /\ Len(page') <= NSlots /\ DOMAIN page' = DOMAIN page \cup {o}
       /\ \A q \in DOMAIN page : q # c /\ q # o => page'[q] = page[q]
       /\ page'[c].lp = page[c].lp /\ page'[c].tup = t /\ page'[o] = i
  <2>1. page'[c] = pg[c]
    BY <1>17, <1>22, <1>24, <1>25 DEF IsPut
  <2>2. Len(page') <= NSlots
    BY <1>18, <1>22, <1>24 DEF IsPut, Shaped
  <2> QED
    BY <1>22, <1>24, <2>1, <2>2 DEF IsPut
<1>27. Stamped /\ Multis /\ others \subseteq XmaxMembers(c) /\ me \in Member
       /\ NoKeyUpdate \in {ForKeyShare, NoKeyUpdate, Update}
  BY <1>3, <1>4 DEF PageInv, OthersAlive, Member, NoKeyUpdate
<1>28. /\ offsets' \in Seq(Nat \ {0}) /\ members' \in Seq(Member) /\ Multis'
       /\ DOMAIN offsets \subseteq DOMAIN offsets'
       /\ \A m \in DOMAIN offsets : MembersOf(m)' = MembersOf(m)
  BY <1>16, <1>27, RecordIs
<1>29. o \notin Tuples(page) /\ (o \in DOMAIN page => ~IsRoot(page, o) /\ page[o].lp # LP_NORMAL)
  BY <1>18 DEF Tuples, IsRoot, LP_UNUSED, LP_NORMAL, LP_REDIRECT
<1>30. Kept(c)
  BY <1>26, <1>28, <1>29 DEF Kept, Tuples
<1>31. \A m \in others : ~IsUpdater(m)
  BY <1>2, <1>3, <1>16, WriterSees
<1>32. /\ UpdaterOf(c)' = {x}
       /\ t.multi => t.xmax \in DOMAIN offsets'
       /\ ~t.multi => t.xmax \in Xids
       /\ ~t.lockOnly
  <2>1. Stamping(c, others, x, NoKeyUpdate, me, t)
    BY <1>4, <1>5, <1>6, <1>7, <1>16, <1>21, <1>26, <1>27 DEF Stamping
  <2>2. UpdatersIn(others \cup {me}) = {x}
    BY <1>4, <1>31, OneUpdater
  <2> QED
    BY <1>27, <2>1, <2>2, StampIs
<1>33. p \in DOMAIN vers
  BY <1>2 DEF PageInv, Versions
<1>34. PICK e : e = Ended(p, x)
  OBVIOUS
<1>35. /\ e \in Seq(VerType) /\ Len(e) = Len(vers) /\ DOMAIN e = DOMAIN vers
       /\ \A q \in DOMAIN vers : q # p => e[q] = vers[q]
       /\ e[p].by = By(p) /\ e[p].root = Root(p) /\ e[p].ends = Ends(p) \cup {x}
  BY <1>33, <1>34, EndedIs
<1>36. r = (IF hot THEN Root(p) ELSE o) /\ r \in Offnums
  BY <1>13, <1>17, <1>18, <1>33, VerIs DEF Root
<1>37. PICK n : n = NewVer(x, r)
  OBVIOUS
<1>38. n \in VerType /\ n = [root |-> r, by |-> x, ends |-> {}]
  BY <1>36, <1>37 DEF NewVer, VerType
<1>39. PICK v : v = Len(vers) + 1
  OBVIOUS
<1>40. /\ vers' \in Seq(VerType) /\ Len(vers') <= MaxVers /\ DOMAIN vers' = DOMAIN vers \cup {v}
       /\ \A w \in DOMAIN vers : vers'[w] = e[w]
       /\ vers'[v] = n
  <2>1. vers' = Append(e, n) /\ Len(vers) < MaxVers /\ vers \in Seq(VerType)
    BY <1>16, <1>17, <1>34, <1>37 DEF Shaped
  <2>2. n \in VerType
    BY <1>38
  <2> QED
    BY <1>35, <1>39, <2>1, <2>2, Assumed
<1>41. /\ \A w \in DOMAIN vers : w # p => vers'[w] = vers[w]
       /\ By(p)' = By(p) /\ Root(p)' = Root(p) /\ Ends(p)' = Ends(p) \cup {x}
  BY <1>33, <1>35, <1>40 DEF By, Root, Ends
<1>42. Updates(x, c, hot, p, v, o, r, t, i)
  BY <1>1, <1>2, <1>16, <1>17, <1>18, <1>21, <1>23, <1>26, <1>28, <1>29, <1>30, <1>32, <1>36, <1>38,
     <1>39, <1>40, <1>41 DEF Updates
<1> QED
  BY <1>16, <1>42

\* An update, hot or not.
LEMMA UpdatePage ==
    ASSUME Shaped, Logged, PageInv, NEW x \in Xids, NEW c \in Tuples(page), NEW hot \in BOOLEAN,
           UpdateRow(x, c, hot)
    PROVE  Shaped' /\ PageInv' /\ FitsOn(page)'
<1> USE DEF PageInv
<1>1. CanWrite(x) /\ Writable(c, x) /\ FitsOn(page')
  BY UpdateIs
<1>2. PICK p, v, o, r, t, i : Updates(x, c, hot, p, v, o, r, t, i)
  BY UpdateIs
<1>3. /\ p \in DOMAIN vers /\ Alive(x) /\ ~Doomed(x) /\ ~TrulyCommitted(x) /\ ~Doomed(By(p))
      /\ TrulyCommitted(By(p)) \/ By(p) = x \/ By(p) = SubOf[x]
      /\ \A u \in UpdaterOf(c) : Doomed(u)
      /\ \A y \in Ends(p) : Doomed(y)
      /\ \A w \in DOMAIN vers : p < w /\ Root(w) = Root(p) => Doomed(By(w))
  <2>1. p = VerAt(c)
    BY <1>2 DEF Updates
  <2> QED
    BY <1>1, <2>1, WriterSees
<1>4. c \in DOMAIN page /\ page[c].lp = LP_NORMAL /\ Tuples(page) \subseteq DOMAIN page
  BY TupleIs DEF Tuples
<1>5. c # o /\ o \notin Tuples(page) /\ (o \in DOMAIN page => ~IsRoot(page, o) /\ page[o].lp # LP_NORMAL)
  BY <1>2 DEF Updates
<1>6. /\ v \in Nat /\ v \notin DOMAIN vers /\ DOMAIN vers' = DOMAIN vers \cup {v}
      /\ \A w \in DOMAIN vers : w \in Nat /\ w < v
  <2>1. v = Len(vers) + 1 /\ DOMAIN vers' = DOMAIN vers \cup {v}
    BY <1>2 DEF Updates
  <2>2. DOMAIN vers = 1..Len(vers) /\ Len(vers) \in Nat
    BY DEF Shaped
  <2> QED
    BY <2>1, <2>2
<1>7. Shaped'
  BY <1>2 DEF Updates, Shaped
<1>8. /\ page'[c].lp = LP_NORMAL /\ page'[c].tup = t /\ page'[o] = i /\ DOMAIN page' = DOMAIN page \cup {o}
      /\ \A q \in DOMAIN page : q # c /\ q # o => page'[q] = page[q]
      /\ t.xmin = page[c].tup.xmin /\ t.heapOnly = page[c].tup.heapOnly /\ t.ver = p /\ p = VerAt(c)
      /\ t.ctid = o /\ t.hotUpdated = hot /\ ~t.lockOnly
      /\ i.lp = LP_NORMAL /\ i.tup.ver = v /\ i.tup.xmin = x /\ i.tup.xmax = 0 /\ ~i.tup.multi
      /\ ~i.tup.lockOnly /\ i.tup.heapOnly = hot /\ ~i.tup.hotUpdated
  BY <1>2, <1>4 DEF Updates
<1>9. Tuples(page)' = Tuples(page) \cup {o} /\ Tuples(page') = Tuples(page) \cup {o}
  BY <1>4, <1>5, <1>8 DEF Tuples
<1>10. /\ \A d \in Tuples(page) : d # c => page'[d] = page[d]
       /\ \A d \in Tuples(page) : VerAt(d)' = VerAt(d) /\ page'[d].lp = LP_NORMAL /\ d # o
             /\ page'[d].tup.xmin = page[d].tup.xmin /\ page'[d].tup.heapOnly = page[d].tup.heapOnly
       /\ VerAt(o)' = v
  BY <1>4, <1>5, <1>8 DEF VerAt, Tuples
<1>11. /\ \A d \in Tuples(page) : d # c => UpdaterOf(d)' = UpdaterOf(d)
       /\ UpdaterOf(c)' = {x} /\ UpdaterOf(o)' = {}
  <2>1. UpdaterOf(c)' = {x} /\ Kept(c)
    BY <1>2 DEF Updates
  <2>2. XmaxMembers(o)' = {}
    BY <1>8 DEF XmaxMembers, INVALID_XID
  <2>3. UpdaterOf(o)' = {}
    BY <2>2 DEF UpdaterOf
  <2>4. \A d \in Tuples(page) : d # c => UpdaterOf(d)' = UpdaterOf(d)
    BY <2>1, SameUpdaters DEF Kept
  <2> QED
    BY <2>1, <2>3, <2>4
<1>12. /\ \A w \in DOMAIN vers : By(w)' = By(w) /\ Root(w)' = Root(w)
       /\ \A w \in DOMAIN vers : w # p => Ends(w)' = Ends(w)
       /\ Ends(p)' = Ends(p) \cup {x}
       /\ By(v)' = x /\ Root(v)' = r /\ Ends(v)' = {}
  <2>1. /\ \A w \in DOMAIN vers : w # p => vers'[w] = vers[w]
        /\ By(p)' = By(p) /\ Root(p)' = Root(p) /\ Ends(p)' = Ends(p) \cup {x}
        /\ vers'[v] = [root |-> r, by |-> x, ends |-> {}]
    BY <1>2 DEF Updates
  <2>2. \A w \in DOMAIN vers : w # p => By(w)' = By(w) /\ Root(w)' = Root(w) /\ Ends(w)' = Ends(w)
    BY <2>1 DEF By, Root, Ends
  <2>3. By(v)' = x /\ Root(v)' = r /\ Ends(v)' = {}
    BY <2>1 DEF By, Root, Ends
  <2> QED
    BY <2>1, <2>2, <2>3
<1>13. hot => r = Root(p)
  BY <1>2 DEF Updates
<1>14. ~hot => r = o
  BY <1>2 DEF Updates
<1>15. /\ \A y : TrulyCommitted(y)' <=> TrulyCommitted(y)
       /\ \A y : Doomed(y)' <=> Doomed(y)
       /\ \A y : Alive(y)' <=> Alive(y)
  BY <1>2, SameFates DEF Updates
<1>16. /\ \A w \in DOMAIN vers : DeadVer(w)' <=> DeadVer(w)
       /\ ~DeadVer(v)' /\ ~DeadVer(p)
  <2>1. \A w \in DOMAIN vers : (\E y \in Ends(w)' : TrulyCommitted(y)) <=> (\E y \in Ends(w) : TrulyCommitted(y))
    BY <1>3, <1>12
  <2>2. \A w \in DOMAIN vers : DeadVer(w)' <=> DeadVer(w)
    BY <1>12, <1>15, <2>1 DEF DeadVer, By, Ends
  <2>3. ~DeadVer(v)'
    BY <1>3, <1>12, <1>15 DEF DeadVer, By, Ends
  <2>4. ~DeadVer(p)
    <3>1. \A y \in Ends(p) : ~TrulyCommitted(y)
      BY <1>3, VerIs, Fates
    <3> QED
      BY <1>3, <3>1, DeadIsHolds DEF DeadIs
  <2> QED
    BY <2>2, <2>3, <2>4
<1>17. /\ \A d \in Tuples(page) : Root(VerAt(d)) # o
       /\ \A w \in DOMAIN vers : Root(w) = o => DeadVer(w)
       /\ \A q \in DOMAIN page : page[q].lp = LP_REDIRECT => q # o
  BY <1>5, UnusedRoot
<1>18. \A w \in DOMAIN vers : Root(w) = o => Doomed(By(w)) \/ \E y \in Ends(w) : TrulyCommitted(y)
  BY <1>17, DeadIsHolds DEF DeadIs
<1>19. \A d \in Tuples(page) : VerAt(d) \in DOMAIN vers /\ (VerAt(d) = p => d = c)
  BY <1>8 DEF Versions
<1>20. /\ \A d \in Tuples(page) : By(VerAt(d))' = By(VerAt(d)) /\ Root(VerAt(d))' = Root(VerAt(d))
       /\ \A d \in Tuples(page) : d # c => Ends(VerAt(d))' = Ends(VerAt(d))
       /\ Ends(VerAt(c))' = Ends(p) \cup {x}
       /\ By(VerAt(o))' = x /\ Root(VerAt(o))' = r /\ Ends(VerAt(o))' = {}
  BY <1>8, <1>10, <1>12, <1>19
<1>21. /\ \A q \in DOMAIN page : IsRoot(page, q) => IsRoot(page', q) /\ StartOf(page', q) = StartOf(page, q)
       /\ ~hot => IsRoot(page', o) /\ StartOf(page', o) = o
       /\ \A q \in DOMAIN page' : page'[q].lp = LP_REDIRECT =>
             q \in DOMAIN page /\ page[q].lp = LP_REDIRECT /\ page'[q] = page[q]
  <2>1. ASSUME NEW q \in DOMAIN page, IsRoot(page, q)
        PROVE  IsRoot(page', q) /\ StartOf(page', q) = StartOf(page, q)
    <3>1. CASE q = c
      BY <1>4, <1>8, <2>1, <3>1 DEF IsRoot, StartOf, LP_NORMAL, LP_REDIRECT
    <3>2. CASE q # c
      BY <1>5, <1>8, <2>1, <3>2 DEF IsRoot, StartOf
    <3> QED
      BY <3>1, <3>2
  <2>2. ~hot => IsRoot(page', o) /\ StartOf(page', o) = o
    BY <1>8 DEF IsRoot, StartOf, LP_NORMAL, LP_REDIRECT
  <2>3. \A q \in DOMAIN page' : page'[q].lp = LP_REDIRECT =>
             q \in DOMAIN page /\ page[q].lp = LP_REDIRECT /\ page'[q] = page[q]
    BY <1>8 DEF LP_NORMAL, LP_REDIRECT
  <2> QED
    BY <2>1, <2>2, <2>3
<1>22. \A d \in Tuples(page) : page[d].tup.hotUpdated /\ page[d].tup.ctid = o =>
          \A u \in UpdaterOf(d) : Doomed(u)
  BY <1>5, <1>4 DEF Links
<1>23. /\ \A e : ~Linked(o, e)'
       /\ \A d \in Tuples(page) : d # c => ~Linked(d, o)'
       /\ \A d, e \in Tuples(page) : d # c => (Linked(d, e)' <=> Linked(d, e))
       /\ \A e \in Tuples(page) \cup {o} : Linked(c, e)' => hot /\ e = o
       /\ hot => Linked(c, o)'
  <2>1. \A e : ~Linked(o, e)'
    BY <1>8 DEF Linked
  <2>2. \A d \in Tuples(page) : d # c => ~Linked(d, o)'
    BY <1>3, <1>8, <1>10, <1>11, <1>22 DEF Linked
  <2>3. \A d, e \in Tuples(page) : d # c => (Linked(d, e)' <=> Linked(d, e))
    BY <1>9, <1>10, <1>11 DEF Linked
  <2>4. \A e \in Tuples(page) \cup {o} : Linked(c, e)' => hot /\ e = o
    BY <1>8 DEF Linked
  <2>5. hot => Linked(c, o)'
    BY <1>8, <1>9, <1>11 DEF Linked
  <2> QED
    BY <2>1, <2>2, <2>3, <2>4, <2>5
<1>30. Multis'
  BY <1>2 DEF Updates
<1>31. Stamped'
  <2>1. /\ DOMAIN offsets \subseteq DOMAIN offsets'
        /\ t.multi => t.xmax \in DOMAIN offsets'
        /\ ~t.multi => t.xmax \in Xids
    BY <1>2 DEF Updates, Kept
  <2>2. \A d \in Tuples(page) : d # c =>
          /\ page'[d].tup.multi => page'[d].tup.xmax \in DOMAIN offsets'
          /\ ~page'[d].tup.multi => page'[d].tup.xmax \in Xids \cup {INVALID_XID}
          /\ page'[d].tup.lockOnly => UpdaterOf(d)' = {}
          /\ \A y, z \in UpdaterOf(d)' : y = z
    BY <1>10, <1>11, <2>1 DEF Stamped
  <2> QED
    BY <1>8, <1>9, <1>11, <2>1, <2>2 DEF Stamped, INVALID_XID
<1>32. Versions'
  <2>1. \A d, e \in Tuples(page) \cup {o} : VerAt(d)' = VerAt(e)' => d = e
    BY <1>6, <1>10, <1>19 DEF Versions
  <2>2. ASSUME NEW d \in Tuples(page), d # c
        PROVE  /\ VerAt(d)' \in DOMAIN vers' /\ By(VerAt(d))' = page'[d].tup.xmin
               /\ UpdaterOf(d)' \subseteq Ends(VerAt(d))'
               /\ \A y \in Ends(VerAt(d))' : y \in UpdaterOf(d)' \/ Doomed(y)'
    BY <1>6, <1>10, <1>11, <1>15, <1>19, <1>20, <2>2 DEF Versions
  <2>3. /\ VerAt(c)' \in DOMAIN vers' /\ By(VerAt(c))' = page'[c].tup.xmin
        /\ UpdaterOf(c)' \subseteq Ends(VerAt(c))'
        /\ \A y \in Ends(VerAt(c))' : y \in UpdaterOf(c)' \/ Doomed(y)'
    BY <1>3, <1>6, <1>8, <1>10, <1>11, <1>15, <1>19, <1>20 DEF Versions
  <2>4. /\ VerAt(o)' \in DOMAIN vers' /\ By(VerAt(o))' = page'[o].tup.xmin
        /\ UpdaterOf(o)' \subseteq Ends(VerAt(o))'
        /\ \A y \in Ends(VerAt(o))' : y \in UpdaterOf(o)' \/ Doomed(y)'
    BY <1>6, <1>8, <1>10, <1>11, <1>20
  <2> QED
    BY <1>9, <2>1, <2>2, <2>3, <2>4 DEF Versions
<1>33. SeenFirst'
  <2> SUFFICES ASSUME NEW w \in DOMAIN vers', NEW y \in Ends(w)'
               PROVE  TrulyCommitted(By(w))' \/ Doomed(y)' \/ y = By(w)' \/ By(w)' = SubOf[y]
    BY DEF SeenFirst
  <2>1. w \in DOMAIN vers /\ (y \in Ends(w) \/ (w = p /\ y = x))
    BY <1>6, <1>12
  <2> QED
    BY <1>3, <1>12, <1>15, <2>1 DEF SeenFirst
<1>34. Ordered'
  <2> SUFFICES ASSUME NEW w \in DOMAIN vers', NEW u \in DOMAIN vers', w < u, Root(w)' = Root(u)'
               PROVE  \/ Doomed(By(w))' \/ Doomed(By(u))'
                      \/ \E y \in Ends(w)' : TrulyCommitted(y)' \/ y = By(u)' \/ y = Top(By(u))'
    BY DEF Ordered
  <2>1. w \in DOMAIN vers /\ Ends(w) \subseteq Ends(w)'
    BY <1>6, <1>12
  <2>2. CASE u \in DOMAIN vers
    BY <1>12, <1>15, <2>1, <2>2 DEF Ordered, Top
  <2>3. CASE u = v /\ ~hot
    BY <1>12, <1>14, <1>15, <1>18, <2>1, <2>3
  <2>4. CASE u = v /\ hot
    <3>1. Root(w) = Root(p) /\ By(u)' = x /\ By(w)' = By(w) /\ Top(By(u))' = SubOf[x]
      BY <1>12, <1>13, <2>1, <2>4 DEF Top
    <3>2. CASE w = p
      BY <1>12, <3>1, <3>2
    <3>3. CASE p < w
      BY <1>3, <1>15, <2>1, <3>1, <3>3
    <3>4. CASE w < p /\ ~Doomed(By(w))
      <4>1. PICK y \in Ends(w) : TrulyCommitted(y) \/ y = By(p) \/ y = Top(By(p))
        BY <1>3, <2>1, <3>1, <3>4 DEF Ordered
      <4>2. By(p) \in Xids \cup {FROZEN_XID}
        BY <1>3, VerIs
      <4>3. TrulyCommitted(By(p)) => TrulyCommitted(Top(By(p)))
        BY <4>2, Parents DEF Top
      <4>4. By(p) = x => Top(By(p)) = SubOf[x]
        BY DEF Top
      <4>5. By(p) = SubOf[x] => Top(By(p)) = SubOf[x]
        BY Assumed DEF Top
      <4>6. TrulyCommitted(y) \/ y = x \/ y = SubOf[x]
        BY <1>3, <4>1, <4>3, <4>4, <4>5
      <4> QED
        BY <1>15, <2>1, <3>1, <4>6
    <3> QED
      BY <1>3, <1>6, <1>15, <2>1, <3>1, <3>2, <3>3, <3>4
  <2> QED
    BY <1>6, <2>2, <2>3, <2>4
<1>35. Present'
  BY <1>6, <1>9, <1>10, <1>16 DEF Present
<1>36. Rooted'
  <2>1. \A d \in Tuples(page) : /\ ~page'[d].tup.heapOnly => Root(VerAt(d))' = d
                                /\ Root(VerAt(d))' \in DOMAIN page' /\ IsRoot(page', Root(VerAt(d))')
    BY <1>8, <1>10, <1>20, <1>21 DEF Rooted
  <2>2. /\ ~page'[o].tup.heapOnly => Root(VerAt(o))' = o
        /\ Root(VerAt(o))' \in DOMAIN page' /\ IsRoot(page', Root(VerAt(o))')
    <3>1. CASE hot
      <4>1. Root(p) \in DOMAIN page /\ IsRoot(page, Root(p))
        BY <1>8 DEF Rooted
      <4> QED
        BY <1>8, <1>13, <1>20, <1>21, <3>1, <4>1
    <3>2. CASE ~hot
      BY <1>8, <1>14, <1>20, <1>21, <3>2
    <3> QED
      BY <3>1, <3>2
  <2>3. \A q \in DOMAIN page' : page'[q].lp = LP_REDIRECT =>
          \E e \in Tuples(page) : e = page'[q].to /\ page'[e].tup.heapOnly /\ Root(VerAt(e))' = q
    <3> SUFFICES ASSUME NEW q \in DOMAIN page', page'[q].lp = LP_REDIRECT
                 PROVE  \E e \in Tuples(page) : e = page'[q].to /\ page'[e].tup.heapOnly /\ Root(VerAt(e))' = q
      OBVIOUS
    <3>1. q \in DOMAIN page /\ page[q].lp = LP_REDIRECT /\ page'[q] = page[q]
      BY <1>21
    <3>2. PICK e \in Tuples(page) : e = page[q].to /\ page[e].tup.heapOnly /\ Root(VerAt(e)) = q
      BY <3>1 DEF Rooted
    <3> QED
      BY <1>10, <1>20, <3>1, <3>2
  <2> QED
    BY <1>9, <2>1, <2>2, <2>3 DEF Rooted
<1>37. Starts'
  <2>1. ASSUME NEW w \in DOMAIN vers, ~DeadVer(w)
        PROVE  \E s : s = StartOf(page', Root(w)) /\ s \in Tuples(page)
                      /\ VerAt(s) <= w /\ ~Doomed(By(VerAt(s)))
    BY <2>1, <1>21, LiveRoot, StartTuple DEF Starts
  <2>2. ASSUME NEW w \in DOMAIN vers', ~DeadVer(w)'
        PROVE  \E s : s = StartOf(page', Root(w)') /\ VerAt(s)' <= w /\ ~Doomed(By(VerAt(s)))'
    <3>1. CASE w \in DOMAIN vers
      BY <1>10, <1>12, <1>15, <1>16, <1>20, <2>1, <2>2, <3>1
    <3>2. CASE w = v /\ ~hot
      BY <1>3, <1>6, <1>10, <1>12, <1>14, <1>15, <1>20, <1>21, <3>2
    <3>3. CASE w = v /\ hot
      <4>1. PICK s : s = StartOf(page', Root(p)) /\ s \in Tuples(page)
                      /\ VerAt(s) <= p /\ ~Doomed(By(VerAt(s)))
        BY <1>3, <1>16, <2>1
      <4>2. VerAt(s) <= v
        BY <1>3, <1>6, <1>19, <4>1
      <4> QED
        BY <1>10, <1>12, <1>13, <1>15, <1>20, <3>3, <4>1, <4>2
    <3> QED
      BY <1>6, <3>1, <3>2, <3>3
  <2> QED
    BY <2>2 DEF Starts
<1>38. Links'
  <2>1. ASSUME NEW d \in Tuples(page) \cup {o}, page'[d].tup.hotUpdated
        PROVE  /\ page'[d].tup.ctid \in DOMAIN page'
               /\ \A u \in UpdaterOf(d)' : ~Doomed(u)' =>
                     /\ page'[page'[d].tup.ctid].lp = LP_NORMAL
                     /\ page'[page'[d].tup.ctid].tup.xmin = u
    <3>1. CASE d = c
      BY <1>8, <1>11, <3>1
    <3>2. CASE d # c
      <4>1. d \in Tuples(page) /\ page'[d] = page[d]
        BY <1>8, <1>10, <2>1, <3>2
      <4>2. PICK e : e = page[d].tup.ctid
        OBVIOUS
      <4>3. e \in DOMAIN page
        BY <2>1, <4>1, <4>2 DEF Links
      <4>4. ASSUME NEW u \in UpdaterOf(d), ~Doomed(u)
            PROVE  page'[e].lp = LP_NORMAL /\ page'[e].tup.xmin = u
        <5>1. page[e].lp = LP_NORMAL /\ page[e].tup.xmin = u
          BY <2>1, <4>1, <4>2, <4>4 DEF Links
        <5>2. e \in Tuples(page)
          BY <4>3, <5>1 DEF Tuples
        <5> QED
          BY <1>10, <5>1, <5>2
      <4> QED
        BY <1>8, <1>11, <1>15, <3>2, <4>1, <4>2, <4>3, <4>4
    <3> QED
      BY <3>1, <3>2
  <2>2. ASSUME NEW d \in Tuples(page) \cup {o}, NEW e \in Tuples(page) \cup {o}, Linked(d, e)'
        PROVE  page'[e].tup.heapOnly /\ Root(VerAt(e))' = Root(VerAt(d))' /\ VerAt(d)' < VerAt(e)'
    <3>1. CASE d = c
      <4>1. hot /\ e = o
        BY <1>23, <2>2, <3>1
      <4>2. Root(VerAt(c))' = Root(p) /\ VerAt(c)' = p
        BY <1>8, <1>10, <1>20
      <4> QED
        BY <1>3, <1>6, <1>8, <1>10, <1>13, <1>20, <3>1, <4>1, <4>2
    <3>2. CASE d # c
      <4>1. d \in Tuples(page) /\ e \in Tuples(page) /\ Linked(d, e)
        BY <1>23, <2>2, <3>2
      <4>2. page[e].tup.heapOnly /\ Root(VerAt(e)) = Root(VerAt(d)) /\ VerAt(d) < VerAt(e)
        BY <4>1 DEF Links
      <4>3. page'[e].tup.heapOnly = page[e].tup.heapOnly /\ VerAt(d)' = VerAt(d) /\ VerAt(e)' = VerAt(e)
        BY <1>10, <4>1
      <4> QED
        BY <1>20, <4>1, <4>2, <4>3
    <3> QED
      BY <3>1, <3>2
  <2> QED
    BY <1>9, <2>1, <2>2 DEF Links
<1>39. Nexts'
  <2> SUFFICES ASSUME NEW d \in Tuples(page) \cup {o}, NEW w \in DOMAIN vers',
                      ~Doomed(By(VerAt(d)))', ~DeadVer(w)', Root(w)' = Root(VerAt(d))', VerAt(d)' < w
               PROVE  \E e \in Tuples(page) \cup {o} :
                         Linked(d, e)' /\ VerAt(e)' <= w /\ ~Doomed(By(VerAt(e)))'
    BY <1>9 DEF Nexts
  <2>1. d \in Tuples(page) /\ VerAt(d) \in DOMAIN vers /\ VerAt(d) < w /\ ~Doomed(By(VerAt(d)))
        /\ Root(w)' = Root(VerAt(d))
    BY <1>6, <1>10, <1>15, <1>19, <1>20
  <2>2. ASSUME NEW u \in DOMAIN vers, u <= w, ~DeadVer(u), Root(u) = Root(VerAt(d)), VerAt(d) < u, d # c
        PROVE  \E e \in Tuples(page) \cup {o} :
                  Linked(d, e)' /\ VerAt(e)' <= w /\ ~Doomed(By(VerAt(e)))'
    <3>1. PICK e \in Tuples(page) : Linked(d, e) /\ VerAt(e) <= u /\ ~Doomed(By(VerAt(e)))
      BY <2>1, <2>2 DEF Nexts
    <3>2. VerAt(e) <= w
      BY <1>6, <1>19, <2>2, <3>1
    <3> QED
      BY <1>10, <1>15, <1>20, <1>23, <2>1, <2>2, <3>1, <3>2
  <2>3. CASE w \in DOMAIN vers
    <3>1. ~DeadVer(w) /\ Root(w) = Root(VerAt(d))
      BY <1>12, <1>16, <2>1, <2>3
    <3>2. ~Doomed(By(w))
      BY <2>3, <3>1, DeadIsHolds DEF DeadIs
    <3>3. d # c
      BY <1>3, <1>8, <2>1, <2>3, <3>1, <3>2
    <3> QED
      BY <1>6, <2>1, <2>2, <2>3, <3>1, <3>3
  <2>4. CASE w = v
    <3>1. hot /\ Root(VerAt(d)) = Root(p)
      BY <1>12, <1>13, <1>14, <1>17, <2>1, <2>4
    <3>2. CASE d = c
      BY <1>3, <1>6, <1>10, <1>15, <1>20, <1>23, <2>4, <3>1, <3>2
    <3>3. CASE d # c
      <4>1. VerAt(d) # p /\ ~(p < VerAt(d))
        BY <1>3, <1>19, <2>1, <3>1, <3>3
      <4>2. VerAt(d) < p /\ p <= w
        BY <1>3, <1>6, <2>1, <2>4, <4>1
      <4> QED
        BY <1>3, <1>16, <2>2, <3>1, <3>3, <4>2
    <3> QED
      BY <3>2, <3>3
  <2> QED
    BY <1>6, <2>3, <2>4
<1> QED
  BY <1>1, <1>7, <1>30, <1>31, <1>32, <1>33, <1>34, <1>35, <1>36, <1>37, <1>38, <1>39

\* The tuples pruning keeps.
Lasting == {o \in Tuples(page) : ~DeadAt(o)}

\* The first version left of a root.
LEMMA FirstLeft ==
    ASSUME Shaped, Versions, NEW r, Left(r) # {},
           NEW f, f = CHOOSE o \in Left(r) : \A p \in Left(r) : page[o].tup.ver <= page[p].tup.ver
    PROVE  f \in Left(r) /\ \A p \in Left(r) : VerAt(f) <= VerAt(p)
<1> DEFINE D == {VerAt(o) : o \in Left(r)}
<1>1. \A o \in Left(r) : VerAt(o) \in Nat
  BY VerIs DEF Left, Versions
<1>2. PICK d \in D : \A n \in D : d <= n
  <2>1. D \subseteq Nat /\ D # {}
    BY <1>1
  <2> HIDE DEF D
  <2> QED
    BY <2>1, Least
<1>3. PICK o \in Left(r) : VerAt(o) = d
  OBVIOUS
<1>4. \A p \in Left(r) : page[o].tup.ver <= page[p].tup.ver
  BY <1>2, <1>3 DEF VerAt
<1> QED
  BY <1>3, <1>4 DEF VerAt

\* What a root line pointer becomes.
LEMMA PrunedRootIs ==
    ASSUME Shaped, Logged, PageInv, NEW r \in DOMAIN page, IsRoot(page, r), NEW i, i = PrunedRoot(r)
    PROVE  \/ Left(r) = {} /\ i = Item(LP_DEAD, 0, NoTuple) /\ r \notin Lasting
           \/ \E f \in Left(r) :
                 /\ \A p \in Left(r) : VerAt(f) <= VerAt(p)
                 /\ \/ f = r /\ i = page[r]
                    \/ f # r /\ i = Item(LP_REDIRECT, f, NoTuple) /\ r \notin Lasting
<1> USE DEF PageInv
<1>1. r \in Lasting => r \in Left(r)
  <2>1. ASSUME r \in Lasting PROVE r \in Left(r)
    <3>1. r \in Tuples(page) /\ ~page[r].tup.heapOnly
      BY <2>1 DEF Lasting, IsRoot, Tuples, LP_NORMAL, LP_REDIRECT
    <3>2. Root(VerAt(r)) = r
      BY <3>1 DEF Rooted
    <3> QED
      BY <2>1, <3>2 DEF Lasting, Left, Root, VerAt
  <2> QED
    BY <2>1
<1>2. PICK f : f = CHOOSE o \in Left(r) : \A p \in Left(r) : page[o].tup.ver <= page[p].tup.ver
  OBVIOUS
<1>3. CASE Left(r) = {}
  BY <1>1, <1>3 DEF PrunedRoot
<1>4. CASE Left(r) # {}
  <2>1. f \in Left(r) /\ \A p \in Left(r) : VerAt(f) <= VerAt(p)
    BY <1>2, <1>4, FirstLeft
  <2>2. CASE f = r
    BY <1>2, <1>4, <2>1, <2>2 DEF PrunedRoot
  <2>3. CASE f # r
    <3>1. i = Item(LP_REDIRECT, f, NoTuple)
      BY <1>2, <1>4, <2>3 DEF PrunedRoot
    <3>2. ASSUME r \in Lasting PROVE FALSE
      <4>1. StartOf(page, r) = r /\ r \in Tuples(page)
        BY <3>2 DEF Lasting, StartOf, Tuples, LP_NORMAL, LP_REDIRECT
      <4>2. f \in Tuples(page) /\ VerAt(f) \in DOMAIN vers /\ ~DeadVer(VerAt(f)) /\ Root(VerAt(f)) = r
        BY <2>1 DEF Left, DeadAt, Root, VerAt, Versions
      <4>3. VerAt(r) <= VerAt(f)
        BY <4>1, <4>2 DEF Starts
      <4>4. VerAt(f) <= VerAt(r)
        BY <1>1, <2>1, <3>2
      <4>5. VerAt(r) \in Nat /\ VerAt(f) \in Nat
        BY <4>1, <4>2, VerIs DEF Versions
      <4> QED
        BY <2>3, <4>1, <4>2, <4>3, <4>4, <4>5 DEF Versions
    <3> QED
      BY <2>1, <2>3, <3>1, <3>2
  <2> QED
    BY <2>2, <2>3
<1> QED
  BY <1>3, <1>4

\* The page after pruning.
Pruned(w) ==
    /\ w \in Seq(ItemType) /\ DOMAIN w = DOMAIN page /\ Len(w) = Len(page)
    /\ Tuples(w) = Lasting /\ \A o \in Lasting : w[o] = page[o]
    /\ \A r \in DOMAIN page : w[r].lp = LP_REDIRECT =>
          w[r].to \in Left(r) /\ w[r].to # r
    /\ \A r \in DOMAIN page : IsRoot(page, r) /\ Left(r) # {} =>
          /\ IsRoot(w, r) /\ StartOf(w, r) \in Left(r)
          /\ \A p \in Left(r) : VerAt(StartOf(w, r)) <= VerAt(p)

\* Prune leaves such a page.
LEMMA PrunedIs ==
    ASSUME Shaped, Logged, PageInv, Prune
    PROVE  Pruned(page')
<1> PICK w : w = page'
  OBVIOUS
<1>0. w = [o \in DOMAIN page |->
           IF IsRoot(page, o) THEN PrunedRoot(o)
           ELSE IF o \in Tuples(page) /\ DeadAt(o) THEN Unused ELSE page[o]]
  BY DEF Prune
<1>1. \A o \in DOMAIN page : IsRoot(page, o) => w[o] = PrunedRoot(o)
  BY <1>0
<1>2. \A o \in DOMAIN page : ~IsRoot(page, o) => w[o] = IF o \in Tuples(page) /\ DeadAt(o) THEN Unused ELSE page[o]
  BY <1>0
<1>3. \A o \in DOMAIN page : page[o] \in ItemType /\ o \in Nat
  BY DEF Shaped
<1>4. ASSUME NEW r \in DOMAIN page, IsRoot(page, r)
      PROVE  \/ Left(r) = {} /\ w[r] = Item(LP_DEAD, 0, NoTuple) /\ r \notin Lasting
             \/ \E f \in Left(r) :
                 /\ \A p \in Left(r) : VerAt(f) <= VerAt(p)
                 /\ \/ f = r /\ w[r] = page[r]
                    \/ f # r /\ w[r] = Item(LP_REDIRECT, f, NoTuple) /\ r \notin Lasting
  BY <1>1, <1>4, PrunedRootIs
<1>5. /\ Unused \in ItemType /\ Unused.lp = LP_UNUSED
      /\ Item(LP_DEAD, 0, NoTuple) \in ItemType /\ Item(LP_DEAD, 0, NoTuple).lp = LP_DEAD
      /\ \A f \in DOMAIN page : /\ Item(LP_REDIRECT, f, NoTuple) \in ItemType
                                /\ Item(LP_REDIRECT, f, NoTuple).lp = LP_REDIRECT
                                /\ Item(LP_REDIRECT, f, NoTuple).to = f
  <2>1. NoTuple \in TupleType
    BY Assumed DEF NoTuple, TupleType
  <2>2. \A f \in DOMAIN page : f \in 0..NSlots
    BY Assumed DEF Shaped
  <2>3. 0 \in 0..NSlots /\ LP_UNUSED \in LP_UNUSED..LP_DEAD /\ LP_DEAD \in LP_UNUSED..LP_DEAD /\ LP_REDIRECT \in LP_UNUSED..LP_DEAD
    BY Assumed DEF LP_UNUSED, LP_DEAD, LP_REDIRECT
  <2> QED
    BY <2>1, <2>2, <2>3 DEF Unused, Item, ItemType
<1>6. \A r : Left(r) \subseteq Lasting /\ Lasting \subseteq Tuples(page) /\ Tuples(page) \subseteq DOMAIN page
  BY DEF Left, Lasting, Tuples
<1>7. ASSUME NEW o \in DOMAIN page PROVE w[o] \in ItemType
  BY <1>2, <1>3, <1>4, <1>5, <1>6
<1>8. w \in Seq(ItemType) /\ DOMAIN w = DOMAIN page /\ Len(w) = Len(page)
  <2>1. DOMAIN page = 1..Len(page) /\ Len(page) \in Nat
    BY DEF Shaped
  <2> QED
    BY <1>0, <1>7, <2>1
<1>9. ASSUME NEW o \in Lasting PROVE w[o] = page[o]
  BY <1>9, <1>2, <1>4, <1>6 DEF Lasting
<1>10. ASSUME NEW o \in DOMAIN page, o \notin Lasting PROVE w[o].lp # LP_NORMAL
  <2>1. CASE IsRoot(page, o)
    BY <2>1, <1>4, <1>5, <1>6, <1>10 DEF LP_DEAD, LP_NORMAL, LP_REDIRECT
  <2>2. CASE ~IsRoot(page, o)
    BY <2>2, <1>2, <1>5, <1>10 DEF Lasting, Tuples, LP_UNUSED, LP_NORMAL
  <2> QED
    BY <2>1, <2>2
<1>11. Tuples(w) = Lasting
  BY <1>6, <1>8, <1>9, <1>10 DEF Tuples
<1>12. ASSUME NEW r \in DOMAIN page, w[r].lp = LP_REDIRECT
       PROVE  w[r].to \in Left(r) /\ w[r].to # r
  <2>1. IsRoot(page, r)
    BY <1>2, <1>5, <1>12 DEF IsRoot, LP_UNUSED, LP_REDIRECT
  <2>2. \A f \in Left(r) : f = r => page[r].lp # LP_REDIRECT
    BY DEF Left, Tuples, LP_NORMAL, LP_REDIRECT
  <2> QED
    BY <1>4, <1>5, <1>6, <1>12, <2>1, <2>2 DEF LP_DEAD, LP_REDIRECT
<1>13. ASSUME NEW r \in DOMAIN page, IsRoot(page, r), Left(r) # {}
       PROVE  /\ IsRoot(w, r) /\ StartOf(w, r) \in Left(r)
              /\ \A p \in Left(r) : VerAt(StartOf(w, r)) <= VerAt(p)
  <2>1. PICK f \in Left(r) :
                 /\ \A p \in Left(r) : VerAt(f) <= VerAt(p)
                 /\ \/ f = r /\ w[r] = page[r]
                    \/ f # r /\ w[r] = Item(LP_REDIRECT, f, NoTuple) /\ r \notin Lasting
    BY <1>4, <1>13
  <2>2. IsRoot(w, r) /\ StartOf(w, r) = f
    <3>1. CASE f = r /\ w[r] = page[r]
      BY <2>1, <3>1, <1>13 DEF IsRoot, StartOf, Left, Tuples, LP_NORMAL, LP_REDIRECT
    <3>2. CASE w[r] = Item(LP_REDIRECT, f, NoTuple)
      BY <1>5, <1>6, <3>2 DEF IsRoot, StartOf
    <3> QED
      BY <2>1, <3>1, <3>2
  <2> QED
    BY <2>1, <2>2
<1> QED
  BY <1>8, <1>9, <1>11, <1>12, <1>13 DEF Pruned

\* A link from a tuple that lasts to a version that is not aborted leads to
\* one that lasts: who ended the newer version would have ended the older.
LEMMA LastingLink ==
    ASSUME Shaped, Logged, PageInv, NEW c \in Lasting, NEW d \in Tuples(page),
           By(VerAt(d)) \in UpdaterOf(c), ~Doomed(By(VerAt(d)))
    PROVE  d \in Lasting
<1> USE DEF PageInv
<1>1. PICK u : u = By(VerAt(d))
  OBVIOUS
<1>2. c \in Tuples(page) /\ VerAt(c) \in DOMAIN vers /\ VerAt(d) \in DOMAIN vers /\ u \in Ends(VerAt(c))
  BY <1>1 DEF Lasting, Versions
<1>3. ~\E x \in Ends(VerAt(c)) : TrulyCommitted(x)
  BY <1>2, DeadVerIs DEF Lasting, DeadAt, VerAt
<1>4. SUFFICES ASSUME DeadVer(VerAt(d)) PROVE FALSE
  BY DEF Lasting, DeadAt, VerAt
<1>5. PICK y \in Ends(VerAt(d)) : TrulyCommitted(y)
  BY <1>2, <1>4, DeadVerIs
<1>6. y \in Xids
  BY <1>2, <1>5, VerIs
<1>7. TrulyCommitted(u) \/ Doomed(y) \/ y = u \/ u = SubOf[y]
  BY <1>1, <1>2, <1>5 DEF SeenFirst
<1>8. TrulyCommitted(u)
  BY <1>5, <1>6, <1>7, Fates, Parents
<1> QED
  BY <1>2, <1>3, <1>8

\* Pruning.
LEMMA PrunePage ==
    ASSUME Shaped, Logged, PageInv, FitsOn(page), Prune
    PROVE  Shaped' /\ PageInv' /\ FitsOn(page)'
<1> USE DEF PageInv
<1>0. UNCHANGED <<clog, offsets, members, vers>>
  BY DEF Prune
<1>1. Pruned(page')
  BY PrunedIs
<1>2. /\ page' \in Seq(ItemType) /\ DOMAIN page' = DOMAIN page /\ Len(page') = Len(page)
      /\ Tuples(page') = Lasting /\ Tuples(page)' = Lasting /\ \A o \in Lasting : page'[o] = page[o]
  BY <1>1 DEF Pruned
<1>3. Shaped'
  BY <1>0, <1>2 DEF Shaped
<1>4. FitsOn(page')
  <2>1. page \in Seq(ItemType) /\ DOMAIN page = 1..Len(page)
    BY DEF Shaped
  <2>2. ASSUME NEW k \in DOMAIN page PROVE Size(page'[k]) <= Size(page[k])
    <3>1. Size(page[k]) \in Nat
      BY <2>1, SizeIs
    <3>2. CASE k \in Lasting
      BY <1>2, <3>1, <3>2
    <3>3. CASE k \notin Lasting
      <4>1. page'[k].lp # LP_NORMAL
        BY <1>2, <3>3 DEF Tuples
      <4> QED
        BY <3>1, <4>1 DEF Size
    <3> QED
      BY <3>2, <3>3
  <2> QED
    BY <1>2, <2>1, <2>2, FitsStill
<1>6. Lasting \subseteq Tuples(page) /\ \A r : Left(r) \subseteq Lasting
  BY DEF Lasting, Left
<1>7. \A c \in Lasting : VerAt(c)' = VerAt(c) /\ UpdaterOf(c)' = UpdaterOf(c)
  <2>1. \A m \in DOMAIN offsets : MembersOf(m)' = MembersOf(m)
    BY <1>0 DEF MembersOf, LastOf
  <2> QED
    BY <1>0, <1>2, <1>6, <2>1, SameUpdaters DEF VerAt
<1>8. \A v : By(v)' = By(v) /\ Ends(v)' = Ends(v) /\ Root(v)' = Root(v)
  BY <1>0 DEF By, Ends, Root
<1>9. /\ \A x : TrulyCommitted(x)' <=> TrulyCommitted(x)
      /\ \A x : Doomed(x)' <=> Doomed(x)
      /\ \A x : Alive(x)' <=> Alive(x)
  BY <1>0, SameFates
<1>10. \A v : DeadVer(v)' <=> DeadVer(v)
  BY <1>0, <1>9 DEF DeadVer
<1>11. \A c \in Lasting : /\ VerAt(c) \in DOMAIN vers /\ ~DeadVer(VerAt(c))
                          /\ ~Doomed(By(VerAt(c))) /\ c \in Left(Root(VerAt(c)))
                          /\ \A r : c \in Left(r) => Root(VerAt(c)) = r
  <2>1. \A c \in Lasting : VerAt(c) \in DOMAIN vers /\ ~DeadVer(VerAt(c))
    BY DEF Lasting, DeadAt, VerAt, Versions
  <2>2. \A c \in Lasting : ~Doomed(By(VerAt(c)))
    BY <2>1, DeadVerIs
  <2>3. \A c \in Lasting : c \in Left(Root(VerAt(c))) /\ \A r : c \in Left(r) => Root(VerAt(c)) = r
    BY DEF Lasting, Left, Root, VerAt
  <2> QED
    BY <2>1, <2>2, <2>3
<1>12. \A r \in DOMAIN page : IsRoot(page, r) /\ Left(r) # {} =>
          \E f \in Left(r) : /\ IsRoot(page', r) /\ StartOf(page', r) = f
                             /\ \A p \in Left(r) : VerAt(f) <= VerAt(p)
  BY <1>1 DEF Pruned
<1>13. \A c, d \in Lasting : Linked(c, d)' <=> Linked(c, d)
  BY <1>2, <1>6, <1>7 DEF Linked
<1>14. Multis'
  BY <1>0 DEF Multis
<1>15. Stamped'
  BY <1>0, <1>2, <1>6, <1>7 DEF Stamped
<1>16. Versions'
  <2>1. DOMAIN vers' = DOMAIN vers
    BY <1>0
  <2>2. \A c \in Lasting : By(VerAt(c))' = By(VerAt(c)) /\ Ends(VerAt(c))' = Ends(VerAt(c))
    BY <1>7, <1>8
  <2> QED
    BY <1>2, <1>6, <1>7, <1>9, <2>1, <2>2 DEF Versions
<1>17. SeenFirst'
  BY <1>0, <1>8, <1>9 DEF SeenFirst
<1>18. Ordered'
  BY <1>0, <1>8, <1>9 DEF Ordered
<1>181. \A v \in DOMAIN vers : ~DeadVer(v) => \E o \in Lasting : VerAt(o) = v
  BY DEF Present, Lasting, DeadAt, VerAt
<1>19. Present'
  BY <1>0, <1>2, <1>7, <1>10, <1>181 DEF Present
<1>20. Rooted'
  <2>1. ASSUME NEW c \in Lasting
        PROVE  /\ ~page[c].tup.heapOnly => Root(VerAt(c)) = c
               /\ Root(VerAt(c)) \in DOMAIN page /\ IsRoot(page', Root(VerAt(c)))
    BY <1>6, <1>11, <1>12 DEF Rooted
  <2>2. ASSUME NEW r \in DOMAIN page, page'[r].lp = LP_REDIRECT
        PROVE  \E e \in Lasting : e = page'[r].to /\ page[e].tup.heapOnly /\ Root(VerAt(e)) = r
    <3>1. PICK e : e = page'[r].to
      OBVIOUS
    <3>2. e \in Left(r) /\ e # r
      BY <1>1, <2>2, <3>1 DEF Pruned
    <3>3. e \in Lasting /\ Root(VerAt(e)) = r
      BY <1>6, <1>11, <3>2
    <3>4. page[e].tup.heapOnly
      BY <1>6, <3>2, <3>3 DEF Rooted
    <3> QED
      BY <3>1, <3>3, <3>4
  <2> QED
    BY <2>1, <2>2, <1>2, <1>7, <1>8 DEF Rooted
<1>21. Starts'
  <2>1. ASSUME NEW v \in DOMAIN vers, ~DeadVer(v)
        PROVE  \E s : s = StartOf(page', Root(v)) /\ s \in Lasting
                      /\ VerAt(s) <= v /\ ~Doomed(By(VerAt(s)))
    <3>1. PICK o \in Lasting : VerAt(o) = v
      BY <1>181, <2>1
    <3>2. Root(v) \in DOMAIN page /\ IsRoot(page, Root(v)) /\ o \in Left(Root(v))
      BY <1>11, <2>1, <3>1, LiveRoot
    <3>3. PICK s \in Left(Root(v)) : StartOf(page', Root(v)) = s /\ \A p \in Left(Root(v)) : VerAt(s) <= VerAt(p)
      BY <1>12, <3>2
    <3> QED
      BY <1>6, <1>11, <3>1, <3>2, <3>3
  <2> QED
    BY <2>1, <1>0, <1>7, <1>8, <1>9, <1>10 DEF Starts
<1>22. Links'
  <2>1. ASSUME NEW c \in Lasting, page[c].tup.hotUpdated, NEW u \in UpdaterOf(c), ~Doomed(u)
        PROVE  page[c].tup.ctid \in Lasting /\ page[page[c].tup.ctid].tup.xmin = u
    <3>1. PICK d : d = page[c].tup.ctid
      OBVIOUS
    <3>2. d \in Tuples(page) /\ page[d].tup.xmin = u
      BY <1>6, <2>1, <3>1 DEF Links, Tuples
    <3>3. By(VerAt(d)) = u
      BY <3>2 DEF Versions
    <3> QED
      BY <2>1, <3>1, <3>2, <3>3, LastingLink
  <2>2. ASSUME NEW c \in Lasting, page[c].tup.hotUpdated
        PROVE  /\ page[c].tup.ctid \in DOMAIN page
               /\ \A u \in UpdaterOf(c) : ~Doomed(u) =>
                    /\ page'[page[c].tup.ctid].lp = LP_NORMAL
                    /\ page'[page[c].tup.ctid].tup.xmin = u
    BY <1>2, <1>6, <2>1, <2>2 DEF Links, Tuples
  <2>3. \A c, d \in Lasting : Linked(c, d) =>
          page[d].tup.heapOnly /\ Root(VerAt(d)) = Root(VerAt(c)) /\ VerAt(c) < VerAt(d)
    BY <1>6 DEF Links
  <2>4. \A c \in Tuples(page)' : page'[c].tup.hotUpdated =>
          /\ page'[c].tup.ctid \in DOMAIN page'
          /\ \A u \in UpdaterOf(c)' : ~Doomed(u)' =>
                /\ page'[page'[c].tup.ctid].lp = LP_NORMAL
                /\ page'[page'[c].tup.ctid].tup.xmin = u
    BY <2>2, <1>2, <1>7, <1>9
  <2>5. \A c, d \in Tuples(page)' : Linked(c, d)' =>
          page'[d].tup.heapOnly /\ Root(VerAt(d))' = Root(VerAt(c))' /\ VerAt(c)' < VerAt(d)'
    BY <2>3, <1>2, <1>7, <1>8, <1>13
  <2> QED
    BY <2>4, <2>5 DEF Links
<1>23. Nexts'
  <2>1. ASSUME NEW c \in Lasting, NEW v \in DOMAIN vers, ~DeadVer(v), Root(v) = Root(VerAt(c)), VerAt(c) < v
        PROVE  \E d \in Lasting : Linked(c, d) /\ VerAt(d) <= v /\ ~Doomed(By(VerAt(d)))
    <3>1. PICK d \in Tuples(page) : Linked(c, d) /\ VerAt(d) <= v /\ ~Doomed(By(VerAt(d)))
      BY <1>6, <1>11, <2>1 DEF Nexts
    <3>2. By(VerAt(d)) \in UpdaterOf(c)
      BY <3>1 DEF Linked, Versions
    <3> QED
      BY <3>1, <3>2, LastingLink
  <2> QED
    BY <2>1, <1>0, <1>2, <1>7, <1>8, <1>9, <1>10, <1>13 DEF Nexts
<1> QED
  BY <1>3, <1>4, <1>14, <1>15, <1>16, <1>17, <1>18, <1>19, <1>20, <1>21, <1>22, <1>23

-----------------------------------------------------------------------------
\* The readers.

\* The list q names the roots of pg up to k, in order, with their chains' starts.
RootsUpTo(q, pg, k) ==
    /\ q \in Seq(Offnums \X (0..NSlots))
    /\ \A i \in DOMAIN q : /\ q[i][1] \in 1..k /\ IsRoot(pg, q[i][1])
                           /\ q[i][2] = StartOf(pg, q[i][1])
    /\ \A i, j \in DOMAIN q : i < j => q[i][1] < q[j][1]
    /\ \A o \in 1..k : IsRoot(pg, o) => \E i \in DOMAIN q : q[i][1] = o

\* One more line pointer.
LEMMA RootsNext ==
    ASSUME NEW pg \in Seq(ItemType), Len(pg) <= NSlots, NEW k \in Nat, k + 1 <= Len(pg),
           NEW q, RootsUpTo(q, pg, k), NEW s,
           s = IF IsRoot(pg, k + 1) THEN Append(q, <<k + 1, StartOf(pg, k + 1)>>) ELSE q
    PROVE  RootsUpTo(s, pg, k + 1)
<1> USE DEF RootsUpTo
<1>0. k + 1 \in DOMAIN pg /\ k + 1 \in Offnums /\ \A o \in 1..(k + 1) : o = k + 1 \/ o \in 1..k
  BY Assumed DEF Offnums
<1>1. CASE ~IsRoot(pg, k + 1)
  BY <1>0, <1>1
<1>2. CASE IsRoot(pg, k + 1)
  <2>1. PICK e : e = <<k + 1, StartOf(pg, k + 1)>>
    OBVIOUS
  <2>2. pg[k + 1] \in ItemType
    BY <1>0
  <2>3. StartOf(pg, k + 1) \in 0..NSlots
    BY <1>0, <2>2 DEF StartOf, ItemType, Offnums
  <2>4. e \in Offnums \X (0..NSlots) /\ e[1] = k + 1 /\ e[2] = StartOf(pg, k + 1)
    BY <1>0, <2>1, <2>3
  <2>5. s = Append(q, e)
    BY <1>2, <2>1
  <2>6. /\ s \in Seq(Offnums \X (0..NSlots)) /\ DOMAIN s = 1..(Len(q) + 1) /\ DOMAIN q = 1..Len(q)
        /\ s[Len(q) + 1] = e /\ \A i \in DOMAIN q : s[i] = q[i]
    BY <2>4, <2>5
  <2>7. \A i \in DOMAIN s : i \in DOMAIN q \/ i = Len(q) + 1
    BY <2>6
  <2>8. \A i \in DOMAIN s : s[i][1] \in 1..(k + 1) /\ IsRoot(pg, s[i][1]) /\ s[i][2] = StartOf(pg, s[i][1])
    BY <1>2, <2>4, <2>6, <2>7
  <2>9. \A i, j \in DOMAIN s : i < j => s[i][1] < s[j][1]
    BY <2>4, <2>6, <2>7, SMTT(30)
  <2>10. \A o \in 1..(k + 1) : IsRoot(pg, o) => \E i \in DOMAIN s : s[i][1] = o
    BY <1>0, <2>4, <2>6, SMTT(30)
  <2> QED
    BY <2>6, <2>8, <2>9, <2>10
<1> QED
  BY <1>1, <1>2

\* chain_roots lists every root of a page.
LEMMA ChainRootsIs ==
    ASSUME NEW pg \in Seq(ItemType), Len(pg) <= NSlots
    PROVE  RootsUpTo(chain_roots(pg), pg, Len(pg))
<1> DEFINE n == Len(pg)
           T == Seq(Offnums \X (0..NSlots))
           Next1(k, q) == IF IsRoot(pg, k) THEN Append(q, <<k, StartOf(pg, k)>>) ELSE q
           F == [p \in (1..n) \X T |-> Next1(p[1], p[2])]
           Fits(g) == g = [o \in 0..n |-> IF o = 0 THEN <<>>
                              ELSE IF IsRoot(pg, o) THEN Append(g[o - 1], <<o, StartOf(pg, o)>>)
                              ELSE g[o - 1]]
<1>1. \A k \in 1..n : <<k, StartOf(pg, k)>> \in Offnums \X (0..NSlots)
  <2>1. \A k \in 1..n : pg[k] \in ItemType /\ k \in Offnums /\ k \in 0..NSlots
    BY Assumed DEF Offnums
  <2> QED
    BY <2>1 DEF StartOf, ItemType
<1>2. F \in [(1..n) \X T -> T]
  <2>1. \A k \in 1..n, q \in T : Next1(k, q) \in T
    BY <1>1
  <2> HIDE DEF Next1, T
  <2> QED
    BY <2>1
<1>3. PICK G : G = F
  OBVIOUS
<1>4. PICK g : Iterates(g, G, n, T, <<>>)
  <2>1. n \in Nat /\ <<>> \in T /\ StepOn(G, n, T)
    BY <1>2, <1>3 DEF StepOn
  <2> HIDE DEF n, F, T
  <2> QED
    BY <2>1, Recursion
<1> USE DEF Iterates
<1>5. Fits(g)
  <2>1. ASSUME NEW k \in 1..n PROVE g[k] = Next1(k, g[k - 1])
    <3>1. PICK e : e = g[k - 1]
      OBVIOUS
    <3>2. e \in T
      <4>1. k - 1 \in 0..n
        OBVIOUS
      <4> HIDE DEF T, n
      <4> QED
        BY <1>4, <3>1, <4>1
    <3>3. g[k] = F[<<k, e>>]
      <4> HIDE DEF T, n, F
      <4> QED
        BY <1>3, <1>4, <3>1
    <3> HIDE DEF T, Next1
    <3> QED
      BY <3>1, <3>2, <3>3
  <2>2. g \in [0..n -> T] /\ g[0] = <<>>
    <3> HIDE DEF T, n
    <3> QED
      BY <1>4
  <2>3. \A k \in 0..n : g[k] = IF k = 0 THEN <<>> ELSE Next1(k, g[k - 1])
    <3> HIDE DEF T, Next1
    <3> QED
      BY <2>1, <2>2
  <2>4. g = [k \in 0..n |-> IF k = 0 THEN <<>> ELSE Next1(k, g[k - 1])]
    <3> HIDE DEF T, Next1
    <3> QED
      BY <2>2, <2>3
  <2> QED
    BY <2>4
<1>6. PICK f : f = CHOOSE h : Fits(h)
  OBVIOUS
<1>61. chain_roots(pg) = f[n]
  BY <1>6 DEF chain_roots
<1>8. Fits(f)
  <2> HIDE DEF Fits
  <2> QED
    BY <1>5, <1>6
<1>9. f[0] = <<>> /\ \A k \in 1..n : f[k] = Next1(k, f[k - 1])
  <2>1. f = [k \in 0..n |-> IF k = 0 THEN <<>> ELSE Next1(k, f[k - 1])]
    BY <1>8
  <2> HIDE DEF Next1, Fits
  <2>2. n \in Nat
    OBVIOUS
  <2> HIDE DEF n
  <2> QED
    BY <2>1, <2>2
<1> HIDE DEF Next1, T, F, Fits
<1> DEFINE S == {k \in Nat : k <= n => RootsUpTo(f[k], pg, k)}
<1>10. 0 \in S
  <2>1. PICK q : q = f[0]
    OBVIOUS
  <2>2. q = <<>>
    BY <1>9, <2>1
  <2>3. RootsUpTo(q, pg, 0)
    BY <2>2 DEF RootsUpTo
  <2> QED
    BY <2>1, <2>3
<1>11. ASSUME NEW k \in Nat, k \in S PROVE k + 1 \in S
  <2> SUFFICES ASSUME k + 1 <= n PROVE RootsUpTo(f[k + 1], pg, k + 1)
    OBVIOUS
  <2>1. RootsUpTo(f[k], pg, k)
    BY <1>11
  <2>2. f[k + 1] = IF IsRoot(pg, k + 1) THEN Append(f[k], <<k + 1, StartOf(pg, k + 1)>>) ELSE f[k]
    <3>1. k + 1 \in 1..n /\ (k + 1) - 1 = k
      OBVIOUS
    <3> QED
      BY <1>9, <3>1 DEF Next1
  <2> QED
    BY <2>1, <2>2, RootsNext
<1>12. n \in S
  <2>1. n \in Nat
    OBVIOUS
  <2> HIDE DEF S
  <2> QED
    BY <1>10, <1>11, <2>1, Inductive
<1> QED
  BY <1>12, <1>61

\* No transaction is half way through its commit.
Whole == \A x \in Xids : St(x) # SubCommitted

\* tuple_visible on a tuple of the page, against the history.
LEMMA VisibleIs ==
    ASSUME Shaped, Logged, Stamped, Versions, Whole, NEW c \in Tuples(page), NEW t, t = page[c].tup,
           NEW a, a = tuple_visible(clog, t)
    PROVE  /\ a \in {"yes", "no", "error"}
           /\ a = "yes" => VerAt(c) \in LiveVers(vers)
           /\ a = "no" => ~TrulyCommitted(By(VerAt(c))) \/ \E u \in UpdaterOf(c) : TrulyCommitted(u)
           /\ a = "error" => t.multi /\ ~t.lockOnly
<1>0. /\ VerAt(c) \in DOMAIN vers /\ By(VerAt(c)) = t.xmin /\ UpdaterOf(c) \subseteq Ends(VerAt(c))
      /\ \A x \in Ends(VerAt(c)) : x \in UpdaterOf(c) \/ Doomed(x)
  BY DEF Versions
<1>1. t.xmin \in Xids \cup {FROZEN_XID} /\ Ends(VerAt(c)) \subseteq Xids
  BY <1>0, VerIs
<1>2. resolve(clog, t.xmin) = Committed <=> TrulyCommitted(t.xmin)
  BY <1>1, Resolves DEF Whole
<1>3. a \in {"yes", "no", "error"} /\ (a = "error" => t.multi /\ ~t.lockOnly)
  BY DEF tuple_visible
<1>4. t.xmax \in Xids => (resolve(clog, t.xmax) = Committed <=> TrulyCommitted(t.xmax))
  BY Resolves DEF Whole
<1>5. t.xmax = INVALID_XID \/ t.lockOnly => UpdaterOf(c) = {}
  <2>1. t.xmax = INVALID_XID => ~t.multi
    BY DEF Stamped, Shaped, INVALID_XID
  <2>2. t.xmax = INVALID_XID => XmaxMembers(c) = {}
    BY <2>1, XmaxIs
  <2>3. XmaxMembers(c) = {} => UpdaterOf(c) = {}
    BY DEF UpdaterOf
  <2> QED
    BY <2>2, <2>3 DEF Stamped
<1>6. ~t.multi /\ t.xmax # INVALID_XID /\ ~t.lockOnly => t.xmax \in Xids /\ UpdaterOf(c) = {t.xmax}
  <2> SUFFICES ASSUME ~t.multi, t.xmax # INVALID_XID, ~t.lockOnly
               PROVE  t.xmax \in Xids /\ UpdaterOf(c) = {t.xmax}
    OBVIOUS
  <2>1. PICK s : s = IF t.ctid = c THEN Update ELSE NoKeyUpdate
    OBVIOUS
  <2>2. t.xmax \in Xids /\ XmaxMembers(c) = {[xid |-> t.xmax, status |-> s]}
    BY <2>1, XmaxIs
  <2>3. s \in {NoKeyUpdate, Update}
    BY <2>1
  <2>4. PICK S : S = {}
    OBVIOUS
  <2>41. PICK x : x = t.xmax
    OBVIOUS
  <2>42. UpdatersIn(S \cup {[xid |-> x, status |-> s]}) = {x}
    <3>1. \A m \in S : ~IsUpdater(m)
      BY <2>4
    <3> QED
      BY <3>1, <2>3, OneUpdater
  <2>5. S \cup {[xid |-> x, status |-> s]} = XmaxMembers(c)
    BY <2>2, <2>4, <2>41
  <2> QED
    BY <2>2, <2>41, <2>42, <2>5 DEF UpdaterOf, UpdatersIn
<1>7. ASSUME a = "yes" PROVE VerAt(c) \in LiveVers(vers)
  <2>1. TrulyCommitted(t.xmin)
    BY <1>2, <1>7 DEF tuple_visible
  <2>2. \A u \in UpdaterOf(c) : ~TrulyCommitted(u)
    BY <1>4, <1>5, <1>6, <1>7 DEF tuple_visible
  <2>3. \A x \in Ends(VerAt(c)) : ~TrulyCommitted(x)
    BY <1>0, <1>1, <2>2, Fates
  <2> QED
    BY <1>0, <2>1, <2>3 DEF LiveVers, By, Ends
<1>8. ASSUME a = "no" PROVE ~TrulyCommitted(By(VerAt(c))) \/ \E u \in UpdaterOf(c) : TrulyCommitted(u)
  BY <1>0, <1>2, <1>4, <1>6, <1>8 DEF tuple_visible
<1> QED
  BY <1>3, <1>7, <1>8

\* A live version is not dead.
LEMMA LiveIs ==
    ASSUME Shaped, Logged, NEW v \in LiveVers(vers)
    PROVE  /\ v \in DOMAIN vers /\ ~DeadVer(v) /\ TrulyCommitted(By(v)) /\ ~Doomed(By(v))
           /\ \A x \in Ends(v) : ~TrulyCommitted(x)
<1>1. v \in DOMAIN vers /\ TrulyCommitted(By(v)) /\ \A x \in Ends(v) : ~TrulyCommitted(x)
  BY DEF LiveVers, By, Ends
<1>2. By(v) \in Xids \cup {FROZEN_XID}
  BY <1>1, VerIs
<1> QED
  BY <1>1, <1>2, Fates, DeadVerIs

\* A root without a live version is vacant.
LEMMA VacantIs ==
    ASSUME NEW r \in Offnums
    PROVE  r \in Vacant(LiveRows(vers)) <=> \A v \in LiveVers(vers) : Root(v) # r
<1>1. \A v \in LiveVers(vers) : <<Root(v), v>> \in LiveRows(vers)
  BY DEF LiveRows, Root
<1>2. \A e \in LiveRows(vers) : \E v \in LiveVers(vers) : e = <<Root(v), v>>
  BY DEF LiveRows, Root
<1>3. \A v \in LiveVers(vers) : <<Root(v), v>>[1] = Root(v)
  OBVIOUS
<1>4. (\E e \in LiveRows(vers) : e[1] = r) <=> \E v \in LiveVers(vers) : Root(v) = r
  BY <1>1, <1>2, <1>3
<1> QED
  BY <1>4 DEF Vacant

\* Before a committed version of a root come committed versions that
\* committed transactions ended, and aborted ones.
LEMMA CommittedBefore ==
    ASSUME Shaped, Logged, SeenFirst, Ordered, NEW w \in DOMAIN vers, NEW v \in DOMAIN vers,
           w < v, Root(w) = Root(v), ~Doomed(By(w)), TrulyCommitted(By(v))
    PROVE  TrulyCommitted(By(w)) /\ \E y \in Ends(w) : TrulyCommitted(y)
<1>1. By(w) \in Xids \cup {FROZEN_XID} /\ By(v) \in Xids \cup {FROZEN_XID} /\ Ends(w) \subseteq Xids
  BY VerIs
<1>2. ~Doomed(By(v))
  BY <1>1, Fates
<1>3. PICK y \in Ends(w) : TrulyCommitted(y) \/ y = By(v) \/ y = Top(By(v))
  BY <1>2 DEF Ordered
<1>4. y \in Xids
  BY <1>1
<1>5. TrulyCommitted(y)
  <2>1. CASE y = Top(By(v))
    <3>1. CASE By(v) \in Xids
      BY <2>1, <3>1, Parents DEF Top
    <3>2. CASE By(v) \notin Xids
      BY <2>1, <3>2, <1>1, <1>4 DEF Top
    <3> QED
      BY <3>1, <3>2
  <2> QED
    BY <1>3, <2>1
<1>6. TrulyCommitted(By(w)) \/ Doomed(y) \/ y = By(w) \/ By(w) = SubOf[y]
  BY <1>3 DEF SeenFirst
<1>7. TrulyCommitted(By(w))
  BY <1>4, <1>5, <1>6, Fates, Parents
<1> QED
  BY <1>3, <1>5, <1>7

\* A root has one live version at most.
LEMMA OneLive ==
    ASSUME Shaped, Logged, SeenFirst, Ordered, NEW w \in LiveVers(vers), NEW v \in LiveVers(vers), Root(w) = Root(v)
    PROVE  w = v
<1>1. ASSUME NEW a \in LiveVers(vers), NEW b \in LiveVers(vers), Root(a) = Root(b), a < b PROVE FALSE
  BY <1>1, LiveIs, CommittedBefore
<1>2. w \in Nat /\ v \in Nat
  BY LiveIs, VerIs
<1> QED
  BY <1>1, <1>2

\* What visible_version does at a line pointer.
LEMMA VisitIs ==
    ASSUME NEW c \in DOMAIN page, NEW v, v = VisitStep(page, clog, c)
    PROVE  /\ v.kind \in {"none", "row", "error", "next"}
           /\ c \notin Tuples(page) => v.kind = "none"
           /\ c \in Tuples(page) =>
                LET t == page[c].tup a == tuple_visible(clog, t) IN
                /\ a = "yes" => v.kind = "row"
                /\ a = "error" => v.kind = "error"
                /\ v.kind = "row" => a = "yes" /\ v.at = c
                /\ v.kind = "error" => a = "error"
                /\ v.kind = "next" => a = "no" /\ v.at = t.ctid /\ t.hotUpdated /\ t.ctid \notin {0, c}
                /\ v.kind = "none" => a = "no" /\ ~(t.hotUpdated /\ t.ctid \notin {0, c})
<1>1. CASE c \notin Tuples(page)
  <2>1. v = Verdict("none", 0)
    BY <1>1 DEF VisitStep, Tuples
  <2> QED
    BY <1>1, <2>1 DEF Verdict
<1>2. CASE c \in Tuples(page)
  <2>1. PICK t : t = page[c].tup
    OBVIOUS
  <2>2. PICK a : a = tuple_visible(clog, t)
    OBVIOUS
  <2>3. a \in {"yes", "no", "error"}
    BY <2>2 DEF tuple_visible
  <2>4. CASE a = "yes"
    <3>1. v = Verdict("row", c)
      BY <1>2, <2>1, <2>2, <2>4 DEF VisitStep, Tuples
    <3> QED
      BY <3>1, <1>2, <2>1, <2>2, <2>4 DEF Verdict
  <2>5. CASE a = "error"
    <3>1. v = Verdict("error", 0)
      BY <1>2, <2>1, <2>2, <2>5 DEF VisitStep, Tuples
    <3> QED
      BY <3>1, <1>2, <2>1, <2>2, <2>5 DEF Verdict
  <2>6. CASE a = "no"
    <3>1. v = IF t.hotUpdated /\ t.ctid \notin {0, c} THEN Verdict("next", t.ctid) ELSE Verdict("none", 0)
      BY <1>2, <2>1, <2>2, <2>6 DEF VisitStep, Tuples
    <3> QED
      BY <3>1, <1>2, <2>1, <2>2, <2>6 DEF Verdict
  <2> QED
    BY <2>3, <2>4, <2>5, <2>6
<1> QED
  BY <1>1, <1>2

\* The walk from c finds the live version of its root, if there is one.
Heads(root, c) ==
    \A v \in DOMAIN vers : ~DeadVer(v) /\ Root(v) = root =>
        c \in Tuples(page) /\ VerAt(c) <= v /\ ~Doomed(By(VerAt(c)))

\* A chain's start heads it.
LEMMA StartHeads ==
    ASSUME PageInv, NEW r \in DOMAIN page, IsRoot(page, r), NEW c, c = StartOf(page, r)
    PROVE  c \in Tuples(page) /\ Root(VerAt(c)) = r /\ Heads(r, c)
<1> USE DEF PageInv
<1>1. c \in Tuples(page) /\ Root(VerAt(c)) = r
  BY StartTuple
<1> QED
  BY <1>1 DEF Heads, Starts

\* If the version at c has not committed then its root has no live version.
LEMMA HeadOpen ==
    ASSUME Shaped, Logged, PageInv, NEW root, NEW c, Heads(root, c), c \in Tuples(page) => Root(VerAt(c)) = root,
           c \in Tuples(page) => ~TrulyCommitted(By(VerAt(c)))
    PROVE  \A v \in LiveVers(vers) : Root(v) # root
<1> USE DEF PageInv
<1> SUFFICES ASSUME NEW v \in LiveVers(vers), Root(v) = root PROVE FALSE
  OBVIOUS
<1>1. v \in DOMAIN vers /\ ~DeadVer(v) /\ TrulyCommitted(By(v))
  BY LiveIs
<1>2. c \in Tuples(page) /\ VerAt(c) <= v /\ ~Doomed(By(VerAt(c))) /\ VerAt(c) \in DOMAIN vers
  BY <1>1 DEF Heads, Versions
<1>3. VerAt(c) # v
  BY <1>1, <1>2
<1>4. VerAt(c) < v
  BY <1>1, <1>2, <1>3, VerIs
<1> QED
  BY <1>1, <1>2, <1>4, CommittedBefore

\* If a committed transaction updated the version at c then its link heads
\* what is left of the chain.
LEMMA HeadPassed ==
    ASSUME Shaped, Logged, PageInv, NEW root, NEW c, Heads(root, c), c \in Tuples(page) => Root(VerAt(c)) = root,
           \E u \in UpdaterOf(c) : TrulyCommitted(u)
    PROVE  \A v \in DOMAIN vers : ~DeadVer(v) /\ Root(v) = root =>
              /\ page[c].tup.hotUpdated /\ page[c].tup.ctid \in Tuples(page)
              /\ page[c].tup.ctid \notin {0, c}
              /\ VerAt(page[c].tup.ctid) <= v /\ ~Doomed(By(VerAt(page[c].tup.ctid)))
<1> USE DEF PageInv
<1> SUFFICES ASSUME NEW v \in DOMAIN vers, ~DeadVer(v), Root(v) = root
             PROVE  /\ page[c].tup.hotUpdated /\ page[c].tup.ctid \in Tuples(page)
                    /\ page[c].tup.ctid \notin {0, c}
                    /\ VerAt(page[c].tup.ctid) <= v /\ ~Doomed(By(VerAt(page[c].tup.ctid)))
  OBVIOUS
<1>1. c \in Tuples(page) /\ VerAt(c) <= v /\ ~Doomed(By(VerAt(c))) /\ VerAt(c) \in DOMAIN vers
  BY DEF Heads, Versions
<1>2. \E u \in Ends(VerAt(c)) : TrulyCommitted(u)
  BY <1>1 DEF Versions
<1>3. VerAt(c) # v
  BY <1>2, DeadVerIs
<1>4. VerAt(c) < v
  BY <1>1, <1>3, VerIs
<1>5. PICK d \in Tuples(page) : Linked(c, d) /\ VerAt(d) <= v /\ ~Doomed(By(VerAt(d)))
  BY <1>1, <1>4 DEF Nexts
<1>6. d = page[c].tup.ctid /\ page[c].tup.hotUpdated
  BY <1>5 DEF Linked
<1>7. VerAt(c) < VerAt(d) /\ VerAt(d) \in DOMAIN vers
  BY <1>1, <1>5 DEF Links, Versions
<1>8. d # c
  BY <1>1, <1>7, VerIs
<1>9. d # 0
  BY <1>5 DEF Tuples, Shaped
<1> QED
  BY <1>5, <1>6, <1>8, <1>9

\* One visit: the live version, the end of a chain without one, or a link to
\* what is left of the chain.
LEMMA Visited ==
    ASSUME Shaped, Logged, PageInv, Whole, NEW root, NEW c \in DOMAIN page,
           Heads(root, c), c \in Tuples(page) => Root(VerAt(c)) = root,
           NEW v, v = VisitStep(page, clog, c)
    PROVE  /\ v.kind = "row" => v.at = c /\ c \in Tuples(page) /\ VerAt(c) \in LiveVers(vers)
           /\ v.kind = "none" => \A u \in LiveVers(vers) : Root(u) # root
           /\ v.kind = "next" =>
                 /\ c \in Tuples(page) /\ page[c].tup.hotUpdated /\ v.at = page[c].tup.ctid
                 /\ Heads(root, v.at) \/ \A u \in LiveVers(vers) : Root(u) # root
<1> USE DEF PageInv
<1>1. CASE c \notin Tuples(page)
  <2>1. v.kind = "none"
    BY <1>1, VisitIs
  <2>2. \A u \in LiveVers(vers) : Root(u) # root
    BY <1>1, LiveIs DEF Heads
  <2> QED
    BY <2>1, <2>2
<1>2. CASE c \in Tuples(page)
  <2>1. PICK t : t = page[c].tup
    OBVIOUS
  <2>2. PICK a : a = tuple_visible(clog, t)
    OBVIOUS
  <2>3. /\ a = "yes" => VerAt(c) \in LiveVers(vers)
        /\ a = "no" => ~TrulyCommitted(By(VerAt(c))) \/ \E u \in UpdaterOf(c) : TrulyCommitted(u)
    BY <1>2, <2>1, <2>2, VisibleIs
  <2>4. /\ v.kind = "row" => a = "yes" /\ v.at = c
        /\ v.kind = "next" => a = "no" /\ v.at = t.ctid /\ t.hotUpdated /\ t.ctid \notin {0, c}
        /\ v.kind = "none" => a = "no" /\ ~(t.hotUpdated /\ t.ctid \notin {0, c})
    BY <1>2, <2>1, <2>2, VisitIs
  <2>5. CASE ~TrulyCommitted(By(VerAt(c)))
    <3>1. \A u \in LiveVers(vers) : Root(u) # root
      BY <2>5, HeadOpen
    <3> QED
      BY <1>2, <2>1, <2>3, <2>4, <3>1
  <2>6. CASE \E u \in UpdaterOf(c) : TrulyCommitted(u)
    <3>1. \A w \in DOMAIN vers : ~DeadVer(w) /\ Root(w) = root =>
              /\ t.hotUpdated /\ t.ctid \in Tuples(page)
              /\ t.ctid \notin {0, c}
              /\ VerAt(t.ctid) <= w /\ ~Doomed(By(VerAt(t.ctid)))
      BY <2>1, <2>6, HeadPassed
    <3>2. Heads(root, t.ctid)
      BY <3>1 DEF Heads
    <3>3. v.kind = "none" => \A u \in LiveVers(vers) : Root(u) # root
      BY <2>4, <3>1, LiveIs
    <3> QED
      BY <1>2, <2>1, <2>3, <2>4, <3>2, <3>3
  <2>7. CASE a = "yes"
    BY <1>2, <2>1, <2>3, <2>4, <2>7
  <2>8. CASE a \notin {"yes", "no"}
    BY <2>4, <2>8
  <2> QED
    BY <2>3, <2>5, <2>6, <2>7, <2>8
<1> QED
  BY <1>1, <1>2

-----------------------------------------------------------------------------
\* The steps of an emission.

\* An emission's start.
LEMMA EmitStartEm ==
    ASSUME Shaped, Logged, PageInv, EmitStart
    PROVE  em' \in Emission /\ EmInv'
<1> USE DEF PageInv
<1>0. /\ UNCHANGED <<page, clog, offsets, members, vers>>
      /\ em' = [pc |-> "walk", todo |-> chain_roots(page), out |-> {},
              subs |-> \E x \in Xids : status_in_page(clog, x) = SubCommitted,
              intact |-> Intact,
              seen |-> LiveRows(vers), absent |-> Vacant(LiveRows(vers))]
  BY DEF EmitStart
<1>1. PICK q : q = chain_roots(page)
  OBVIOUS
<1>2. RootsUpTo(q, page, Len(page))
  BY <1>1, ChainRootsIs DEF Shaped
<1>3. DOMAIN page = 1..Len(page) /\ DOMAIN page \subseteq Offnums /\ Tuples(page) \subseteq DOMAIN page
  BY Assumed DEF Shaped, Offnums, Tuples
<1>4. /\ \A i \in DOMAIN q : /\ q[i][1] \in DOMAIN page /\ IsRoot(page, q[i][1])
                             /\ q[i][2] = StartOf(page, q[i][1]) /\ q[i][2] \in DOMAIN page
      /\ \A i, j \in DOMAIN q : i < j => q[i][1] < q[j][1]
      /\ \A o \in DOMAIN page : IsRoot(page, o) => \E i \in DOMAIN q : q[i][1] = o
  BY <1>2, <1>3, StartTuple DEF RootsUpTo
<1>5. q \in Seq(Offnums \X Offnums)
  <2>1. q \in Seq(Offnums \X (0..NSlots))
    BY <1>2 DEF RootsUpTo
  <2>2. \A i \in DOMAIN q : q[i] \in Offnums \X Offnums
    BY <1>3, <1>4, <2>1
  <2> QED
    BY <2>1, <2>2
<1>6. LiveRows(vers) \in SUBSET RowType /\ Vacant(LiveRows(vers)) \in SUBSET Offnums
  <2>1. \A v \in LiveVers(vers) : <<Root(v), v>> \in RowType
    BY VerIs DEF LiveVers, RowType
  <2> QED
    BY <2>1 DEF LiveRows, Vacant, Root
<1>7. /\ em'.pc = "walk" /\ em'.todo = q /\ em'.out = {} /\ em'.intact = Intact
      /\ em'.subs = (\E x \in Xids : status_in_page(clog, x) = SubCommitted)
      /\ em'.seen = LiveRows(vers) /\ em'.absent = Vacant(LiveRows(vers))
  BY <1>0, <1>1
<1>8. em' \in Emission
  <2>1. \E b \in BOOLEAN : b = \E x \in Xids : status_in_page(clog, x) = SubCommitted
    OBVIOUS
  <2>2. Intact \in BOOLEAN
    BY DEF Intact
  <2> QED
    BY <1>0, <1>1, <1>5, <1>6, <2>1, <2>2 DEF Emission
<1>9. LiveRows(vers)' = LiveRows(vers) /\ LiveRows(vers') = LiveRows(vers)'
  BY <1>0 DEF LiveRows, LiveVers, TrulyCommitted
<1>10. Todo'
  BY <1>0, <1>4, <1>7 DEF Todo
<1>11. Observed'
  BY <1>0, <1>7, <1>9 DEF Observed, St, Vacant
<1>12. Emitted'
  <2>1. Intact' = Intact
    BY <1>0, SameMembers DEF Intact
  <2>2. ASSUME NEW o \in Offnums, ~\E i \in DOMAIN q : q[i][1] = o PROVE o \in Vacant(LiveRows(vers))
    BY <2>2, <1>4, VacantIs, LiveIs, LiveRoot
  <2> QED
    BY <1>7, <2>1, <2>2 DEF Emitted
<1>13. Walked'
  <2> SUFFICES ASSUME q # <<>> PROVE AtHead(q[1][1], q[1][2])'
    <3>1. em'.todo[1][1] = q[1][1] /\ em'.todo[1][2] = q[1][2]
      BY <1>7
    <3> QED
      BY <1>7, <3>1 DEF Walked, AtHead
  <2>1. 1 \in DOMAIN q
    BY <1>5
  <2>2. PICK r, c : r = q[1][1] /\ c = q[1][2]
    OBVIOUS
  <2>3. c \in Tuples(page) /\ Root(VerAt(c)) = r /\ Heads(r, c)
    BY <1>4, <2>1, <2>2, StartHeads
  <2>4. Heads(r, c)' <=> Heads(r, c)
    BY <1>0 DEF Heads, DeadVer, TrulyCommitted, Alive, Doomed, St, VerAt, By, Root, Tuples
  <2>5. Root(VerAt(c))' = Root(VerAt(c))
    BY <1>0 DEF Root, VerAt
  <2> QED
    BY <2>2, <2>3, <2>4, <2>5 DEF AtHead, Heads
<1> QED
  BY <1>8, <1>10, <1>11, <1>12, <1>13 DEF EmInv

\* What depends on an emission's page only is the same after a step of it.
LEMMA EmitSame ==
    ASSUME UNCHANGED <<page, clog, offsets, members, vers>>
    PROVE  /\ Intact' = Intact /\ (Whole' <=> Whole)
           /\ LiveRows(vers)' = LiveRows(vers) /\ Vacant(LiveRows(vers))' = Vacant(LiveRows(vers))
           /\ Tuples(page)' = Tuples(page)
           /\ \A o : VerAt(o)' = VerAt(o)
           /\ \A v : Root(v)' = Root(v) /\ By(v)' = By(v)
           /\ \A r, c : Heads(r, c)' <=> Heads(r, c)
<1>1. Intact' = Intact
  BY SameMembers DEF Intact
<1>2. LiveRows(vers)' = LiveRows(vers)
  BY DEF LiveRows, LiveVers, TrulyCommitted
<1>3. \A r, c : Heads(r, c)' <=> Heads(r, c)
  BY DEF Heads, DeadVer, TrulyCommitted, Alive, Doomed, St, VerAt, By, Root, Tuples
<1>4. Vacant(LiveRows(vers))' = Vacant(LiveRows(vers))
  BY <1>2 DEF Vacant
<1> QED
  BY <1>1, <1>2, <1>3, <1>4 DEF Whole, St, Tuples, VerAt, Root, By

\* The head of the list moves along its chain.
LEMMA EmitNext ==
    ASSUME Shaped, Logged, PageInv, em \in Emission, EmInv, em.pc = "walk", em.todo # <<>>,
           UNCHANGED <<page, clog, offsets, members, vers>>,
           NEW v, v = VisitStep(page, clog, em.todo[1][2]), v.kind = "next",
           em' = [em EXCEPT !.todo[1][2] = v.at]
    PROVE  em' \in Emission /\ EmInv'
<1> USE DEF PageInv, EmInv
<1>1. PICK q : q = em.todo
  OBVIOUS
<1>2. PICK r, c : r = q[1][1] /\ c = q[1][2]
  OBVIOUS
<1>3. q \in Seq(Offnums \X Offnums) /\ 1 \in DOMAIN q /\ q[1] \in Offnums \X Offnums /\ q[1] = <<r, c>>
  BY <1>1, <1>2 DEF Emission
<1>4. r \in DOMAIN page /\ IsRoot(page, r) /\ c \in DOMAIN page
  BY <1>1, <1>2, <1>3 DEF Todo
<1>5. c \in Tuples(page) /\ page[c].tup.hotUpdated /\ v.at = page[c].tup.ctid
  BY <1>1, <1>2, <1>4, VisitIs
<1>6. v.at \in DOMAIN page /\ v.at \in Offnums
  <2>1. v.at \in DOMAIN page
    BY <1>5 DEF Links
  <2> QED
    BY <2>1, Assumed DEF Shaped, Offnums
<1>7. PICK q1 : q1 = [q EXCEPT ![1] = <<r, v.at>>]
  OBVIOUS
<1>8. /\ q1 \in Seq(Offnums \X Offnums) /\ DOMAIN q1 = DOMAIN q /\ q1[1] = <<r, v.at>>
      /\ \A i \in DOMAIN q : i # 1 => q1[i] = q[i]
      /\ \A i \in DOMAIN q : q1[i][1] = q[i][1]
  <2>1. <<r, v.at>> \in Offnums \X Offnums
    BY <1>3, <1>6
  <2>2. q1 \in Seq(Offnums \X Offnums) /\ DOMAIN q1 = DOMAIN q /\ q1[1] = <<r, v.at>>
        /\ \A i \in DOMAIN q : i # 1 => q1[i] = q[i]
    BY <1>3, <1>7, <2>1
  <2>3. q1[1][1] = q[1][1]
    BY <1>2, <2>2
  <2> QED
    BY <2>2, <2>3
<1>9. em' = [em EXCEPT !.todo = q1]
  <2>1. [q[1] EXCEPT ![2] = v.at] = <<r, v.at>>
    BY <1>3
  <2>2. [q EXCEPT ![1] = [q[1] EXCEPT ![2] = v.at]] = q1
    BY <1>7, <2>1
  <2>3. em' = [em EXCEPT !.todo = [em.todo EXCEPT ![1] = [em.todo[1] EXCEPT ![2] = v.at]]]
    BY DEF Emission
  <2> QED
    BY <1>1, <2>2, <2>3
<1>10. /\ em' \in Emission /\ em'.todo = q1 /\ em'.pc = em.pc /\ em'.subs = em.subs /\ em'.intact = em.intact
       /\ em'.seen = em.seen /\ em'.absent = em.absent /\ em'.out = em.out
  BY <1>8, <1>9 DEF Emission
<1>11. Todo'
  BY <1>1, <1>6, <1>8, <1>10, <1>3 DEF Todo
<1>12. Observed'
  BY <1>10, EmitSame DEF Observed, Whole
<1>13. Emitted'
  <2> SUFFICES ASSUME ~em.subs, em.intact
               PROVE  /\ Intact' /\ em.out \subseteq em.seen
                      /\ \A a, b \in em.out : a[1] = b[1] => a = b
                      /\ \A a \in em.out, i \in DOMAIN q1 : q1[i][1] # a[1]
                      /\ \A o \in Offnums : \/ \E i \in DOMAIN q1 : q1[i][1] = o
                                            \/ \E a \in em.out : a[1] = o
                                            \/ o \in em.absent
    BY <1>10 DEF Emitted
  <2>1. /\ Intact /\ em.out \subseteq em.seen
        /\ \A a, b \in em.out : a[1] = b[1] => a = b
        /\ \A a \in em.out, i \in DOMAIN q : q[i][1] # a[1]
        /\ \A o \in Offnums : \/ \E i \in DOMAIN q : q[i][1] = o
                              \/ \E a \in em.out : a[1] = o
                              \/ o \in em.absent
    BY <1>1 DEF Emitted
  <2>2. \A a \in em.out, i \in DOMAIN q1 : q1[i][1] # a[1]
    BY <1>8, <2>1
  <2>3. ASSUME NEW o \in Offnums
        PROVE  \/ \E i \in DOMAIN q1 : q1[i][1] = o
               \/ \E a \in em.out : a[1] = o
               \/ o \in em.absent
    BY <1>8, <2>1
  <2> QED
    BY <2>1, <2>2, <2>3, EmitSame
<1>14. Walked'
  <2> SUFFICES ASSUME ~em.subs, em.intact PROVE AtHead(r, v.at)'
    <3>1. em'.todo[1][1] = r /\ em'.todo[1][2] = v.at
      BY <1>8, <1>10
    <3> QED
      BY <1>10, <3>1 DEF Walked, AtHead
  <2>1. AtHead(r, c) /\ Intact /\ Whole /\ Vacant(LiveRows(vers)) \subseteq em.absent
    BY <1>1, <1>2 DEF Walked, Observed, Emitted, Whole
  <2>2. Root(VerAt(c)) = r /\ (r \in em.absent \/ Heads(r, c))
    BY <1>5, <2>1 DEF AtHead, Heads
  <2>3. v.at \in Tuples(page) => Root(VerAt(v.at)) = r
    <3> SUFFICES ASSUME v.at \in Tuples(page) PROVE Root(VerAt(v.at)) = r
      OBVIOUS
    <3>1. page[v.at].tup.xmin \in UpdaterOf(c)
      BY <1>5, <2>1 DEF Intact, Tuples
    <3>2. Linked(c, v.at)
      BY <1>5, <3>1 DEF Linked
    <3> QED
      BY <1>5, <2>2, <3>2 DEF Links
  <2>4. r \in em.absent \/ Heads(r, v.at)
    <3> SUFFICES ASSUME Heads(r, c) PROVE r \in em.absent \/ Heads(r, v.at)
      BY <2>2
    <3>1. Heads(r, v.at) \/ \A u \in LiveVers(vers) : Root(u) # r
      BY <1>1, <1>2, <1>4, <2>1, <2>2, Visited
    <3> QED
      BY <1>3, <2>1, <3>1, VacantIs
  <2>5. AtHead(r, v.at)
    BY <2>3, <2>4 DEF AtHead, Heads
  <2> QED
    BY <2>3, <2>4, <1>10, EmitSame DEF AtHead, Heads
<1> QED
  BY <1>10, <1>11, <1>12, <1>13, <1>14

\* The head of the list is done, with its row or without one.
LEMMA EmitTail ==
    ASSUME Shaped, Logged, PageInv, em \in Emission, EmInv, em.pc = "walk", em.todo # <<>>,
           UNCHANGED <<page, clog, offsets, members, vers>>,
           NEW v, v = VisitStep(page, clog, em.todo[1][2]), v.kind \in {"row", "none"},
           NEW O, O = IF v.kind = "row" THEN {<<em.todo[1][1], page[v.at].tup.ver>>} ELSE {},
           em' = [em EXCEPT !.todo = Tail(em.todo), !.out = em.out \cup O]
    PROVE  em' \in Emission /\ EmInv'
<1> USE DEF PageInv, EmInv
<1>1. PICK q : q = em.todo
  OBVIOUS
<1>2. PICK r, c : r = q[1][1] /\ c = q[1][2]
  OBVIOUS
<1>3. q \in Seq(Offnums \X Offnums) /\ 1 \in DOMAIN q /\ q[1] \in Offnums \X Offnums /\ q[1] = <<r, c>>
  BY <1>1, <1>2, SMTT(30) DEF Emission
<1>4. r \in DOMAIN page /\ IsRoot(page, r) /\ c \in DOMAIN page /\ r \in Offnums
  BY <1>1, <1>2, <1>3 DEF Todo
<1>5. v.kind = "row" => c \in Tuples(page) /\ v.at = c /\ O = {<<r, VerAt(c)>>} /\ <<r, VerAt(c)>> \in RowType
  <2>1. v.kind = "row" => c \in Tuples(page) /\ v.at = c
    BY <1>1, <1>2, <1>4, VisitIs
  <2>2. c \in Tuples(page) => VerAt(c) \in 1..MaxVers
    BY VerIs DEF Versions
  <2> QED
    BY <1>1, <1>2, <1>4, <2>1, <2>2 DEF VerAt, RowType
<1>6. PICK q1 : q1 = Tail(q)
  OBVIOUS
<1>7. /\ q1 \in Seq(Offnums \X Offnums)
      /\ \A i \in DOMAIN q1 : i \in Nat /\ i >= 1 /\ i + 1 \in DOMAIN q /\ q1[i] = q[i + 1]
      /\ \A i \in DOMAIN q : i # 1 => \E j \in DOMAIN q1 : q1[j] = q[i] /\ i = j + 1
  <2>1. q1 \in Seq(Offnums \X Offnums) /\ Len(q1) = Len(q) - 1 /\ Len(q) \in Nat
    BY <1>3, <1>6, SMTT(30)
  <2>2. \A i \in DOMAIN q1 : i \in Nat /\ i >= 1 /\ i + 1 \in DOMAIN q /\ q1[i] = q[i + 1]
    BY <1>3, <1>6, <2>1, SMTT(30)
  <2>3. \A i \in DOMAIN q : i # 1 => (i - 1) \in DOMAIN q1 /\ q1[i - 1] = q[i] /\ i = (i - 1) + 1
    BY <1>3, <1>6, <2>1, SMTT(30)
  <2> QED
    BY <2>1, <2>2, <2>3
<1>8. /\ em' \in Emission /\ em'.todo = q1 /\ em'.pc = em.pc /\ em'.subs = em.subs /\ em'.intact = em.intact
      /\ em'.seen = em.seen /\ em'.absent = em.absent /\ em'.out = em.out \cup O
  <2>1. PICK out1 : out1 = em.out \cup O
    OBVIOUS
  <2>2. em' = [em EXCEPT !.todo = q1, !.out = out1]
    BY <1>1, <1>6, <2>1
  <2>3. O \subseteq RowType
    <3>1. v.kind = "none" => O = {}
      OBVIOUS
    <3> QED
      BY <1>5, <3>1
  <2>4. out1 \subseteq RowType
    BY <2>1, <2>3 DEF Emission
  <2>5. em' \in Emission /\ em'.out = out1
    BY <1>7, <2>2, <2>4 DEF Emission
  <2> QED
    BY <2>1, <2>2, <2>5 DEF Emission
<1>9. /\ \A i \in DOMAIN q : /\ q[i][1] \in DOMAIN page /\ IsRoot(page, q[i][1])
                             /\ q[i][2] \in DOMAIN page
                             /\ i # 1 => q[i][2] = StartOf(page, q[i][1])
      /\ \A i, j \in DOMAIN q : i < j => q[i][1] < q[j][1]
  BY <1>1 DEF Todo
<1>91. /\ \A i \in DOMAIN q1 : /\ q1[i][1] \in DOMAIN page /\ IsRoot(page, q1[i][1])
                               /\ q1[i][2] \in DOMAIN page
                               /\ q1[i][2] = StartOf(page, q1[i][1])
                               /\ q1[i][1] # r
       /\ \A i, j \in DOMAIN q1 : i < j => q1[i][1] < q1[j][1]
  <2>1. \A i \in DOMAIN q1 : /\ q1[i][1] \in DOMAIN page /\ IsRoot(page, q1[i][1])
                             /\ q1[i][2] \in DOMAIN page
                             /\ q1[i][2] = StartOf(page, q1[i][1])
    <3>1. \A i \in DOMAIN q1 : i + 1 # 1
      BY <1>7, SMTT(30)
    <3> QED
      BY <1>7, <1>9, <3>1
  <2>2. \A i, j \in DOMAIN q1 : i < j => q1[i][1] < q1[j][1]
    <3>1. \A i, j \in DOMAIN q1 : i < j => i + 1 < j + 1
      BY <1>7, SMTT(30)
    <3> QED
      BY <1>7, <1>9, <3>1
  <2>3. \A i \in DOMAIN q1 : q1[i][1] # r
    <3>1. \A i \in DOMAIN q1 : 1 < i + 1
      BY <1>7, SMTT(30)
    <3>2. \A i \in DOMAIN q : 1 < i => r < q[i][1]
      BY <1>2, <1>3, <1>9
    <3>3. \A i \in DOMAIN q : q[i][1] \in Nat
      BY <1>9, SMTT(30) DEF Shaped
    <3> QED
      BY <1>4, <1>7, <3>1, <3>2, <3>3, SMTT(30) DEF Offnums
  <2> QED
    BY <2>1, <2>2, <2>3
<1>11. Todo'
  BY <1>8, <1>91 DEF Todo
<1>12. Observed'
  BY <1>8, EmitSame DEF Observed, Whole
<1>13. Emitted'
  <2> SUFFICES ASSUME ~em.subs, em.intact
               PROVE  /\ Intact' /\ em'.out \subseteq em'.seen
                      /\ \A a, b \in em'.out : a[1] = b[1] => a = b
                      /\ \A a \in em'.out, i \in DOMAIN em'.todo : em'.todo[i][1] # a[1]
                      /\ \A o \in Offnums : \/ \E i \in DOMAIN em'.todo : em'.todo[i][1] = o
                                            \/ \E a \in em'.out : a[1] = o
                                            \/ o \in em'.absent
    BY <1>8 DEF Emitted
  <2>1. AtHead(r, c) /\ Intact /\ Whole /\ LiveRows(vers) \subseteq em.seen /\ Vacant(LiveRows(vers)) \subseteq em.absent
    BY <1>1, <1>2 DEF Walked, Observed, Emitted, Whole
  <2>2. (c \in Tuples(page) => Root(VerAt(c)) = r) /\ (r \in em.absent \/ Heads(r, c))
    BY <2>1 DEF AtHead, Heads
  <2>3. v.kind = "row" => <<r, VerAt(c)>> \in em.seen
    <3> SUFFICES ASSUME v.kind = "row" PROVE <<r, VerAt(c)>> \in em.seen
      OBVIOUS
    <3>1. tuple_visible(clog, page[c].tup) = "yes" /\ c \in Tuples(page)
      BY <1>1, <1>2, <1>4, VisitIs, SMTT(30)
    <3>2. VerAt(c) \in LiveVers(vers)
      BY <2>1, <3>1, VisibleIs
    <3>3. <<Root(VerAt(c)), VerAt(c)>> \in LiveRows(vers)
      BY <3>2 DEF LiveRows, Root
    <3> QED
      BY <2>1, <2>2, <3>1, <3>3
  <2>4. v.kind = "none" => r \in em.absent
    <3> SUFFICES ASSUME v.kind = "none", Heads(r, c) PROVE r \in em.absent
      BY <2>2
    <3>1. \A u \in LiveVers(vers) : Root(u) # r
      BY <1>1, <1>2, <1>4, <2>1, <2>2, Visited
    <3> QED
      BY <1>4, <2>1, <3>1, VacantIs
  <2>45. PICK row : row = <<r, VerAt(c)>>
    OBVIOUS
  <2>46. row[1] = r
    BY <2>45
  <2>5. /\ \A e \in O : v.kind = "row" /\ e = row /\ e[1] = r
        /\ v.kind = "row" => row \in O
    <3>1. CASE v.kind = "row"
      <4>1. O = {row}
        BY <1>5, <2>45, <3>1
      <4> QED
        BY <2>46, <3>1, <4>1
    <3>2. CASE v.kind = "none"
      BY <3>2
    <3> QED
      BY <3>1, <3>2
  <2>6. /\ em.out \subseteq em.seen
        /\ \A a, b \in em.out : a[1] = b[1] => a = b
        /\ \A a \in em.out, i \in DOMAIN q : q[i][1] # a[1]
        /\ \A o \in Offnums : \/ \E i \in DOMAIN q : q[i][1] = o
                              \/ \E a \in em.out : a[1] = o
                              \/ o \in em.absent
    BY <1>1 DEF Emitted
  <2>7. em.out \cup O \subseteq em.seen
    BY <2>3, <2>45, <2>5, <2>6
  <2>71. \A a \in em.out : a[1] # r
    BY <1>2, <1>3, <2>6
  <2>8. \A a, b \in em.out \cup O : a[1] = b[1] => a = b
    <3>1. \A a, b \in em.out : a[1] = b[1] => a = b
      BY <2>6
    <3>2. \A e \in O : e = row /\ e[1] = r
      BY <2>5
    <3>3. ASSUME NEW a \in em.out \cup O, NEW b \in em.out \cup O, a[1] = b[1] PROVE a = b
      <4>1. CASE a \in O /\ b \in O
        BY <3>2, <4>1
      <4>2. CASE a \in em.out /\ b \in em.out
        BY <3>1, <3>3, <4>2
      <4>3. CASE a \in O /\ b \in em.out
        <5>1. a[1] = r /\ b[1] # r
          BY <2>71, <3>2, <4>3
        <5> QED
          BY <3>3, <5>1
      <4>4. CASE a \in em.out /\ b \in O
        <5>1. b[1] = r /\ a[1] # r
          BY <2>71, <3>2, <4>4
        <5> QED
          BY <3>3, <5>1
      <4> QED
        BY <4>1, <4>2, <4>3, <4>4
    <3> QED
      BY <3>3
  <2>9. \A a \in em.out \cup O, i \in DOMAIN q1 : q1[i][1] # a[1]
    <3>1. \A a \in em.out, i \in DOMAIN q1 : q1[i][1] # a[1]
      BY <1>7, <2>6, SMTT(30)
    <3>2. \A a \in O, i \in DOMAIN q1 : q1[i][1] # a[1]
      BY <1>91, <2>5
    <3> QED
      BY <3>1, <3>2
  <2>10. ASSUME NEW o \in Offnums
         PROVE  \/ \E i \in DOMAIN q1 : q1[i][1] = o
                \/ \E a \in em.out \cup O : a[1] = o
                \/ o \in em.absent
    <3>1. CASE \E i \in DOMAIN q : i # 1 /\ q[i][1] = o
      BY <1>7, <3>1, ZenonT(60)
    <3>2. CASE o = r
      <4>1. v.kind = "row" => \E a \in O : a[1] = o
        BY <2>46, <2>5, <3>2
      <4> QED
        BY <2>4, <3>2, <4>1
    <3> QED
      BY <1>2, <2>6, <3>1, <3>2
  <2> QED
    BY <1>8, <2>1, <2>7, <2>8, <2>9, <2>10, EmitSame, ZenonT(60)
<1>14. Walked'
  <2> SUFFICES ASSUME q1 # <<>> PROVE AtHead(q1[1][1], q1[1][2])'
    <3>1. em'.todo[1][1] = q1[1][1] /\ em'.todo[1][2] = q1[1][2]
      BY <1>8
    <3> QED
      BY <1>8, <3>1 DEF Walked, AtHead
  <2>1. 1 \in DOMAIN q1
    BY <1>7, SMTT(30)
  <2>2. PICK a, b : a = q1[1][1] /\ b = q1[1][2]
    OBVIOUS
  <2>3. b \in Tuples(page) /\ Root(VerAt(b)) = a /\ Heads(a, b)
    BY <1>91, <2>1, <2>2, StartHeads
  <2> QED
    BY <2>2, <2>3, EmitSame DEF AtHead, Heads
<1> QED
  BY <1>8, <1>11, <1>12, <1>13, <1>14

\* One step of visible_version's loop.
LEMMA EmitStepEm ==
    ASSUME Shaped, Logged, PageInv, em \in Emission, EmInv, EmitStep
    PROVE  em' \in Emission /\ EmInv'
<1>1. PICK v : v = VisitStep(page, clog, em.todo[1][2])
  OBVIOUS
<1>2. /\ em.pc = "walk" /\ em.todo # <<>> /\ UNCHANGED <<page, clog, offsets, members, vers>>
      /\ em' = CASE v.kind = "next"  -> [em EXCEPT !.todo[1][2] = v.at]
                   [] v.kind = "row"   -> [em EXCEPT !.todo = Tail(@),
                        !.out = @ \cup {<<em.todo[1][1], page[v.at].tup.ver>>}]
                   [] v.kind = "none"  -> [em EXCEPT !.todo = Tail(@)]
                   [] v.kind = "error" -> [em EXCEPT !.pc = "failed"]
  BY <1>1, Zenon DEF EmitStep
<1>3. v.kind \in {"none", "row", "error", "next"}
  <2>1. em.todo \in Seq(Offnums \X Offnums)
    BY DEF Emission
  <2>2. 1 \in DOMAIN em.todo
    BY <1>2, <2>1
  <2>3. em.todo[1][2] \in DOMAIN page
    BY <2>2 DEF EmInv, Todo
  <2> QED
    BY <1>1, <2>3, VisitIs
<1>4. CASE v.kind = "next"
  <2>1. em' = [em EXCEPT !.todo[1][2] = v.at]
    BY <1>2, <1>4
  <2> QED
    BY <1>1, <1>2, <1>4, <2>1, EmitNext
<1>5. CASE v.kind \in {"row", "none"}
  <2>1. PICK O : O = IF v.kind = "row" THEN {<<em.todo[1][1], page[v.at].tup.ver>>} ELSE {}
    OBVIOUS
  <2>2. em' = [em EXCEPT !.todo = Tail(em.todo), !.out = em.out \cup O]
    <3>1. CASE v.kind = "row"
      <4>1. O = {<<em.todo[1][1], page[v.at].tup.ver>>}
        BY <2>1, <3>1
      <4>2. em' = [em EXCEPT !.todo = Tail(@), !.out = @ \cup {<<em.todo[1][1], page[v.at].tup.ver>>}]
        BY <1>2, <3>1
      <4> QED
        BY <4>1, <4>2
    <3>2. CASE v.kind = "none"
      <4>1. O = {} /\ em.out \cup O = em.out
        BY <2>1, <3>2
      <4>2. em' = [em EXCEPT !.todo = Tail(@)]
        BY <1>2, <3>2
      <4> QED
        BY <4>1, <4>2 DEF Emission
    <3> QED
      BY <1>5, <3>1, <3>2
  <2> QED
    BY <1>1, <1>2, <1>5, <2>1, <2>2, EmitTail
<1>6. CASE v.kind = "error"
  <2>1. em' = [em EXCEPT !.pc = "failed"]
    BY <1>2, <1>6
  <2>2. em' \in Emission /\ em'.pc = "failed" /\ em'.todo = em.todo
    BY <2>1 DEF Emission
  <2> QED
    BY <1>2, <2>2 DEF EmInv, Todo, Observed, Emitted, Walked
<1> QED
  BY <1>3, <1>4, <1>5, <1>6

\* The end of an emission.
LEMMA EmitDoneEm ==
    ASSUME em \in Emission, EmInv, EmitDone
    PROVE  em' \in Emission /\ EmInv'
<1>1. /\ em.pc = "walk" /\ em.todo = <<>> /\ UNCHANGED <<page, clog, offsets, members, vers>>
      /\ em' = [em EXCEPT !.pc = "done"]
  BY DEF EmitDone
<1>2. /\ em' \in Emission /\ em'.pc = "done" /\ em'.todo = em.todo /\ em'.subs = em.subs /\ em'.intact = em.intact
      /\ em'.seen = em.seen /\ em'.absent = em.absent /\ em'.out = em.out
  BY <1>1 DEF Emission
<1>3. Todo'
  BY <1>1, <1>2 DEF Todo, EmInv
<1>4. Observed' /\ Walked'
  BY <1>2 DEF Observed, Walked
<1>5. Emitted'
  BY <1>1, <1>2, EmitSame DEF Emitted, EmInv
<1> QED
  BY <1>2, <1>3, <1>4, <1>5 DEF EmInv

-----------------------------------------------------------------------------
\* The steps of the log during an emission.

\* The emission observed the rows after a step of the log.
Watches ==
    /\ em'.pc = em.pc /\ em'.todo = em.todo /\ em'.out = em.out /\ em'.intact = em.intact
    /\ em.seen \subseteq em'.seen /\ em.absent \subseteq em'.absent
    /\ em.pc = "walk" /\ ~em'.subs =>
          /\ ~em.subs /\ Whole'
          /\ LiveRows(vers)' \subseteq em'.seen /\ Vacant(LiveRows(vers))' \subseteq em'.absent

\* What heads a chain still does.
LEMMA HeadsStill ==
    ASSUME Shaped, Logged, PageInv, Logged', Final, UNCHANGED <<page, offsets, members, vers>>,
           NEW root, NEW c, Heads(root, c), c \in Tuples(page) => Root(VerAt(c)) = root
    PROVE  Heads(root, c)'
<1> USE DEF PageInv
<1>0. Shaped'
  BY DEF Shaped
<1>1. /\ Tuples(page)' = Tuples(page) /\ \A o : VerAt(o)' = VerAt(o)
      /\ \A v : By(v)' = By(v) /\ Root(v)' = Root(v)
  BY DEF Tuples, VerAt, By, Root
<1>2. ASSUME NEW v \in DOMAIN vers, ~DeadVer(v)', Root(v) = root
      PROVE  \E w \in DOMAIN vers : w = VerAt(c) /\ c \in Tuples(page) /\ w <= v /\ ~Doomed(By(w))'
  <2>1. ~DeadVer(v)
    BY <1>0, <1>2, DeadFinal
  <2>2. c \in Tuples(page) /\ VerAt(c) <= v /\ ~Doomed(By(VerAt(c))) /\ VerAt(c) \in DOMAIN vers
    BY <1>2, <2>1 DEF Heads, Versions
  <2>3. PICK w \in DOMAIN vers : w = VerAt(c)
    BY <2>2
  <2>4. PICK a, b : a = By(w) /\ b = By(v)
    OBVIOUS
  <2>5. ~Doomed(b)'
    <3>1. v \in DOMAIN vers' /\ DeadIs'
      BY <1>0, DeadIsNext
    <3> QED
      BY <2>4, <3>1, <1>1, <1>2 DEF DeadIs
  <2>6. w = v \/ w < v
    BY <2>2, <2>3, VerIs
  <2>7. ~Doomed(a)'
    <3>1. w < v => \A e : e = By(w) => ~Doomed(e)'
      BY <1>2, <2>2, <2>3, <2>4, <2>5, Outlived
    <3> QED
      BY <2>4, <2>5, <2>6, <3>1
  <2> QED
    BY <1>1, <2>2, <2>3, <2>4, <2>7
<1> QED
  BY <1>1, <1>2 DEF Heads

\* An emission in progress, or none, after a step of the log.
LEMMA WatchedEm ==
    ASSUME Shaped, Logged, PageInv, Logged', Final, UNCHANGED <<page, offsets, members, vers>>,
           EmInv, em.pc \in {"idle", "walk"}, Watches
    PROVE  EmInv'
<1> USE DEF EmInv
<1>1. Todo'
  BY DEF Todo, Watches
<1>2. Observed'
  BY DEF Observed, Watches, Whole
<1>3. Emitted'
  <2> SUFFICES ASSUME em.pc = "walk", ~em.subs, em.intact, ~em'.subs
               PROVE  /\ Intact' /\ em.out \subseteq em'.seen
                      /\ \A a, b \in em.out : a[1] = b[1] => a = b
                      /\ \A a \in em.out, i \in DOMAIN em.todo : em.todo[i][1] # a[1]
                      /\ \A o \in Offnums : \/ \E i \in DOMAIN em.todo : em.todo[i][1] = o
                                            \/ \E a \in em.out : a[1] = o
                                            \/ o \in em'.absent
    BY DEF Emitted, Watches
  <2>1. Intact' = Intact
    BY SameMembers DEF Intact
  <2> QED
    BY <2>1 DEF Emitted, Watches
<1>4. Walked'
  <2> SUFFICES ASSUME em.pc = "walk", ~em.subs, em.intact, ~em'.subs, em.todo # <<>>,
                      NEW r, r = em.todo[1][1], NEW c, c = em.todo[1][2]
               PROVE  AtHead(r, c)'
    BY DEF Walked, Watches, AtHead
  <2>1. (c \in Tuples(page) => Root(VerAt(c)) = r) /\ (r \in em.absent \/ Heads(r, c))
    BY DEF Walked, AtHead, Heads
  <2>2. Tuples(page)' = Tuples(page) /\ Root(VerAt(c))' = Root(VerAt(c))
    BY DEF Tuples, Root, VerAt
  <2>3. r \in em'.absent \/ Heads(r, c)'
    <3>1. CASE r \in em.absent
      BY <3>1 DEF Watches
    <3>2. CASE Heads(r, c)
      BY <2>1, <3>2, HeadsStill
    <3> QED
      BY <2>1, <3>1, <3>2
  <2> QED
    BY <2>1, <2>2, <2>3 DEF AtHead, Heads
<1> QED
  BY <1>1, <1>2, <1>3, <1>4

\* The live rows follow the fates.
LEMMA SameLive ==
    ASSUME Shaped, vers' = vers, \A x \in Xids \cup {FROZEN_XID} : TrulyCommitted(x)' <=> TrulyCommitted(x)
    PROVE  LiveRows(vers)' = LiveRows(vers) /\ Vacant(LiveRows(vers))' = Vacant(LiveRows(vers))
<1>1. \A v \in DOMAIN vers : vers[v].by \in Xids \cup {FROZEN_XID} /\ vers[v].ends \subseteq Xids
  BY VerIs DEF By, Ends
<1>2. LiveVers(vers)' = LiveVers(vers)
  BY <1>1 DEF LiveVers
<1> QED
  BY <1>2 DEF LiveRows, Vacant

\* A log entry becomes a half-way one only in SubCommit.
LEMMA WholeStill ==
    ASSUME Logged, Whole, NEW S, S \subseteq Xids, NEW st \in {0, 1, 2}, clog' = SetStatus(clog, S, st)
    PROVE  Whole'
<1>1. StatusMap' = [x \in Xids |-> IF x \in S THEN st ELSE StatusMap[x]]
  BY LogStep
<1>2. \A x \in Xids : St(x)' = IF x \in S THEN st ELSE St(x)
  BY <1>1 DEF StatusMap
<1> QED
  BY <1>2 DEF Whole, SubCommitted

\* SubCommit marks the emission.
LEMMA SubCommitEm ==
    ASSUME Shaped, Logged, PageInv, em \in Emission, EmInv, NEW t \in TopLevel, SubCommit(t)
    PROVE  em' \in Emission /\ EmInv'
<1>1. Logged' /\ Final
  BY SubCommitFate
<1>2. /\ UNCHANGED <<page, offsets, members, vers>> /\ em.pc \in {"idle", "walk"}
      /\ em' = [em EXCEPT !.subs = em.pc = "walk"]
  BY DEF SubCommit, Running
<1>3. em' \in Emission /\ Watches
  <2>1. PICK b \in BOOLEAN : b = (em.pc = "walk")
    OBVIOUS
  <2>2. em' = [em EXCEPT !.subs = b]
    BY <1>2, <2>1
  <2>3. /\ em' \in Emission /\ em'.subs = b
        /\ em'.pc = em.pc /\ em'.todo = em.todo /\ em'.out = em.out /\ em'.intact = em.intact
        /\ em'.seen = em.seen /\ em'.absent = em.absent
    BY <2>2 DEF Emission
  <2> QED
    BY <2>1, <2>3 DEF Watches
<1> QED
  BY <1>1, <1>2, <1>3, WatchedEm

\* A commit during an emission: it observes the rows after it.
LEMMA CommitEm ==
    ASSUME Shaped, Logged, PageInv, em \in Emission, EmInv, NEW t \in TopLevel, Commit(t)
    PROVE  em' \in Emission /\ EmInv'
<1>1. /\ Logged' /\ Final
      /\ \A x \in Xids \cup {FROZEN_XID} : TrulyCommitted(x)' <=>
            TrulyCommitted(x) \/ (x \in Xids /\ SubOf[x] = t /\ St(x) # Aborted)
  BY CommitFate
<1>2. /\ UNCHANGED <<page, offsets, members, vers>> /\ em.pc \in {"idle", "walk"}
      /\ em' = IF em.pc # "walk" THEN em ELSE Observe(em, CommittedBy(vers, t))
      /\ clog' = SetStatus(clog, {t} \cup (Children(t) \ Apart(t)), Committed)
  BY DEF Commit, Running
<1>3. CASE em.pc = "walk"
  <2>1. PICK R : R = CommittedBy(vers, t)
    OBVIOUS
  <2>2. LiveRows(vers)' = R
    <3>1. \A v \in DOMAIN vers : vers[v].by \in Xids \cup {FROZEN_XID} /\ vers[v].ends \subseteq Xids
      BY VerIs DEF By, Ends
    <3>2. \A v \in DOMAIN vers :
              v \in LiveVers(vers)' <=>
              /\ TrulyCommitted(vers[v].by) \/ (vers[v].by \in Xids /\ SubOf[vers[v].by] = t /\ status_in_page(clog, vers[v].by) # Aborted)
              /\ ~\E x \in vers[v].ends : TrulyCommitted(x) \/ (x \in Xids /\ SubOf[x] = t /\ status_in_page(clog, x) # Aborted)
      BY <1>1, <1>2, <3>1 DEF LiveVers, St
    <3>3. LiveVers(vers)' = {u \in DOMAIN vers :
              /\ TrulyCommitted(vers[u].by) \/ (vers[u].by \in Xids /\ SubOf[vers[u].by] = t /\ status_in_page(clog, vers[u].by) # Aborted)
              /\ ~\E x \in vers[u].ends : TrulyCommitted(x) \/ (x \in Xids /\ SubOf[x] = t /\ status_in_page(clog, x) # Aborted)}
      <4>1. LiveVers(vers)' \subseteq DOMAIN vers
        BY <1>2 DEF LiveVers
      <4> QED
        BY <3>2, <4>1
    <3>4. LiveRows(vers)' = {<<vers[v].root, v>> : v \in LiveVers(vers)'}
      BY <1>2 DEF LiveRows
    <3> QED
      BY <2>1, <3>3, <3>4, Zenon DEF CommittedBy
  <2>3. R \subseteq RowType
    <3>1. \A v \in DOMAIN vers : <<vers[v].root, v>> \in RowType
      BY VerIs DEF Root, RowType
    <3> QED
      BY <2>1, <3>1 DEF CommittedBy
  <2>4. PICK seen1, absent1 : seen1 = em.seen \cup R /\ absent1 = em.absent \cup Vacant(R)
    OBVIOUS
  <2>5. em' = [em EXCEPT !.seen = seen1, !.absent = absent1]
    BY <1>2, <1>3, <2>1, <2>4 DEF Observe
  <2>6. seen1 \subseteq RowType /\ absent1 \subseteq Offnums
    BY <2>3, <2>4 DEF Emission, Vacant
  <2>7. /\ em' \in Emission /\ em'.seen = seen1 /\ em'.absent = absent1
        /\ em'.pc = em.pc /\ em'.todo = em.todo /\ em'.out = em.out /\ em'.intact = em.intact /\ em'.subs = em.subs
    BY <2>5, <2>6 DEF Emission
  <2>8. ~em.subs => Whole'
    <3>1. ~em.subs => Whole
      BY <1>3 DEF EmInv, Observed, Whole
    <3>2. {t} \cup (Children(t) \ Apart(t)) \subseteq Xids
      BY DEF TopLevel, Children
    <3>3. Committed \in {0, 1, 2}
      BY DEF Committed
    <3> QED
      BY <1>2, <3>1, <3>2, <3>3, WholeStill
  <2>9. Vacant(LiveRows(vers))' = Vacant(R)
    BY <2>2 DEF Vacant
  <2>10. Watches
    BY <2>2, <2>4, <2>7, <2>8, <2>9 DEF Watches
  <2> QED
    BY <1>1, <1>2, <2>7, <2>10, WatchedEm
<1>4. CASE em.pc # "walk"
  <2>1. em' = em
    BY <1>2, <1>4
  <2>2. Watches
    BY <1>4, <2>1 DEF Watches
  <2> QED
    BY <1>1, <1>2, <2>1, <2>2, WatchedEm
<1> QED
  BY <1>3, <1>4

\* The other steps of the log leave the live rows alone.
LEMMA QuietEm ==
    ASSUME Shaped, Logged, PageInv, em \in Emission, EmInv, Logged', Final,
           UNCHANGED <<page, offsets, members, vers, em>>, em.pc \in {"idle", "walk"},
           \A x \in Xids \cup {FROZEN_XID} : TrulyCommitted(x)' <=> TrulyCommitted(x),
           NEW S, S \subseteq Xids, NEW st \in {0, 1, 2}, clog' = SetStatus(clog, S, st)
    PROVE  em' \in Emission /\ EmInv'
<1>1. /\ LiveRows(vers)' = LiveRows(vers) /\ Vacant(LiveRows(vers))' = Vacant(LiveRows(vers))
  BY SameLive
<1>2. Whole => Whole'
  BY WholeStill
<1>3. Watches
  BY <1>1, <1>2 DEF Watches, EmInv, Observed, Whole
<1> QED
  BY <1>3, WatchedEm

\* The page steps happen while no emission runs.
LEMMA IdleEm ==
    ASSUME em \in Emission, EmInv, em.pc = "idle", em' = em
    PROVE  em' \in Emission /\ EmInv'
<1>1. em.todo = <<>>
  BY DEF EmInv, Todo
<1>2. Todo'
  BY <1>1 DEF Todo
<1> QED
  BY <1>2 DEF EmInv, Observed, Emitted, Walked

-----------------------------------------------------------------------------
\* The invariant.

\* The types by component.
LEMMA TypedIs == Typed <=> Shaped /\ clog \in Log /\ em \in Emission
BY DEF Typed, Shaped, Log

\* The invariant as the lemmas take it.
LEMMA InvIs == Inv <=> Shaped /\ Logged /\ PageInv /\ em \in Emission /\ EmInv /\ FitsOn(page)
BY TypedIs DEF Inv, Logged

\* The same of the next state.
LEMMA InvIsNext == Inv' <=> Shaped' /\ Logged' /\ PageInv' /\ (em \in Emission)' /\ EmInv' /\ FitsOn(page)'
BY InvIs, PTL

\* The row the page may start with.
LEMMA FrozenIs ==
    ASSUME NEW i, i = FrozenRow(1)
    PROVE  /\ i \in ItemType /\ i.lp = LP_NORMAL /\ i.tup.ver = 1 /\ i.tup.xmin = FROZEN_XID
           /\ i.tup.xmax = 0 /\ ~i.tup.multi /\ ~i.tup.lockOnly /\ ~i.tup.heapOnly /\ ~i.tup.hotUpdated
           /\ Size(i) = 32
<1>1. PICK x, o, v : x = FROZEN_XID /\ o = 1 /\ v = 1
  OBVIOUS
<1>2. i = [lp |-> LP_NORMAL, to |-> 0,
           tup |-> [xmin |-> x, xmax |-> 0, lockOnly |-> FALSE, multi |-> FALSE, ctid |-> o,
                    heapOnly |-> FALSE, hotUpdated |-> FALSE, bitmap |-> 0, attrs |-> 8, ver |-> v]]
  BY <1>1 DEF FrozenRow, Item, NoTuple
<1>3. o \in 0..NSlots /\ 0 \in 0..NSlots /\ v \in 0..MaxVers /\ LP_NORMAL \in LP_UNUSED..LP_DEAD
  BY <1>1, Assumed DEF LP_NORMAL, LP_UNUSED, LP_DEAD
<1>4. [xmin |-> x, xmax |-> 0, lockOnly |-> FALSE, multi |-> FALSE, ctid |-> o,
       heapOnly |-> FALSE, hotUpdated |-> FALSE, bitmap |-> 0, attrs |-> 8, ver |-> v] \in TupleType
  BY <1>1, <1>3 DEF TupleType
<1>5. i.lp = LP_NORMAL /\ i.tup.bitmap = 0 /\ i.tup.attrs = 8
  BY <1>2
<1>6. Size(i) = 32
  BY <1>5 DEF Size, MaxAlign, TupleLen, HOff, TupleHeaderSize
<1>7. i \in ItemType
  <2>1. PICK t : t = [xmin |-> x, xmax |-> 0, lockOnly |-> FALSE, multi |-> FALSE, ctid |-> o,
       heapOnly |-> FALSE, hotUpdated |-> FALSE, bitmap |-> 0, attrs |-> 8, ver |-> v]
    OBVIOUS
  <2>2. i = [lp |-> LP_NORMAL, to |-> 0, tup |-> t] /\ t \in TupleType
    BY <1>2, <1>4, <2>1
  <2> QED
    BY <1>3, <2>2 DEF ItemType
<1>8. /\ i.tup.ver = v /\ i.tup.xmin = x /\ i.tup.xmax = 0
      /\ ~i.tup.multi /\ ~i.tup.lockOnly /\ ~i.tup.heapOnly /\ ~i.tup.hotUpdated
  BY <1>2
<1> QED
  BY <1>1, <1>5, <1>6, <1>7, <1>8

\* The invariant holds at the start.
LEMMA InvInit == Init => Inv
<1> SUFFICES ASSUME Init PROVE Inv
  OBVIOUS
<1>1. PICK n \in {0, 1} : /\ page = [o \in 1..n |-> FrozenRow(o)]
                          /\ vers = [o \in 1..n |-> NewVer(FROZEN_XID, o)]
  BY DEF Init
<1>2. /\ clog = [b \in {ByteOf(x) : x \in Xids} |-> 0]
      /\ offsets = <<>> /\ members = <<>> /\ em = Idle
  BY DEF Init
<1>3. \A o \in 1..n : o = 1 /\ page[o] = FrozenRow(1) /\ vers[o] = NewVer(FROZEN_XID, 1)
  BY <1>1
<1>4. \A o \in 1..n : /\ page[o] \in ItemType /\ page[o].lp = LP_NORMAL /\ page[o].tup.ver = 1
                      /\ page[o].tup.xmin = FROZEN_XID /\ page[o].tup.xmax = 0 /\ ~page[o].tup.multi
                      /\ ~page[o].tup.lockOnly /\ ~page[o].tup.heapOnly /\ ~page[o].tup.hotUpdated
                      /\ Size(page[o]) = 32
  BY <1>3, FrozenIs
<1>5. \A o \in 1..n : /\ vers[o] \in VerType /\ vers[o].by = FROZEN_XID /\ vers[o].ends = {} /\ vers[o].root = 1
  <2>1. 1 \in Offnums
    BY Assumed DEF Offnums
  <2> QED
    BY <1>3, <2>1 DEF NewVer, VerType
<1>6. page \in Seq(ItemType) /\ vers \in Seq(VerType) /\ Len(page) = n /\ Len(vers) = n /\ DOMAIN page = 1..n /\ DOMAIN vers = 1..n
  BY <1>1, <1>4, <1>5
<1>7. Shaped
  BY <1>2, <1>6, Assumed DEF Shaped
<1>8. clog \in Log /\ \A x \in Xids : St(x) = 0
  <2>1. clog \in Log
    BY <1>2 DEF Log
  <2>2. ASSUME NEW x \in Xids PROVE St(x) = 0
    <3>1. clog[ByteOf(x)] = 0
      BY <1>2
    <3>2. WeightOf(x) \in Nat \ {0}
      BY WeightIs, Assumed
    <3> QED
      BY <3>1, <3>2 DEF St, status_in_page
  <2> QED
    BY <2>1, <2>2
<1>81. \A x \in Xids : St(x) = 0 /\ St(SubOf[x]) = 0
  BY <1>8, Assumed
<1>9. Logged
  BY <1>8, <1>81 DEF Logged, Families, InProgress, Committed, SubCommitted
<1>10. TrulyCommitted(FROZEN_XID) /\ \A x : ~Doomed(x)
  BY <1>81 DEF TrulyCommitted, Doomed, Aborted
<1>11. Tuples(page) = 1..n /\ \A o \in 1..n : o = 1 /\ VerAt(o) = 1 /\ UpdaterOf(o) = {}
  <2>1. Tuples(page) = 1..n
    BY <1>4, <1>6 DEF Tuples
  <2>2. \A o \in 1..n : o = 1 /\ VerAt(o) = 1
    BY <1>3, <1>4 DEF VerAt
  <2>3. \A o \in 1..n : XmaxMembers(o) = {}
    BY <1>2, <1>4 DEF XmaxMembers, INVALID_XID
  <2> QED
    BY <2>1, <2>2, <2>3 DEF UpdaterOf
<1>12. \A v \in DOMAIN vers : v = 1 /\ By(v) = FROZEN_XID /\ Ends(v) = {} /\ Root(v) = 1 /\ ~DeadVer(v)
  BY <1>3, <1>5, <1>6, <1>10 DEF By, Ends, Root, DeadVer
<1>13. \A r \in DOMAIN page : IsRoot(page, r) /\ StartOf(page, r) = r /\ page[r].lp # LP_REDIRECT
  BY <1>4, <1>6 DEF IsRoot, StartOf, LP_NORMAL, LP_REDIRECT
<1>14. Multis /\ Stamped /\ Versions
  <2>1. Multis
    BY <1>2 DEF Multis
  <2>2. Stamped
    BY <1>4, <1>11 DEF Stamped, INVALID_XID
  <2>3. Versions
    BY <1>4, <1>6, <1>11, <1>12 DEF Versions
  <2> QED
    BY <2>1, <2>2, <2>3
<1>15. SeenFirst /\ Ordered /\ Present
  BY <1>6, <1>11, <1>12 DEF SeenFirst, Ordered, Present
<1>16. Rooted /\ Starts
  BY <1>4, <1>6, <1>10, <1>11, <1>12, <1>13 DEF Rooted, Starts
<1>17. Links /\ Nexts
  <2>1. \A c \in Tuples(page) : ~page[c].tup.hotUpdated
    BY <1>4, <1>11
  <2>2. Links
    BY <2>1 DEF Links, Linked
  <2>3. Nexts
    BY <1>6, <1>11, <1>12 DEF Nexts
  <2> QED
    BY <2>2, <2>3
<1>18. em \in Emission /\ EmInv
  <2>1. em.pc = "idle" /\ em.todo = <<>>
    BY <1>2 DEF Idle
  <2>2. em \in Emission
    BY <1>2 DEF Idle, Emission
  <2> QED
    BY <2>1, <2>2 DEF EmInv, Todo, Observed, Emitted, Walked
<1>19. FitsOn(page)
  <2>1. PICK f : f = Used(page)
    OBVIOUS
  <2>2. f[0] = 0 /\ \A k \in 1..n : f[k] = f[k - 1] + Size(page[k])
    BY <1>6, <2>1, UsedIs
  <2>3. (n = 0 => f[n] = 0) /\ (n = 1 => f[n] = 32)
    BY <1>4, <2>2
  <2> QED
    BY <1>6, <2>1, <2>3, Assumed DEF FitsOn, HeaderSize, ItemIdSize
<1> QED
  BY <1>7, <1>9, <1>14, <1>15, <1>16, <1>17, <1>18, <1>19, InvIs DEF PageInv

\* Every step keeps the invariant.
LEMMA InvNext == Inv /\ [Next]_vars => Inv'
<1> SUFFICES ASSUME Inv, [Next]_vars PROVE Inv'
  OBVIOUS
<1>0. Shaped /\ Logged /\ PageInv /\ em \in Emission /\ EmInv /\ FitsOn(page)
  BY InvIs
\* A step of the server on the page.
<1>1. ASSUME em.pc = "idle", em' = em, clog' = clog, Shaped' /\ PageInv' /\ FitsOn(page)'
      PROVE  Inv'
  <2>1. (em \in Emission)' /\ EmInv'
    BY <1>0, <1>1, IdleEm
  <2>2. Logged'
    BY <1>0, <1>1, SameFates
  <2> QED
    BY <1>1, <2>1, <2>2, InvIsNext
\* A step of the log.
<1>2. ASSUME UNCHANGED <<page, offsets, members, vers>>, Logged', Final, em' \in Emission, EmInv'
      PROVE  Inv'
  <2>1. PageInv'
    BY <1>0, <1>2, FatePage
  <2>2. Shaped' /\ FitsOn(page)'
    BY <1>0, <1>2 DEF Shaped, FitsOn
  <2> QED
    BY <1>2, <2>1, <2>2, InvIsNext
\* A step of an emission.
<1>3. ASSUME UNCHANGED <<page, clog, offsets, members, vers>>, em' \in Emission, EmInv'
      PROVE  Inv'
  <2>1. Logged' /\ Final
    BY <1>0, <1>3, SameFates DEF Final
  <2> QED
    BY <1>2, <1>3, <2>1
<1>4. ASSUME NEW x \in Xids, Insert(x) PROVE Inv'
  <2>1. em.pc = "idle" /\ em' = em /\ clog' = clog
    BY <1>4 DEF Insert, CanWrite
  <2> QED
    BY <1>0, <1>1, <1>4, <2>1, InsertPage
<1>5. ASSUME NEW x \in Xids, NEW c \in Tuples(page), NEW hot \in BOOLEAN, UpdateRow(x, c, hot) PROVE Inv'
  <2>1. em.pc = "idle" /\ em' = em /\ clog' = clog
    BY <1>5 DEF UpdateRow, CanWrite
  <2> QED
    BY <1>0, <1>1, <1>5, <2>1, UpdatePage
<1>6. ASSUME NEW x \in Xids, NEW c \in Tuples(page), DeleteRow(x, c) PROVE Inv'
  <2>1. em.pc = "idle" /\ em' = em /\ clog' = clog
    BY <1>6 DEF DeleteRow, CanWrite
  <2> QED
    BY <1>0, <1>1, <1>6, <2>1, DeletePage
<1>7. ASSUME NEW x \in Lockers, NEW c \in Tuples(page), LockRow(x, c) PROVE Inv'
  <2>1. em.pc = "idle" /\ em' = em /\ clog' = clog /\ x \in Xids
    BY <1>7, Assumed DEF LockRow, CanWrite
  <2> QED
    BY <1>0, <1>1, <1>7, <2>1, LockPage
<1>8. CASE OtherMulti
  <2>1. em.pc = "idle" /\ em' = em /\ clog' = clog
    BY <1>8 DEF OtherMulti
  <2> QED
    BY <1>0, <1>1, <1>8, <2>1, OtherMultiPage
<1>9. ASSUME NEW t \in TopLevel, SubCommit(t) PROVE Inv'
  <2>1. UNCHANGED <<page, offsets, members, vers>>
    BY <1>9 DEF SubCommit
  <2> QED
    BY <1>0, <1>2, <1>9, <2>1, SubCommitFate, SubCommitEm
<1>10. ASSUME NEW t \in TopLevel, Commit(t) PROVE Inv'
  <2>1. UNCHANGED <<page, offsets, members, vers>>
    BY <1>10 DEF Commit
  <2> QED
    BY <1>0, <1>2, <1>10, <2>1, CommitFate, CommitEm
<1>11. ASSUME NEW t \in TopLevel, CommitSubs(t) PROVE Inv'
  <2>1. /\ UNCHANGED <<page, offsets, members, vers, em>> /\ em.pc \in {"idle", "walk"}
        /\ clog' = SetStatus(clog, Apart(t), Committed)
    BY <1>11 DEF CommitSubs
  <2>2. Apart(t) \subseteq Xids /\ Committed \in {0, 1, 2}
    BY DEF Apart, Children, Committed
  <2>3. /\ Logged' /\ Final
        /\ \A x \in Xids \cup {FROZEN_XID} : TrulyCommitted(x)' <=> TrulyCommitted(x)
    BY <1>0, <1>11, CommitSubsFate
  <2>4. em' \in Emission /\ EmInv'
    BY <1>0, <2>1, <2>2, <2>3, QuietEm
  <2> QED
    BY <1>2, <2>1, <2>3, <2>4
<1>12. ASSUME NEW x \in Xids, Abort(x) PROVE Inv'
  <2>1. /\ UNCHANGED <<page, offsets, members, vers, em>> /\ em.pc \in {"idle", "walk"}
        /\ clog' = SetStatus(clog, {x} \cup Children(x), Aborted)
    BY <1>12 DEF Abort, Running
  <2>2. {x} \cup Children(x) \subseteq Xids /\ Aborted \in {0, 1, 2}
    BY DEF Children, Aborted
  <2>3. /\ Logged' /\ Final
        /\ \A y \in Xids \cup {FROZEN_XID} : TrulyCommitted(y)' <=> TrulyCommitted(y)
    BY <1>0, <1>12, AbortFate
  <2>4. em' \in Emission /\ EmInv'
    BY <1>0, <2>1, <2>2, <2>3, QuietEm
  <2> QED
    BY <1>2, <2>1, <2>3, <2>4
<1>13. CASE Prune
  <2>1. em.pc = "idle" /\ em' = em /\ clog' = clog
    BY <1>13 DEF Prune
  <2> QED
    BY <1>0, <1>1, <1>13, <2>1, PrunePage
<1>14. ASSUME NEW o \in DOMAIN page, Vacuum(o) PROVE Inv'
  <2>1. em.pc = "idle" /\ em' = em /\ clog' = clog
    BY <1>14 DEF Vacuum
  <2> QED
    BY <1>0, <1>1, <1>14, <2>1, VacuumPage
<1>15. CASE EmitStart
  <2>1. UNCHANGED <<page, clog, offsets, members, vers>>
    BY <1>15 DEF EmitStart
  <2> QED
    BY <1>0, <1>3, <1>15, <2>1, EmitStartEm
<1>16. CASE EmitStep
  <2>1. UNCHANGED <<page, clog, offsets, members, vers>>
    BY <1>16 DEF EmitStep
  <2> QED
    BY <1>0, <1>3, <1>16, <2>1, EmitStepEm
<1>17. CASE EmitDone
  <2>1. UNCHANGED <<page, clog, offsets, members, vers>>
    BY <1>17 DEF EmitDone
  <2> QED
    BY <1>0, <1>3, <1>17, <2>1, EmitDoneEm
<1>18. CASE UNCHANGED vars
  <2>1. UNCHANGED <<page, clog, offsets, members, vers, em>>
    BY <1>18 DEF vars
  <2>2. EmInv'
    <3>1. Todo' /\ Emitted'
      BY <1>0, <2>1, EmitSame DEF EmInv, Todo, Emitted
    <3>2. Observed'
      BY <1>0, <2>1, EmitSame DEF EmInv, Observed, Whole
    <3>3. Walked'
      <4>1. \A r, c : AtHead(r, c)' <=> AtHead(r, c)
        BY <2>1, EmitSame DEF AtHead, Heads
      <4> QED
        BY <1>0, <2>1, <4>1 DEF EmInv, Walked
    <3> QED
      BY <3>1, <3>2, <3>3 DEF EmInv
  <2> QED
    BY <1>0, <1>3, <2>1, <2>2
<1> QED
  BY <1>4, <1>5, <1>6, <1>7, <1>8, <1>9, <1>10, <1>11, <1>12, <1>13, <1>14, <1>15, <1>16, <1>17, <1>18 DEF Next

\* The inductive invariant holds in every state.
THEOREM InvHolds == Spec => []Inv
BY InvInit, InvNext, PTL DEF Spec

-----------------------------------------------------------------------------
\* The properties.

\* TypeOK follows from the invariant.
LEMMA InvType == Inv => TypeOK
<1> SUFFICES ASSUME Inv PROVE TypeOK
  OBVIOUS
<1>0. Shaped /\ Logged /\ PageInv /\ em \in Emission /\ EmInv
  BY InvIs
<1>1. \A o \in DOMAIN page : page[o].lp \in LP_UNUSED..LP_DEAD /\ page[o].tup \in TupleType
  <2>1. \A o \in DOMAIN page : page[o] \in ItemType
    BY <1>0 DEF Shaped
  <2> QED
    BY <2>1 DEF ItemType
<1>2. DOMAIN clog = {ByteOf(x) : x \in Xids} /\ \A b \in DOMAIN clog : clog[b] \in 0..255
  BY <1>0 DEF Logged, Log
<1>3. em.pc \in {"idle", "walk", "done", "failed"} /\ em.out \subseteq Offnums \X (1..MaxVers) /\ em.todo \in Seq(Offnums \X Offnums)
  BY <1>0 DEF Emission, RowType
<1>4. ASSUME NEW i \in 2..Len(em.todo) PROVE page[em.todo[i][2]].lp = LP_NORMAL
  <2>1. i \in DOMAIN em.todo /\ i # 1
    BY <1>3
  <2>2. PICK r, c : r = em.todo[i][1] /\ c = em.todo[i][2]
    OBVIOUS
  <2>3. r \in DOMAIN page /\ IsRoot(page, r) /\ c = StartOf(page, r)
    BY <1>0, <2>1, <2>2 DEF EmInv, Todo
  <2>4. c \in Tuples(page)
    BY <1>0, <2>3, StartTuple DEF PageInv
  <2> QED
    BY <2>2, <2>4 DEF Tuples
<1> QED
  BY <1>0, <1>1, <1>2, <1>3, <1>4 DEF TypeOK, TupleType, Shaped

\* The page, the log and the emission keep their types, and every chain an
\* emission has still to begin starts at a tuple (fragment.rs chain_roots).
THEOREM TypeCorrect == Spec => []TypeOK
BY InvHolds, InvType, PTL

\* EmitLinear follows from the invariant.
LEMMA InvLinear == Inv => EmitLinear
<1> SUFFICES ASSUME Inv, em.pc = "done", ~em.subs, em.intact
             PROVE  /\ em.out \subseteq em.seen
                    /\ \A r, s \in em.out : r[1] = s[1] => r = s
                    /\ \A o \in Offnums : (\A r \in em.out : r[1] # o) => o \in em.absent
  BY DEF EmitLinear
<1>0. EmInv
  BY InvIs
<1>1. em.todo = <<>>
  BY <1>0 DEF EmInv, Todo
<1>2. DOMAIN em.todo = {}
  BY <1>1
<1> QED
  BY <1>0, <1>2 DEF EmInv, Emitted

\* A finished emission is linear (fragment.rs emit_page): its rows were the
\* committed ones at some moment of it, whoever committed meanwhile.
THEOREM EmissionLinear == Spec => []EmitLinear
BY InvHolds, InvLinear, PTL

\* A tuple is live when its writer committed and its updater did not.
LEMMA LiveTuple ==
    ASSUME Shaped, Logged, Versions, NEW c \in Tuples(page)
    PROVE  VerAt(c) \in LiveVers(vers) <=>
              TrulyCommitted(page[c].tup.xmin) /\ \A u \in UpdaterOf(c) : ~TrulyCommitted(u)
<1>1. /\ VerAt(c) \in DOMAIN vers /\ By(VerAt(c)) = page[c].tup.xmin /\ UpdaterOf(c) \subseteq Ends(VerAt(c))
      /\ \A x \in Ends(VerAt(c)) : x \in UpdaterOf(c) \/ Doomed(x)
  BY DEF Versions
<1>2. Ends(VerAt(c)) \subseteq Xids
  BY <1>1, VerIs
<1>3. (\E x \in Ends(VerAt(c)) : TrulyCommitted(x)) <=> \E u \in UpdaterOf(c) : TrulyCommitted(u)
  BY <1>1, <1>2, Fates
<1>4. VerAt(c) \in LiveVers(vers) <=> TrulyCommitted(By(VerAt(c))) /\ ~\E x \in Ends(VerAt(c)) : TrulyCommitted(x)
  BY <1>1 DEF LiveVers, By, Ends
<1> QED
  BY <1>1, <1>3, <1>4

\* What resolve_updater finds in a multixact: its updater, or that it has
\* none; or that nothing bounds its members.
LEMMA UpdaterIs ==
    ASSUME Shaped, Multis, NEW m \in DOMAIN offsets, NEW u, u = resolve_updater(offsets, members, m)
    PROVE  \/ u = Unbounded /\ m = Len(offsets)
           \/ u = NoUpdater /\ UpdatersIn(MembersOf(m)) = {}
           \/ u \in Xids /\ u \in UpdatersIn(MembersOf(m))
<1>0. m \in Nat /\ m >= 1 /\ m <= Len(offsets) /\ DOMAIN offsets = 1..Len(offsets) /\ Len(offsets) \in Nat
  BY DEF Shaped
<1>1. PICK start, end : start = read_offset(offsets, m) /\ end = read_offset(offsets, m + 1)
  OBVIOUS
<1>2. start = offsets[m] /\ start \in Nat /\ start >= 1
  BY <1>1, MultiIs DEF read_offset
<1>3. PICK U : U = {o \in start..(end - 1) : members[o].status > STATUS_FOR_UPDATE}
  OBVIOUS
<1>4. u = IF end <= start THEN Unbounded ELSE IF U = {} THEN NoUpdater ELSE members[Min(U)].xid
  BY <1>1, <1>3 DEF resolve_updater
<1>5. CASE m + 1 \notin DOMAIN offsets
  <2>1. end = 0
    BY <1>1, <1>5 DEF read_offset
  <2>2. u = Unbounded
    BY <1>2, <1>4, <2>1
  <2> QED
    BY <1>0, <1>5, <2>2
<1>6. CASE m + 1 \in DOMAIN offsets
  <2>1. end = offsets[m + 1] /\ end \in Nat /\ start < end /\ LastOf(m) = end - 1
    <3>1. end = offsets[m + 1] /\ LastOf(m) = end - 1
      BY <1>1, <1>6 DEF read_offset, LastOf
    <3>2. end \in Nat
      BY <1>6, <3>1 DEF Shaped
    <3>3. start < end
      BY <1>2, <1>6, <3>1 DEF Multis
    <3> QED
      BY <3>1, <3>2, <3>3
  <2>2. /\ \A o \in start..(end - 1) : members[o] \in MembersOf(m) /\ members[o] \in Member
        /\ \A e \in MembersOf(m) : \E o \in start..(end - 1) : e = members[o]
    <3>1. start..(end - 1) \subseteq DOMAIN members
      BY <1>2, <2>1, MultiIs
    <3> QED
      BY <1>2, <2>1, <3>1, SMTT(30) DEF MembersOf, Shaped
  <2>3. CASE U = {}
    <3>1. u = NoUpdater
      BY <1>2, <1>4, <2>1, <2>3
    <3>2. \A e \in MembersOf(m) : ~IsUpdater(e)
      BY <1>3, <2>2, <2>3 DEF IsUpdater
    <3> QED
      BY <3>1, <3>2 DEF UpdatersIn
  <2>4. CASE U # {}
    <3>1. u = members[Min(U)].xid
      BY <1>2, <1>4, <2>1, <2>4
    <3>2. U \subseteq Nat
      BY <1>2, <1>3, <2>1
    <3>3. Min(U) \in U
      BY <2>4, <3>2, Least
    <3>4. PICK e : e = members[Min(U)]
      OBVIOUS
    <3>5. e \in MembersOf(m) /\ e \in Member /\ IsUpdater(e) /\ u = e.xid
      BY <1>3, <2>2, <3>1, <3>3, <3>4 DEF IsUpdater
    <3> QED
      BY <3>5 DEF UpdatersIn, Member
  <2> QED
    BY <2>3, <2>4
<1> QED
  BY <1>5, <1>6

\* MultixactExact follows from the invariant.
LEMMA InvMultixact == Inv => MultixactExact
<1> SUFFICES ASSUME Inv, Settled, NEW o \in Tuples(page), NEW t, t = page[o].tup,
                    NEW v, v = tuple_visible_with_multixact(clog, offsets, members, t)
             PROVE  IF v = "error" THEN t.multi /\ t.xmax = Len(offsets)
                    ELSE (v = "yes") = (t.ver \in LiveVers(vers))
  BY DEF MultixactExact
<1>0. Shaped /\ Logged /\ PageInv /\ Whole
  BY InvIs DEF Settled, Whole, St
<1> USE DEF PageInv
<1>1. t.ver \in LiveVers(vers) <=> TrulyCommitted(t.xmin) /\ \A u \in UpdaterOf(o) : ~TrulyCommitted(u)
  BY <1>0, LiveTuple DEF VerAt
<1>2. resolve(clog, t.xmin) = Committed <=> TrulyCommitted(t.xmin)
  <2>1. t.xmin \in Xids \cup {FROZEN_XID}
    BY <1>0, VerIs DEF Versions
  <2> QED
    BY <1>0, <2>1, Resolves DEF Whole
<1>3. CASE t.multi /\ ~t.lockOnly
  <2>1. PICK u : u = resolve_updater(offsets, members, t.xmax)
    OBVIOUS
  <2>2. t.xmax \in DOMAIN offsets /\ UpdaterOf(o) = UpdatersIn(MembersOf(t.xmax))
    <3>1. t.xmax \in DOMAIN offsets /\ XmaxMembers(o) = MembersOf(t.xmax)
      BY <1>0, <1>3, XmaxIs
    <3> QED
      BY <3>1 DEF UpdaterOf, UpdatersIn
  <2>3. \/ u = Unbounded /\ t.xmax = Len(offsets)
        \/ u = NoUpdater /\ UpdaterOf(o) = {}
        \/ u \in Xids /\ u \in UpdaterOf(o)
    BY <1>0, <2>1, <2>2, UpdaterIs
  <2>4. CASE ~TrulyCommitted(t.xmin)
    <3>1. v = "no"
      BY <1>2, <1>3, <2>4 DEF tuple_visible_with_multixact
    <3>2. t.ver \notin LiveVers(vers)
      BY <1>1, <2>4
    <3> QED
      BY <3>1, <3>2
  <2>5. CASE TrulyCommitted(t.xmin)
    <3>1. v = CASE u = Unbounded -> "error"
                [] u = NoUpdater -> "yes"
                [] OTHER -> IF resolve(clog, u) = Committed THEN "no" ELSE "yes"
      BY <1>2, <1>3, <2>1, <2>5 DEF tuple_visible_with_multixact
    <3>2. CASE u = Unbounded /\ t.xmax = Len(offsets)
      <4>1. v = "error"
        BY <3>1, <3>2 DEF Unbounded, NoUpdater
      <4> QED
        BY <1>3, <3>2, <4>1
    <3>3. CASE u = NoUpdater /\ UpdaterOf(o) = {}
      <4>1. v = "yes"
        BY <3>1, <3>3 DEF Unbounded, NoUpdater
      <4>2. t.ver \in LiveVers(vers)
        BY <1>1, <2>5, <3>3
      <4> QED
        BY <4>1, <4>2
    <3>4. CASE u \in Xids /\ u \in UpdaterOf(o)
      <4>1. u # Unbounded /\ u # NoUpdater
        BY <3>4, Assumed DEF Unbounded, NoUpdater
      <4>2. v = IF resolve(clog, u) = Committed THEN "no" ELSE "yes"
        BY <3>1, <4>1
      <4>3. resolve(clog, u) = Committed <=> TrulyCommitted(u)
        BY <1>0, <3>4, Resolves DEF Whole
      <4>4. \A y \in UpdaterOf(o) : y = u
        BY <1>0, <3>4 DEF Stamped
      <4>5. (t.ver \in LiveVers(vers)) <=> ~TrulyCommitted(u)
        BY <1>1, <2>5, <3>4, <4>4
      <4>6. v = "yes" <=> t.ver \in LiveVers(vers)
        BY <4>2, <4>3, <4>5
      <4>7. v # "error"
        BY <4>2
      <4> QED
        BY <4>6, <4>7
    <3> QED
      BY <2>3, <3>2, <3>3, <3>4
  <2> QED
    BY <2>4, <2>5
<1>4. CASE ~(t.multi /\ ~t.lockOnly)
  <2>1. v = tuple_visible(clog, t)
    BY <1>4 DEF tuple_visible_with_multixact
  <2>2. /\ v \in {"yes", "no", "error"}
        /\ v = "yes" => VerAt(o) \in LiveVers(vers)
        /\ v = "no" => ~TrulyCommitted(By(VerAt(o))) \/ \E u \in UpdaterOf(o) : TrulyCommitted(u)
        /\ v = "error" => t.multi /\ ~t.lockOnly
    BY <1>0, <2>1, VisibleIs
  <2>3. By(VerAt(o)) = t.xmin /\ VerAt(o) = t.ver
    BY <1>0 DEF Versions, VerAt
  <2>4. v # "error" /\ (v = "yes" <=> t.ver \in LiveVers(vers))
    BY <1>1, <1>4, <2>2, <2>3
  <2> QED
    BY <2>4
<1> QED
  BY <1>3, <1>4

\* clog.rs tuple_visible_with_multixact is exact: visible means committed and
\* not superseded, with the updater found among a multixact's members.
THEOREM MultixactVisible == Spec => []MultixactExact
BY InvHolds, InvMultixact, PTL

-----------------------------------------------------------------------------
\* The rebuild.

\* A tuple without a lock or a multixact survives encode_raw_tuple.
LEMMA RawSlotIs ==
    ASSUME NEW i \in ItemType, i.lp = LP_NORMAL => ~i.tup.lockOnly /\ ~i.tup.multi
    PROVE  RawSlot(i) = i
<1>1. CASE i.lp # LP_NORMAL
  BY <1>1 DEF RawSlot
<1>2. CASE i.lp = LP_NORMAL
  <2>1. PICK t : t = i.tup
    OBVIOUS
  <2>2. t \in TupleType /\ t.lockOnly = FALSE /\ t.multi = FALSE
    BY <1>2, <2>1 DEF ItemType, TupleType
  <2>3. encode_raw_tuple(t) = t
    BY <2>2 DEF encode_raw_tuple, TupleType
  <2>4. RawSlot(i) = [i EXCEPT !.tup = encode_raw_tuple(i.tup)]
    BY <1>2 DEF RawSlot
  <2>5. RawSlot(i) = [i EXCEPT !.tup = i.tup]
    BY <2>1, <2>3, <2>4
  <2> QED
    BY <2>5 DEF ItemType
<1> QED
  BY <1>1, <1>2

\* What Used says of the tuples up to a line pointer.
LEMMA UsedGrows ==
    ASSUME NEW pg \in Seq(ItemType), NEW f, f = Used(pg), NEW a \in 0..Len(pg), NEW b \in 0..Len(pg), a <= b
    PROVE  f[a] \in Nat /\ f[b] \in Nat /\ f[a] <= f[b]
<1> DEFINE n == Len(pg)
<1>1. /\ f \in [0..n -> Nat] /\ f[0] = 0 /\ \A k \in 1..n : f[k] = f[k - 1] + Size(pg[k])
      /\ \A k \in 1..n : Size(pg[k]) \in Nat /\ n \in Nat
  BY UsedIs, SizeIs, SMTT(30)
<1> HIDE DEF n
<1> DEFINE S == {k \in Nat : a <= k /\ k <= n => f[a] <= f[k]}
<1>2. 0 \in S
  BY <1>1 DEF n
<1>3. ASSUME NEW k \in Nat, k \in S PROVE k + 1 \in S
  <2> SUFFICES ASSUME a <= k + 1, k + 1 <= n PROVE f[a] <= f[k + 1]
    OBVIOUS
  <2>1. CASE a = k + 1
    BY <1>1, <2>1 DEF n
  <2>2. CASE a <= k
    <3>1. f[a] <= f[k] /\ f[k + 1] = f[k] + Size(pg[k + 1]) /\ Size(pg[k + 1]) \in Nat
      <4>1. k + 1 \in 1..n /\ (k + 1) - 1 = k
        BY <1>1
      <4>2. k <= n
        BY <1>1
      <4> QED
        BY <1>1, <1>3, <2>2, <4>1, <4>2
    <3>2. f[a] \in Nat /\ f[k] \in Nat
      <4>1. a \in 0..n /\ k \in 0..n
        BY <1>1 DEF n
      <4> QED
        BY <1>1, <4>1
    <3> QED
      BY <3>1, <3>2
  <2> QED
    BY <2>1, <2>2, <1>1 DEF n
<1>4. b \in S
  <2> HIDE DEF S
  <2>1. b \in Nat
    BY <1>1 DEF n
  <2> QED
    BY <1>2, <1>3, <2>1, Inductive
<1> QED
  BY <1>1, <1>4, SMTT(30) DEF n

\* On a page that fits, place_tuple puts the k-th tuple right below the
\* ones before it.
LEMMA BuildIs ==
    ASSUME NEW pg \in Seq(ItemType), FitsOn(pg), NEW f, f = Used(pg), NEW b, b = build_page(pg)
    PROVE  /\ b.ok /\ b.page = pg /\ DOMAIN b.at = Tuples(pg)
           /\ \A o \in Tuples(pg) : b.at[o] = PageSize - f[o]
<1> DEFINE n == Len(pg)
           low == HeaderSize + Len(pg) * ItemIdSize
           Below(k, u) == IF pg[k].lp # LP_NORMAL \/ u = -1 THEN u
                          ELSE IF u < low + MaxAlign(TupleLen(pg[k].tup)) THEN -1
                          ELSE u - MaxAlign(TupleLen(pg[k].tup))
           F == [p \in (1..n) \X Int |-> Below(p[1], p[2])]
           Fits(g) == g = [k \in 0..n |->
              IF k = 0 THEN PageSize
              ELSE IF pg[k].lp # LP_NORMAL \/ g[k - 1] = -1 THEN g[k - 1]
              ELSE IF g[k - 1] < low + MaxAlign(TupleLen(pg[k].tup)) THEN -1
              ELSE g[k - 1] - MaxAlign(TupleLen(pg[k].tup))]
<1>1. \A k \in 1..n : Size(pg[k]) \in Nat /\ (pg[k].lp = LP_NORMAL => MaxAlign(TupleLen(pg[k].tup)) = Size(pg[k]))
  BY SizeIs DEF Size
<1>2. \A k \in 1..n, u \in Int : Below(k, u) \in Int
  BY <1>1
<1>3. PICK G : G = F
  OBVIOUS
<1>4. PICK h : Iterates(h, G, n, Int, PageSize)
  <2>1. F \in [(1..n) \X Int -> Int]
    <3> HIDE DEF Below, n
    <3> QED
      BY <1>2
  <2>2. n \in Nat /\ PageSize \in Int /\ StepOn(G, n, Int)
    BY <1>3, <2>1, Assumed DEF StepOn
  <2> HIDE DEF n, F
  <2> QED
    BY <2>2, Recursion
<1>5. Fits(h)
  <2>1. ASSUME NEW k \in 1..n PROVE h[k] = Below(k, h[k - 1])
    <3>1. PICK e : e = h[k - 1]
      OBVIOUS
    <3>2. e \in Int
      <4>1. k - 1 \in 0..n
        OBVIOUS
      <4> HIDE DEF n
      <4> QED
        BY <1>4, <3>1, <4>1 DEF Iterates
    <3>3. h[k] = F[<<k, e>>]
      <4> HIDE DEF n, F
      <4> QED
        BY <1>3, <1>4, <3>1 DEF Iterates
    <3> HIDE DEF Below
    <3> QED
      BY <3>1, <3>2, <3>3
  <2>2. h \in [0..n -> Int] /\ h[0] = PageSize
    <3> HIDE DEF n
    <3> QED
      BY <1>4 DEF Iterates
  <2>3. h = [k \in 0..n |-> IF k = 0 THEN PageSize ELSE Below(k, h[k - 1])]
    <3> HIDE DEF Below
    <3> QED
      BY <2>1, <2>2
  <2> QED
    BY <2>3
<1>6. PICK g : g = CHOOSE z : Fits(z)
  OBVIOUS
<1>7. Fits(g)
  <2> HIDE DEF Fits
  <2> QED
    BY <1>5, <1>6
<1>8. g[0] = PageSize /\ \A k \in 1..n : g[k] = Below(k, g[k - 1])
  <2>1. g = [k \in 0..n |-> IF k = 0 THEN PageSize ELSE Below(k, g[k - 1])]
    BY <1>7
  <2>2. n \in Nat
    OBVIOUS
  <2> HIDE DEF Below, n, Fits
  <2> QED
    BY <2>1, <2>2
<1>9. b = [ok |-> low <= PageSize /\ g[Len(pg)] # -1, page |-> pg,
           at |-> [o \in {p \in DOMAIN pg : pg[p].lp = LP_NORMAL} |-> g[o]]]
  BY <1>6 DEF build_page
<1>10. /\ \A k \in 0..n : f[k] \in Nat /\ f[k] <= f[n]
       /\ f[0] = 0 /\ \A k \in 1..n : f[k] = f[k - 1] + Size(pg[k])
       /\ low + f[n] <= PageSize /\ low \in Nat /\ n \in Nat
  <2>1. \A k \in 0..n : f[k] \in Nat /\ f[k] <= f[n]
    BY UsedGrows
  <2>2. f[0] = 0 /\ \A k \in 1..n : f[k] = f[k - 1] + Size(pg[k])
    BY UsedIs
  <2> QED
    BY <2>1, <2>2 DEF FitsOn, HeaderSize, ItemIdSize
<1> HIDE DEF Fits, F, n, low
<1> DEFINE S == {k \in Nat : k <= n => g[k] = PageSize - f[k]}
<1>11. 0 \in S
  BY <1>8, <1>10, Assumed
<1>12. ASSUME NEW k \in Nat, k \in S PROVE k + 1 \in S
  <2> SUFFICES ASSUME k + 1 <= n PROVE g[k + 1] = PageSize - f[k + 1]
    OBVIOUS
  <2>1. k + 1 \in 1..n /\ (k + 1) - 1 = k /\ k \in 0..n /\ k + 1 \in 0..n /\ k <= n
    BY <1>10
  <2>2. PICK u, w : u = g[k] /\ w = Size(pg[k + 1])
    OBVIOUS
  <2>3. u = PageSize - f[k] /\ f[k + 1] = f[k] + w /\ f[k + 1] <= f[n] /\ f[k] \in Nat /\ f[n] \in Nat /\ w \in Nat
    BY <1>1, <1>10, <1>12, <2>1, <2>2, SMTT(30)
  <2>4. u # -1 /\ u >= low + w /\ u \in Int
    <3>1. PICK x, y : x = f[k] /\ y = f[n]
      OBVIOUS
    <3>2. /\ u = PageSize - x /\ x + w <= y /\ x \in Nat /\ y \in Nat /\ w \in Nat
          /\ low + y <= PageSize /\ low \in Nat /\ PageSize \in Nat
      BY <1>10, <2>3, <3>1, Assumed
    <3> QED
      BY <3>2
  <2>5. g[k + 1] = Below(k + 1, u)
    BY <1>8, <2>1, <2>2
  <2>6. g[k + 1] = u - w
    <3>1. CASE pg[k + 1].lp # LP_NORMAL
      <4>1. w = 0
        BY <2>2, <3>1 DEF Size
      <4> QED
        BY <2>4, <2>5, <3>1, <4>1
    <3>2. CASE pg[k + 1].lp = LP_NORMAL
      <4>1. MaxAlign(TupleLen(pg[k + 1].tup)) = w
        BY <1>1, <2>1, <2>2, <3>2
      <4>2. ~(u < low + w)
        BY <1>10, <2>3, <2>4
      <4> QED
        BY <2>4, <2>5, <3>2, <4>1, <4>2
    <3> QED
      BY <3>1, <3>2
  <2> QED
    BY <2>3, <2>6, Assumed
<1>13. \A k \in 0..n : g[k] = PageSize - f[k]
  <2>1. \A k \in Nat : k \in S
    <3> HIDE DEF S
    <3> QED
      BY <1>11, <1>12, Inductive
  <2> QED
    BY <2>1, <1>10
<1>14. b.ok
  <2>1. g[n] = PageSize - f[n] /\ f[n] \in Nat
    BY <1>10, <1>13
  <2>2. g[n] # -1 /\ low <= PageSize
    BY <1>10, <2>1, Assumed
  <2>3. b.ok = (low <= PageSize /\ g[n] # -1)
    BY <1>9 DEF n
  <2> QED
    BY <2>2, <2>3
<1>15. b.page = pg /\ DOMAIN b.at = Tuples(pg) /\ \A o \in Tuples(pg) : b.at[o] = g[o]
  BY <1>9 DEF Tuples
<1>16. Tuples(pg) \subseteq 0..n
  BY DEF Tuples, n
<1> QED
  BY <1>13, <1>14, <1>15, <1>16

\* RebuildExact follows from the invariant.
LEMMA InvRebuild == Inv => RebuildExact
<1> SUFFICES ASSUME Inv, \A o \in Tuples(page) : ~page[o].tup.lockOnly /\ ~page[o].tup.multi,
                    NEW b, b = Rebuild(page)
             PROVE  /\ b.ok
                    /\ EmitPage(b.page, clog) = EmitPage(page, clog)
                    /\ \A o, p \in DOMAIN b.at : o # p =>
                          \/ b.at[o] + TupleLen(page[o].tup) <= b.at[p]
                          \/ b.at[p] + TupleLen(page[p].tup) <= b.at[o]
  BY DEF RebuildExact
<1>0. page \in Seq(ItemType) /\ FitsOn(page)
  BY InvIs DEF Shaped
<1>1. [o \in DOMAIN page |-> RawSlot(page[o])] = page
  <2>1. \A o \in DOMAIN page : RawSlot(page[o]) = page[o]
    BY <1>0, RawSlotIs DEF Tuples
  <2> QED
    BY <1>0, <2>1
<1>2. b = build_page(page)
  BY <1>1 DEF Rebuild
<1>3. PICK f : f = Used(page)
  OBVIOUS
<1>4. /\ b.ok /\ b.page = page /\ DOMAIN b.at = Tuples(page)
      /\ \A o \in Tuples(page) : b.at[o] = PageSize - f[o]
  BY <1>0, <1>2, <1>3, BuildIs
<1>5. ASSUME NEW o \in Tuples(page), NEW p \in Tuples(page), o < p
      PROVE  b.at[p] + TupleLen(page[p].tup) <= b.at[o]
  <2>1. o \in 0..Len(page) /\ p \in 1..Len(page) /\ p - 1 \in 0..Len(page) /\ o <= p - 1 /\ page[p].lp = LP_NORMAL
    BY <1>0, <1>5 DEF Tuples
  <2>2. f[o] \in Nat /\ f[p - 1] \in Nat /\ f[o] <= f[p - 1]
    BY <1>0, <1>3, <2>1, UsedGrows
  <2>3. f[p] = f[p - 1] + Size(page[p])
    BY <1>0, <1>3, <2>1, UsedIs
  <2>4. Size(page[p]) \in Nat /\ TupleLen(page[p].tup) \in Nat /\ TupleLen(page[p].tup) <= Size(page[p])
    BY <1>0, <2>1, SizeIs
  <2> QED
    BY <1>4, <2>2, <2>3, <2>4, Assumed
<1>6. \A o \in Tuples(page) : o \in Nat
  BY <1>0 DEF Tuples
<1>7. ASSUME NEW o \in DOMAIN b.at, NEW p \in DOMAIN b.at, o # p
      PROVE  \/ b.at[o] + TupleLen(page[o].tup) <= b.at[p]
             \/ b.at[p] + TupleLen(page[p].tup) <= b.at[o]
  <2>1. o < p \/ p < o
    BY <1>4, <1>6, <1>7
  <2> QED
    BY <1>4, <1>5, <2>1
<1> QED
  BY <1>4, <1>7

\* A rebuilt page holds its tuples, apart, and reads the same
\* (reconstruct.rs build_page), unless one is locked.
THEOREM RebuildFaithful == Spec => []RebuildExact
BY InvHolds, InvRebuild, PTL

-----------------------------------------------------------------------------
\* The two readers of a page.

\* On a page without broken links the tuple a link leads to is of the same root.
LEMMA LinkRoot ==
    ASSUME PageInv, Intact, NEW c \in Tuples(page), page[c].tup.hotUpdated, NEW d, d = page[c].tup.ctid
    PROVE  d \in DOMAIN page /\ (d \in Tuples(page) => Linked(c, d) /\ Root(VerAt(d)) = Root(VerAt(c)) /\ VerAt(c) < VerAt(d))
<1> USE DEF PageInv
<1>1. d \in DOMAIN page
  BY DEF Links
<1>2. ASSUME d \in Tuples(page) PROVE Linked(c, d)
  <2>1. page[d].tup.xmin \in UpdaterOf(c)
    BY <1>2 DEF Intact, Tuples
  <2> QED
    BY <1>2, <2>1 DEF Linked
<1> QED
  BY <1>1, <1>2 DEF Links

\* The set C of k + 1 tuples has been visited, c the last.
Counted(C, c, k) ==
    /\ C \subseteq Tuples(page) /\ c \in C /\ IsFiniteSet(C) /\ Cardinality(C) = k + 1
    /\ \A o \in C : VerAt(o) <= VerAt(c)

\* Verdict e is that of the k-th step of the walk of root r.
Reaches(r, e, k) ==
    \E c \in DOMAIN page :
        /\ e = VisitStep(page, clog, c) /\ (c \in Tuples(page) => Root(VerAt(c)) = r)
        /\ (\E v \in LiveVers(vers) : Root(v) = r) =>
              Heads(r, c) /\ (e.kind = "next" => \E C : Counted(C, c, k))

\* The walk begins.
LEMMA ReachStart ==
    ASSUME Shaped, PageInv, NEW r \in DOMAIN page, IsRoot(page, r), NEW c, c = StartOf(page, r)
    PROVE  Reaches(r, VisitStep(page, clog, c), 0)
<1>1. c \in Tuples(page) /\ Root(VerAt(c)) = r /\ Heads(r, c)
  BY StartHeads
<1>2. VerAt(c) \in Nat
  BY <1>1, VerIs DEF PageInv, Versions
<1>3. Counted({c}, c, 0)
  <2>1. IsFiniteSet({c}) /\ Cardinality({c}) = 1
    BY FS_Singleton, Zenon
  <2>2. VerAt(c) <= VerAt(c)
    BY <1>2
  <2>3. \A o \in {c} : VerAt(o) <= VerAt(c)
    BY <2>2, Zenon
  <2>4. Cardinality({c}) = 0 + 1
    BY <2>1
  <2>5. {c} \subseteq Tuples(page) /\ c \in {c}
    BY <1>1
  <2> QED
    BY <2>1, <2>3, <2>4, <2>5, Zenon DEF Counted
<1>4. c \in DOMAIN page
  BY <1>1 DEF Tuples
<1> QED
  BY <1>1, <1>3, <1>4 DEF Reaches

\* The walk goes on.
LEMMA ReachNext ==
    ASSUME Shaped, Logged, PageInv, Whole, Intact, NEW r, NEW e, NEW k \in Nat, Reaches(r, e, k), NEW e1,
           e1 = IF e.kind = "next" THEN VisitStep(page, clog, e.at) ELSE e
    PROVE  Reaches(r, e1, k + 1) /\ (e.kind = "next" => e.at \in DOMAIN page)
<1> USE DEF PageInv
<1>1. PICK c \in DOMAIN page :
        /\ e = VisitStep(page, clog, c) /\ (c \in Tuples(page) => Root(VerAt(c)) = r)
        /\ (\E v \in LiveVers(vers) : Root(v) = r) =>
              Heads(r, c) /\ (e.kind = "next" => \E C : Counted(C, c, k))
  BY DEF Reaches
<1>2. CASE e.kind # "next"
  <2>1. e1 = e
    BY <1>2
  <2> QED
    BY <1>1, <1>2, <2>1 DEF Reaches
<1>3. CASE e.kind = "next"
  <2>1. PICK d : d = e.at
    OBVIOUS
  <2>2. c \in Tuples(page) /\ page[c].tup.hotUpdated /\ d = page[c].tup.ctid
    BY <1>1, <1>3, <2>1, VisitIs
  <2>3. d \in DOMAIN page /\ (d \in Tuples(page) => Root(VerAt(d)) = r /\ VerAt(c) < VerAt(d))
    BY <1>1, <2>2, LinkRoot
  <2>4. e1 = VisitStep(page, clog, d)
    BY <1>3, <2>1
  <2>5. ASSUME \E v \in LiveVers(vers) : Root(v) = r PROVE Heads(r, d)
    <3>1. Heads(r, c)
      BY <1>1, <2>5
    <3>2. Heads(r, e.at)
      BY <1>1, <1>3, <2>5, <3>1, Visited
    <3> QED
      BY <2>1, <3>2
  <2>6. ASSUME \E v \in LiveVers(vers) : Root(v) = r, e1.kind = "next" PROVE \E C : Counted(C, d, k + 1)
    <3>1. d \in Tuples(page)
      BY <2>3, <2>4, <2>6, VisitIs
    <3>2. PICK C : Counted(C, c, k)
      BY <1>1, <1>3, <2>6
    <3>3. /\ C \subseteq Tuples(page) /\ IsFiniteSet(C) /\ Cardinality(C) = k + 1
          /\ \A o \in C : VerAt(o) <= VerAt(c)
      BY <3>2 DEF Counted
    <3>4. \A o \in Tuples(page) : VerAt(o) \in Nat
      BY VerIs DEF Versions
    <3>5. \A o \in C : VerAt(o) < VerAt(d)
      BY <2>2, <2>3, <3>1, <3>3, <3>4
    <3>6. d \notin C
      BY <3>1, <3>4, <3>5
    <3>7. IsFiniteSet(C \cup {d}) /\ Cardinality(C \cup {d}) = k + 2
      BY <3>3, <3>6, FS_AddElement
    <3>8. \A o \in C \cup {d} : VerAt(o) <= VerAt(d)
      BY <3>1, <3>3, <3>4, <3>5
    <3>9. Counted(C \cup {d}, d, k + 1)
      BY <3>1, <3>3, <3>7, <3>8 DEF Counted
    <3> QED
      BY <3>9
  <2> QED
    BY <2>1, <2>3, <2>4, <2>5, <2>6 DEF Reaches
<1> QED
  BY <1>2, <1>3

\* The walk has ended after as many steps as the page has line pointers.
LEMMA ReachEnd ==
    ASSUME Shaped, Logged, PageInv, Whole, NoUpdaterMulti, NEW r, NEW e, Reaches(r, e, Len(page))
    PROVE  /\ e.kind # "error"
           /\ e.kind = "row" => e.at \in Tuples(page) /\ VerAt(e.at) \in LiveVers(vers) /\ Root(VerAt(e.at)) = r
           /\ (\E v \in LiveVers(vers) : Root(v) = r) => e.kind = "row"
<1> USE DEF PageInv
<1>1. PICK c \in DOMAIN page :
        /\ e = VisitStep(page, clog, c) /\ (c \in Tuples(page) => Root(VerAt(c)) = r)
        /\ (\E v \in LiveVers(vers) : Root(v) = r) =>
              Heads(r, c) /\ (e.kind = "next" => \E C : Counted(C, c, Len(page)))
  BY DEF Reaches
<1>2. e.kind \in {"none", "row", "error", "next"}
  BY <1>1, VisitIs
<1>3. e.kind # "error"
  <2> SUFFICES ASSUME e.kind = "error" PROVE FALSE
    OBVIOUS
  <2>1. c \in Tuples(page) /\ tuple_visible(clog, page[c].tup) = "error"
    BY <1>1, VisitIs
  <2>2. page[c].tup.multi /\ ~page[c].tup.lockOnly
    BY <2>1, VisibleIs
  <2> QED
    BY <2>1, <2>2 DEF NoUpdaterMulti
<1>4. ASSUME e.kind = "row"
      PROVE  e.at \in Tuples(page) /\ VerAt(e.at) \in LiveVers(vers) /\ Root(VerAt(e.at)) = r
  <2>1. c \in Tuples(page) /\ tuple_visible(clog, page[c].tup) = "yes" /\ e.at = c
    BY <1>1, <1>4, VisitIs
  <2>2. VerAt(c) \in LiveVers(vers)
    BY <2>1, VisibleIs
  <2> QED
    BY <1>1, <2>1, <2>2
<1>5. ASSUME NEW v \in LiveVers(vers), Root(v) = r PROVE e.kind = "row"
  <2>1. Heads(r, c) /\ (e.kind = "next" => \E C : Counted(C, c, Len(page)))
    BY <1>1, <1>5
  <2>2. e.kind # "none"
    BY <1>1, <1>5, <2>1, Visited
  <2>3. ASSUME e.kind = "next" PROVE FALSE
    <3>1. PICK C : Counted(C, c, Len(page))
      BY <2>1, <2>3
    <3>2. C \subseteq 1..Len(page) /\ Cardinality(C) = Len(page) + 1 /\ Len(page) \in Nat
      BY <3>1 DEF Counted, Tuples, Shaped
    <3>3. IsFiniteSet(1..Len(page)) /\ Cardinality(1..Len(page)) = Len(page)
      <4>1. PICK n : n = Len(page)
        OBVIOUS
      <4>2. n \in Nat /\ 1 \in Int
        BY <3>2, <4>1
      <4>3. IsFiniteSet(1..n) /\ Cardinality(1..n) = n
        BY <4>2, FS_Interval
      <4> QED
        BY <4>1, <4>3
    <3>4. Cardinality(C) <= Cardinality(1..Len(page))
      BY <3>2, <3>3, FS_Subset
    <3> QED
      BY <3>2, <3>3, <3>4
  <2> QED
    BY <1>2, <1>3, <2>2, <2>3
<1> QED
  BY <1>3, <1>4, <1>5

\* visible_version from a chain's start finds the live version of its root.
LEMMA VersionIs ==
    ASSUME Shaped, Logged, PageInv, Whole, NoUpdaterMulti, Intact, NEW r \in DOMAIN page, IsRoot(page, r),
           NEW s, s = StartOf(page, r), NEW w, w = visible_version(page, clog, s)
    PROVE  /\ w.kind # "error"
           /\ w.kind = "row" => w.at \in Tuples(page) /\ VerAt(w.at) \in LiveVers(vers) /\ Root(VerAt(w.at)) = r
           /\ (\E v \in LiveVers(vers) : Root(v) = r) => w.kind = "row"
<1> DEFINE n == Len(page)
           T == {VisitStep(page, clog, c) : c \in DOMAIN page}
           After(e) == IF e.kind = "next" THEN VisitStep(page, clog, e.at) ELSE e
           F == [p \in (1..n) \X T |-> After(p[2])]
           Fits(g) == g = [k \in 0..n |-> IF k = 0 THEN VisitStep(page, clog, s)
                             ELSE IF g[k - 1].kind = "next"
                             THEN VisitStep(page, clog, g[k - 1].at) ELSE g[k - 1]]
<1>1. n \in Nat /\ s \in DOMAIN page
  BY StartTuple DEF PageInv, Shaped, Tuples
<1>2. ASSUME NEW e \in T PROVE After(e) \in T
  <2>1. PICK c \in DOMAIN page : e = VisitStep(page, clog, c)
    OBVIOUS
  <2>2. CASE e.kind = "next"
    <3>1. c \in Tuples(page) /\ page[c].tup.hotUpdated /\ e.at = page[c].tup.ctid
      BY <2>1, <2>2, VisitIs
    <3>2. e.at \in DOMAIN page
      BY <3>1 DEF PageInv, Links
    <3> QED
      BY <2>2, <3>2
  <2>3. CASE e.kind # "next"
    BY <2>3
  <2> QED
    BY <2>2, <2>3
<1>3. PICK G : G = F
  OBVIOUS
<1>4. PICK b : b = VisitStep(page, clog, s)
  OBVIOUS
<1>5. PICK h : Iterates(h, G, n, T, b)
  <2>1. F \in [(1..n) \X T -> T]
    <3> HIDE DEF After, T, n
    <3> QED
      BY <1>2
  <2>2. b \in T /\ StepOn(G, n, T)
    BY <1>1, <1>3, <1>4, <2>1 DEF StepOn
  <2> HIDE DEF n, F, T
  <2> QED
    BY <1>1, <2>2, Recursion
<1> HIDE DEF n, T
<1>6. Fits(h)
  <2>1. ASSUME NEW k \in 1..n PROVE h[k] = After(h[k - 1])
    <3>1. PICK e : e = h[k - 1]
      OBVIOUS
    <3>2. e \in T
      <4>1. k - 1 \in 0..n
        BY <1>1
      <4> QED
        BY <1>5, <3>1, <4>1 DEF Iterates
    <3>3. h[k] = F[<<k, e>>]
      <4> HIDE DEF F
      <4> QED
        BY <1>3, <1>5, <3>1 DEF Iterates
    <3> HIDE DEF After
    <3> QED
      BY <3>1, <3>2, <3>3
  <2>2. h \in [0..n -> T] /\ h[0] = b
    BY <1>5 DEF Iterates
  <2>3. h = [k \in 0..n |-> IF k = 0 THEN b ELSE After(h[k - 1])]
    <3> HIDE DEF After
    <3> QED
      BY <1>1, <2>1, <2>2
  <2> QED
    BY <1>4, <2>3
<1>7. PICK g : g = CHOOSE z : Fits(z)
  OBVIOUS
<1>8. Fits(g)
  <2> HIDE DEF Fits
  <2> QED
    BY <1>6, <1>7
<1>9. g[0] = b /\ \A k \in 1..n : g[k] = After(g[k - 1])
  <2>1. g = [k \in 0..n |-> IF k = 0 THEN b ELSE After(g[k - 1])]
    BY <1>4, <1>8
  <2> HIDE DEF After, Fits
  <2> QED
    BY <1>1, <2>1
<1>10. w = g[n]
  BY <1>7 DEF visible_version, n
<1> HIDE DEF Fits, F
<1> DEFINE S == {k \in Nat : k <= n => Reaches(r, g[k], k)}
<1>11. 0 \in S
  BY <1>4, <1>9, ReachStart
<1>12. ASSUME NEW k \in Nat, k \in S PROVE k + 1 \in S
  <2> SUFFICES ASSUME k + 1 <= n PROVE Reaches(r, g[k + 1], k + 1)
    OBVIOUS
  <2>1. k + 1 \in 1..n /\ (k + 1) - 1 = k /\ k <= n
    BY <1>1
  <2>2. PICK e, e1 : e = g[k] /\ e1 = g[k + 1]
    OBVIOUS
  <2>3. Reaches(r, e, k)
    BY <1>12, <2>1, <2>2
  <2>4. e1 = IF e.kind = "next" THEN VisitStep(page, clog, e.at) ELSE e
    BY <1>9, <2>1, <2>2
  <2>5. Reaches(r, e1, k + 1)
    BY <2>3, <2>4, ReachNext
  <2> QED
    BY <2>2, <2>5
<1>13. Reaches(r, w, n)
  <2>1. n \in S
    <3> HIDE DEF S
    <3> QED
      BY <1>1, <1>11, <1>12, Inductive
  <2> QED
    BY <1>10, <2>1
<1>14. Reaches(r, w, Len(page))
  BY <1>13 DEF n
<1> QED
  BY <1>14, ReachEnd

\* The rows of emit_page.
LEMMA EmitPageIs ==
    ASSUME Shaped, Logged, PageInv, Whole, NoUpdaterMulti, Intact
    PROVE  EmitPage(page, clog) = [fails |-> FALSE, rows |-> LiveRows(vers)]
<1> DEFINE q == chain_roots(page)
           W(r) == visible_version(page, clog, r[2])
           found == {[root |-> r[1], v |-> visible_version(page, clog, r[2])] : r \in Range(chain_roots(page))}
           fails == \E f \in found : f.v.kind = "error"
           rows == {<<f.root, page[f.v.at].tup.ver>> : f \in {g \in found : g.v.kind = "row"}}
<1> USE DEF PageInv
<1>1. RootsUpTo(q, page, Len(page)) /\ DOMAIN page = 1..Len(page)
  BY ChainRootsIs DEF Shaped
<1>2. /\ \A e \in Range(q) : e[1] \in DOMAIN page /\ IsRoot(page, e[1]) /\ e[2] = StartOf(page, e[1])
      /\ \A o \in DOMAIN page : IsRoot(page, o) => \E e \in Range(q) : e[1] = o /\ e[2] = StartOf(page, o)
  <2> HIDE DEF q
  <2> QED
    BY <1>1 DEF RootsUpTo, Range
<1>3. ASSUME NEW f \in found
      PROVE  /\ f.v.kind # "error"
             /\ f.v.kind = "row" => /\ f.v.at \in Tuples(page) /\ VerAt(f.v.at) \in LiveVers(vers)
                                    /\ Root(VerAt(f.v.at)) = f.root
  <2>1. PICK e \in Range(q) : f = [root |-> e[1], v |-> visible_version(page, clog, e[2])]
    BY <1>3
  <2>2. PICK r, s, w : r = e[1] /\ s = e[2] /\ w = visible_version(page, clog, s)
    OBVIOUS
  <2>3. f.root = r /\ f.v = w
    BY <2>1, <2>2
  <2>4. r \in DOMAIN page /\ IsRoot(page, r) /\ s = StartOf(page, r)
    BY <1>2, <2>2
  <2>5. /\ w.kind # "error"
        /\ w.kind = "row" => w.at \in Tuples(page) /\ VerAt(w.at) \in LiveVers(vers) /\ Root(VerAt(w.at)) = r
    BY <2>2, <2>4, VersionIs
  <2> QED
    BY <2>3, <2>5
<1>4. ASSUME NEW v \in LiveVers(vers)
      PROVE  \E f \in found : f.v.kind = "row" /\ f.root = Root(v) /\ VerAt(f.v.at) = v
  <2>1. PICK r : r = Root(v)
    OBVIOUS
  <2>2. r \in DOMAIN page /\ IsRoot(page, r)
    BY <2>1, LiveIs, LiveRoot
  <2>3. PICK e \in Range(q) : e[1] = r /\ e[2] = StartOf(page, r)
    BY <1>2, <2>2
  <2>4. PICK s, w : s = e[2] /\ w = visible_version(page, clog, s)
    OBVIOUS
  <2>5. w.kind = "row" /\ VerAt(w.at) \in LiveVers(vers) /\ Root(VerAt(w.at)) = r
    BY <2>1, <2>2, <2>3, <2>4, VersionIs
  <2>6. VerAt(w.at) = v
    BY <2>1, <2>5, OneLive
  <2>7. PICK f : f = [root |-> e[1], v |-> visible_version(page, clog, e[2])]
    OBVIOUS
  <2>8. f \in found /\ f.root = r /\ f.v = w
    BY <2>3, <2>4, <2>7
  <2> QED
    BY <2>1, <2>5, <2>6, <2>8
<1>5. EmitPage(page, clog) = [fails |-> fails, rows |-> rows]
  BY Zenon DEF EmitPage
<1> HIDE DEF found
<1>6. fails = FALSE
  BY <1>3
<1>7. rows \subseteq LiveRows(vers)
  <2> SUFFICES ASSUME NEW e \in rows PROVE e \in LiveRows(vers)
    OBVIOUS
  <2>1. PICK f \in found : f.v.kind = "row" /\ e = <<f.root, page[f.v.at].tup.ver>>
    OBVIOUS
  <2>2. PICK u : u = VerAt(f.v.at)
    OBVIOUS
  <2>3. u \in LiveVers(vers) /\ Root(u) = f.root /\ e = <<Root(u), u>>
    BY <1>3, <2>1, <2>2 DEF VerAt
  <2> QED
    BY <2>3 DEF LiveRows, Root
<1>8. LiveRows(vers) \subseteq rows
  <2> SUFFICES ASSUME NEW v \in LiveVers(vers) PROVE <<Root(v), v>> \in rows
    BY DEF LiveRows, Root
  <2>1. PICK f \in found : f.v.kind = "row" /\ f.root = Root(v) /\ VerAt(f.v.at) = v
    BY <1>4
  <2>2. <<f.root, page[f.v.at].tup.ver>> \in rows
    BY <2>1
  <2> QED
    BY <2>1, <2>2 DEF VerAt
<1>9. rows = LiveRows(vers)
  BY <1>7, <1>8
<1> HIDE DEF rows, fails
<1> QED
  BY <1>5, <1>6, <1>9

\* The catalog scan.
LEMMA CatalogIs ==
    ASSUME Shaped, Logged, PageInv, Whole, NoUpdaterMulti
    PROVE  CatalogScan(page, clog) = LiveVers(vers)
<1> USE DEF PageInv
<1>1. \A o \in Tuples(page) : tuple_visible(clog, page[o].tup) = "yes" => VerAt(o) \in LiveVers(vers)
  BY VisibleIs
<1>2. ASSUME NEW v \in LiveVers(vers)
      PROVE  \E o \in Tuples(page) : tuple_visible(clog, page[o].tup) = "yes" /\ VerAt(o) = v
  <2>1. PICK o \in Tuples(page) : VerAt(o) = v
    BY LiveIs DEF Present
  <2>2. PICK a : a = tuple_visible(clog, page[o].tup)
    OBVIOUS
  <2>3. /\ a \in {"yes", "no", "error"}
        /\ a = "no" => ~TrulyCommitted(By(VerAt(o))) \/ \E u \in UpdaterOf(o) : TrulyCommitted(u)
        /\ a = "error" => page[o].tup.multi /\ ~page[o].tup.lockOnly
    BY <2>2, VisibleIs
  <2>4. a # "error"
    BY <2>3 DEF NoUpdaterMulti
  <2>5. TrulyCommitted(By(VerAt(o))) /\ \A u \in UpdaterOf(o) : ~TrulyCommitted(u)
    BY <2>1, LiveIs, LiveTuple
  <2> QED
    BY <2>1, <2>2, <2>3, <2>4, <2>5
<1> QED
  BY <1>1, <1>2 DEF CatalogScan, VerAt

\* ReadersAgree follows from the invariant.
LEMMA InvReaders == Inv => ReadersAgree
<1> SUFFICES ASSUME Inv, Settled, NoUpdaterMulti, Intact
             PROVE  /\ EmitPage(page, clog) = [fails |-> FALSE, rows |-> LiveRows(vers)]
                    /\ CatalogScan(page, clog) = LiveVers(vers)
  BY DEF ReadersAgree
<1>0. Shaped /\ Logged /\ PageInv /\ Whole
  BY InvIs DEF Settled, Whole, St
<1> QED
  BY <1>0, EmitPageIs, CatalogIs

\* The two readers of a page agree (catalog.rs scan and fragment.rs emit_page),
\* and find exactly the committed rows.
THEOREM ReadersCorrect == Spec => []ReadersAgree
BY InvHolds, InvReaders, PTL
=============================================================================
