-------------------------- MODULE ChangeLogProofs --------------------------
(***************************************************************************)
(* Proofs about module ChangeLog, for any keys, ctids and transactions,    *)
(* either driver, and any number of records, schema changes and faults.    *)
(***************************************************************************)
EXTENDS ChangeLog, WellFoundedInduction, TLAPS

-----------------------------------------------------------------------------
\* Numbers.

\* Induction over Nat for a set.
LEMMA Inductive ==
    ASSUME NEW S, 0 \in S, \A n \in Nat : n \in S => n + 1 \in S
    PROVE  \A n \in Nat : n \in S
<1> DEFINE D == {n \in Nat : n \notin S}
<1>1. SUFFICES ASSUME D # {} PROVE FALSE
  OBVIOUS
<1>2. PICK d \in D : \A n \in D : <<n, d>> \notin OpToRel(<, Nat)
  BY <1>1, WFMin, NatLessThanWellFounded, Zenon
<1>3. \A n \in D : ~(n < d)
  BY <1>2, Zenon DEF OpToRel
<1>4. d \in Nat /\ d # 0
  OBVIOUS
<1>5. d - 1 \in Nat /\ d - 1 < d /\ (d - 1) + 1 = d
  BY <1>4
<1>6. d - 1 \in S
  BY <1>3, <1>5
<1> QED
  BY <1>5, <1>6

\* The greater of two numbers.
LEMMA MaxOfTwo ==
    ASSUME NEW a \in Nat, NEW b \in Nat
    PROVE  Max({a, b}) \in Nat /\ Max({a, b}) >= a /\ Max({a, b}) >= b
<1>1. \E x \in {a, b} : \A y \in {a, b} : x >= y
  <2>1. CASE a >= b
    BY <2>1
  <2>2. CASE ~(a >= b)
    BY <2>2
  <2> QED
    BY <2>1, <2>2
<1>2. Max({a, b}) \in {a, b} /\ \A y \in {a, b} : Max({a, b}) >= y
  <2>1. Max({a, b}) = CHOOSE x \in {a, b} : \A y \in {a, b} : x >= y
    BY DEF Max
  <2> QED
    BY <1>1, <2>1
<1> QED
  BY <1>2

\* The last of some indices.
LEMMA LastIndex ==
    ASSUME NEW n \in Nat, NEW T, T \subseteq 1 .. n, T # {}
    PROVE  (CHOOSE i \in T : \A j \in T : j <= i) \in T
<1> DEFINE S == {m \in Nat : \A U \in SUBSET (1 .. m) : U # {} => \E i \in U : \A j \in U : j <= i}
<1>1. 0 \in S
  <2>1. 1 .. 0 = {}
    OBVIOUS
  <2> QED
    BY <2>1
<1>2. ASSUME NEW m \in Nat, m \in S PROVE m + 1 \in S
  <2> SUFFICES ASSUME NEW U \in SUBSET (1 .. m + 1), U # {} PROVE \E i \in U : \A j \in U : j <= i
    OBVIOUS
  <2>1. CASE m + 1 \in U
    <3>1. \A j \in U : j <= m + 1
      OBVIOUS
    <3> QED
      BY <2>1, <3>1
  <2>2. CASE m + 1 \notin U
    <3>1. U \in SUBSET (1 .. m)
      BY <2>2
    <3> QED
      BY <1>2, <3>1
  <2> QED
    BY <2>1, <2>2
<1>3. n \in S
  <2> HIDE DEF S
  <2> QED
    BY <1>1, <1>2, Inductive
<1>4. \E i \in T : \A j \in T : j <= i
  BY <1>3
<1> QED
  BY <1>4

-----------------------------------------------------------------------------
\* What makes TypeOK inductive.

Slots(n) == [Ctids -> [key : Keys \cup {None}, val : 0 .. n,
                       ins : Xids \cup {None}, del : Xids \cup {None}]]
Rows == [Ctids -> Row]
Moment == [rows : Rows, cat : Cat]
WalRec == [kind : Changes \cup {"ddl", "commit", "abort"}, xid : Xids, old : Ctids \cup {None},
           ctid : Ctids \cup {None}, key : Keys \cup {None}, cat : Cat]
Ops == [kind : Changes, lsn : Nat, old : Ctids \cup {None}, ctid : Ctids, row : Row]

\* A change names the tuples it is about, and an INSERT its key.
Names(r) == /\ r.kind \in Changes => r.ctid \in Ctids
            /\ r.kind = "update" => r.old \in Ctids

\* The source: its records, the tuples and those a schema change has put
\* aside, and the history.
SourceTyped ==
    /\ embedded \in BOOLEAN
    /\ wal \in Seq(WalRec) /\ \A i \in 1 .. Len(wal) : Names(wal[i])
    /\ rows \in Slots(Len(wal)) /\ cat \in Cat
    /\ ddl.xid \in Xids \cup {None} /\ ddl.cat \in Cat
    /\ ddl.xid # None => ddl.saved \in Slots(Len(wal))
    /\ hist \in Seq(Moment) /\ Len(hist) = Len(wal) + 1

\* The process: buffers, watermarks and the mirror.
StreamTyped ==
    /\ pc \in {"down", "gap", "run", "check", "snapshot"}
    /\ pos \in 0 .. Len(wal)
    /\ tx \in [Xids -> Seq(Ops)]
    /\ mirror \in Rows
    /\ remapAt \in Nat /\ dedupe \in Nat /\ maxCommit \in Nat /\ seq \in Nat

\* The rows on their way to the lake, and there.
RowsTyped ==
    /\ \A e \in pending : e.row \in Row /\ e.lsn \in Nat /\ e.lsn <= maxCommit
    /\ \A e \in lake.log : e.row \in Row
    /\ lake.commit \in Nat

Typed == SourceTyped /\ StreamTyped /\ RowsTyped

\* It says at least what TypeOK says.
LEMMA TypedIsTypeOK == Typed => TypeOK
BY DEF Typed, SourceTyped, StreamTyped, RowsTyped, TypeOK, Slots, Rows

\* The rows of a state of the source.
LEMMA CommittedIs ==
    ASSUME NEW n \in Nat, NEW rs \in Slots(n)
    PROVE  Committed(rs) \in Rows
<1>1. ASSUME NEW c \in Ctids PROVE RowAt(rs[c]) \in Row
  <2>1. rs[c].key \in Keys \cup {None} /\ rs[c].val \in 0 .. n
    BY DEF Slots
  <2> QED
    BY <2>1 DEF RowAt, Row, NoRow
<1> QED
  BY <1>1 DEF Committed, Rows

\* Slots may only grow.
LEMMA SlotsGrow ==
    ASSUME NEW n \in Nat, NEW rs \in Slots(n)
    PROVE  rs \in Slots(n + 1)
BY DEF Slots

\* Initially.
LEMMA TypedInit == Init => Typed
<1> SUFFICES ASSUME Init PROVE Typed
  OBVIOUS
<1>1. Len(wal) = 0 /\ wal \in Seq(WalRec)
  BY DEF Init
<1>2. rows \in Slots(0)
  BY DEF Init, Slots, Free
<1>3. hist \in Seq(Moment) /\ Len(hist) = 1
  <2>1. Committed(rows) \in Rows
    BY <1>2, CommittedIs
  <2>2. cat \in Cat
    BY DEF Init, Cat
  <2>3. [rows |-> Committed(rows), cat |-> cat] \in Moment
    BY <2>1, <2>2 DEF Moment
  <2> QED
    BY <2>3 DEF Init
<1>4. SourceTyped
  <2>1. embedded \in BOOLEAN
    BY ChangeLogAssumption DEF Init
  <2>2. cat \in Cat /\ ddl.xid = None /\ ddl.cat \in Cat
    BY DEF Init, Cat, NoDdl
  <2> QED
    BY <1>1, <1>2, <1>3, <2>1, <2>2 DEF SourceTyped
<1>5. StreamTyped
  <2>1. mirror \in Rows
    BY DEF Init, Empty, NoRow, Rows, Row
  <2>2. tx \in [Xids -> Seq(Ops)]
    BY DEF Init
  <2> QED
    BY <1>1, <2>1, <2>2 DEF Init, StreamTyped
<1>6. RowsTyped
  BY DEF Init, RowsTyped, NoLake
<1> QED
  BY <1>4, <1>5, <1>6 DEF Typed

-----------------------------------------------------------------------------
\* The source.

\* A record is one.
LEMMA RecordIs ==
    ASSUME Typed, NEW k \in Changes \cup {"ddl", "commit", "abort"}, NEW x \in Xids,
           NEW o \in Ctids \cup {None}, NEW c \in Ctids \cup {None}, NEW y \in Keys \cup {None}
    PROVE  /\ Record(k, x, o, c, y) \in WalRec
           /\ Record(k, x, o, c, y).kind = k /\ Record(k, x, o, c, y).ctid = c
           /\ Record(k, x, o, c, y).old = o
<1>1. cat \in Cat /\ ddl.cat \in Cat
  BY DEF Typed, SourceTyped
<1>2. (IF ddl.xid = x THEN ddl.cat ELSE cat) \in Cat
  BY <1>1
<1> QED
  BY <1>2 DEF Record, WalRec

\* What a logged record leaves behind.
LEMMA LogKeeps ==
    ASSUME Typed, NEW r \in WalRec, Names(r),
           NEW rs \in Slots(Len(wal) + 1), NEW ct \in Cat, Log(r, rs, ct),
           rows' \in Slots(Len(wal) + 1), cat' \in Cat,
           ddl'.xid \in Xids \cup {None}, ddl'.cat \in Cat,
           ddl'.xid # None => ddl'.saved \in Slots(Len(wal) + 1)
    PROVE  Typed'
<1>1. wal \in Seq(WalRec) /\ Len(wal) \in Nat /\ hist \in Seq(Moment) /\ Len(hist) = Len(wal) + 1
  BY DEF Typed, SourceTyped
<1>2. wal' \in Seq(WalRec) /\ Len(wal') = Len(wal) + 1
  BY <1>1 DEF Log
<1>3. \A i \in 1 .. Len(wal') : Names(wal'[i])
  <2> SUFFICES ASSUME NEW i \in 1 .. Len(wal') PROVE Names(wal'[i])
    OBVIOUS
  <2>1. wal'[i] = IF i = Len(wal) + 1 THEN r ELSE wal[i]
    BY <1>1, <1>2 DEF Log
  <2>2. i # Len(wal) + 1 => i \in 1 .. Len(wal)
    BY <1>1, <1>2
  <2> QED
    BY <2>1, <2>2 DEF Typed, SourceTyped
<1>4. hist' \in Seq(Moment) /\ Len(hist') = Len(wal') + 1
  <2>1. Committed(rs) \in Rows
    BY <1>1, CommittedIs
  <2>2. [rows |-> Committed(rs), cat |-> ct] \in Moment
    BY <2>1 DEF Moment
  <2> QED
    BY <1>1, <1>2, <2>2 DEF Log
<1>5. SourceTyped'
  <2>1. embedded' \in BOOLEAN
    BY DEF Log, Typed, SourceTyped
  <2> QED
    BY <1>2, <1>3, <1>4, <2>1 DEF SourceTyped
<1>6. StreamTyped'
  <2>1. /\ pc' = pc /\ pos' = pos /\ tx' = tx /\ mirror' = mirror /\ remapAt' = remapAt
        /\ dedupe' = dedupe /\ maxCommit' = maxCommit /\ seq' = seq
    BY DEF Log, stream, table, batch
  <2>2. pos \in 0 .. Len(wal')
    BY <1>1, <1>2 DEF Typed, StreamTyped
  <2> QED
    BY <2>1, <2>2 DEF Typed, StreamTyped
<1>7. RowsTyped'
  <2>1. pending' = pending /\ lake' = lake /\ maxCommit' = maxCommit
    BY DEF Log, batch
  <2> QED
    BY <2>1 DEF Typed, RowsTyped
<1> QED
  BY <1>5, <1>6, <1>7 DEF Typed

\* What others see while a schema change is open is a state of the table.
LEMMA OutsideIs ==
    ASSUME Typed, NEW rs \in Slots(Len(wal) + 1)
    PROVE  Outside(rs) \in Slots(Len(wal) + 1)
<1>1. Len(wal) \in Nat /\ (ddl.xid # None => ddl.saved \in Slots(Len(wal)))
  BY DEF Typed, SourceTyped
<1> QED
  BY <1>1, SlotsGrow DEF Outside

\* A change of rows.
LEMMA ChangeKeeps ==
    ASSUME Typed, NEW x, NEW r \in WalRec, Names(r), NEW rs \in Slots(Len(wal) + 1), Change(x, r, rs)
    PROVE  Typed'
<1>1. Len(wal) \in Nat /\ cat \in Cat /\ ddl.xid \in Xids \cup {None} /\ ddl.cat \in Cat
  BY DEF Typed, SourceTyped
<1>2. rows' = rs /\ Log(r, Outside(rs), cat) /\ cat' = cat /\ ddl' = ddl
  BY DEF Change
<1>3. ddl.xid # None => ddl.saved \in Slots(Len(wal) + 1)
  BY <1>1, SlotsGrow DEF Typed, SourceTyped
<1>4. Outside(rs) \in Slots(Len(wal) + 1)
  BY OutsideIs
<1> QED
  BY <1>1, <1>2, <1>3, <1>4, LogKeeps

\* The tuples as they are.
LEMMA RowsNow ==
    ASSUME Typed
    PROVE  /\ Len(wal) \in Nat /\ rows \in Slots(Len(wal)) /\ rows \in Slots(Len(wal) + 1)
           /\ \A c \in Ctids : rows[c].key \in Keys \cup {None}
BY SlotsGrow DEF Typed, SourceTyped, Slots

\* INSERT.
LEMMA InsertKeeps ==
    ASSUME Typed, NEW x \in Xids, NEW k \in Keys, NEW c \in Ctids, Insert(x, k, c)
    PROVE  Typed'
<1>1. PICK t : t = [key |-> k, val |-> Len(wal) + 1, ins |-> x, del |-> None]
  OBVIOUS
<1>2. [rows EXCEPT ![c] = t] \in Slots(Len(wal) + 1)
  BY <1>1, RowsNow DEF Slots
<1>3. Record("insert", x, None, c, k) \in WalRec /\ Names(Record("insert", x, None, c, k))
  <2>1. PICK r : r = Record("insert", x, None, c, k)
    OBVIOUS
  <2>2. r \in WalRec /\ r.kind = "insert" /\ r.ctid = c /\ r.old = None
    BY <2>1, RecordIs DEF Changes
  <2> QED
    BY <2>1, <2>2 DEF Names
<1>4. Change(x, Record("insert", x, None, c, k), [rows EXCEPT ![c] = t])
  BY <1>1 DEF Insert
<1> QED
  BY <1>2, <1>3, <1>4, ChangeKeeps

\* UPDATE.
LEMMA UpdateKeeps ==
    ASSUME Typed, NEW x \in Xids, NEW c \in Ctids, NEW d \in Ctids, Update(x, c, d)
    PROVE  Typed'
<1>1. PICK t : t = [key |-> rows[c].key, val |-> Len(wal) + 1, ins |-> x, del |-> None]
  OBVIOUS
<1>2. PICK rs : rs = [rows EXCEPT ![c].del = x, ![d] = t]
  OBVIOUS
<1>3. rs \in Slots(Len(wal) + 1)
  <2>1. PICK r1 : r1 = [rows EXCEPT ![c].del = x]
    OBVIOUS
  <2>2. r1 \in Slots(Len(wal) + 1)
    BY <2>1, RowsNow DEF Slots
  <2>3. rs = [r1 EXCEPT ![d] = t]
    BY <1>2, <2>1, Zenon
  <2>4. t \in [key : Keys \cup {None}, val : 0 .. Len(wal) + 1, ins : Xids \cup {None}, del : Xids \cup {None}]
    BY <1>1, RowsNow
  <2> QED
    BY <2>2, <2>3, <2>4 DEF Slots
<1>4. Record("update", x, c, d, None) \in WalRec /\ Names(Record("update", x, c, d, None))
  BY RecordIs DEF Changes, Names
<1>5. Change(x, Record("update", x, c, d, None), rs)
  BY <1>1, <1>2 DEF Update
<1> QED
  BY <1>3, <1>4, <1>5, ChangeKeeps

\* DELETE.
LEMMA DeleteKeeps ==
    ASSUME Typed, NEW x \in Xids, NEW c \in Ctids, Delete(x, c)
    PROVE  Typed'
<1>1. PICK rs : rs = [rows EXCEPT ![c].del = x]
  OBVIOUS
<1>2. rs \in Slots(Len(wal) + 1)
  BY <1>1, RowsNow DEF Slots
<1>3. Record("delete", x, None, c, None) \in WalRec /\ Names(Record("delete", x, None, c, None))
  BY RecordIs DEF Changes, Names
<1>4. Change(x, Record("delete", x, None, c, None), rs)
  BY <1>1 DEF Delete
<1> QED
  BY <1>2, <1>3, <1>4, ChangeKeeps

\* The record of a schema change or of an end.
LEMMA MarkIs ==
    ASSUME Typed, NEW k \in {"ddl", "commit", "abort"}, NEW x \in Xids
    PROVE  Mark(k, x) \in WalRec /\ Names(Mark(k, x))
<1>1. k \in Changes \cup {"ddl", "commit", "abort"} /\ k \notin Changes
  BY DEF Changes
<1>2. Record(k, x, None, None, None) \in WalRec /\ Record(k, x, None, None, None).kind = k
  BY <1>1, RecordIs
<1> QED
  BY <1>1, <1>2 DEF Mark, Names, Changes

\* A schema change.
LEMMA DdlKeeps ==
    ASSUME Typed, NEW x \in Xids, NEW new \in Cat, NEW rs \in Slots(Len(wal)), Ddl(x, new, rs)
    PROVE  Typed'
<1>1. Len(wal) \in Nat /\ rows \in Slots(Len(wal) + 1) /\ rs \in Slots(Len(wal) + 1)
  BY RowsNow, SlotsGrow
<1>2. cat \in Cat
  BY DEF Typed, SourceTyped
<1>3. /\ rows' = rs /\ cat' = cat /\ Log(Mark("ddl", x), rows, cat)
      /\ ddl' = [xid |-> x, saved |-> rows, cat |-> new]
  BY DEF Ddl
<1>4. ddl'.xid = x /\ ddl'.saved = rows /\ ddl'.cat = new
  BY <1>3
<1>5. Mark("ddl", x) \in WalRec /\ Names(Mark("ddl", x))
  BY MarkIs
<1> QED
  BY <1>1, <1>2, <1>3, <1>4, <1>5, LogKeeps

\* TRUNCATE, a rewrite, a new column, and DDL elsewhere.
LEMMA SchemaKeeps ==
    ASSUME Typed, NEW x \in Xids,
           Truncate(x) \/ (\E move \in Moves : Rewrite(x, move)) \/ AddColumn(x) \/ OtherDdl(x)
    PROVE  Typed'
<1>1. Len(wal) \in Nat /\ rows \in Slots(Len(wal)) /\ rows \in Slots(Len(wal) + 1)
  BY RowsNow
<1>2. cat \in Cat /\ ddl.xid \in Xids \cup {None} /\ ddl.cat \in Cat
  BY DEF Typed, SourceTyped
<1>3. Free \in [key : Keys \cup {None}, val : 0 .. Len(wal),
                ins : Xids \cup {None}, del : Xids \cup {None}]
  BY <1>1 DEF Free
<1>4. [cat EXCEPT !.node = @ + 1] \in Cat /\ [cat EXCEPT !.cols = @ + 1] \in Cat
  BY <1>2 DEF Cat
<1>5. CASE Truncate(x)
  <2>1. [c \in Ctids |-> Free] \in Slots(Len(wal))
    BY <1>3 DEF Slots
  <2>2. Ddl(x, [cat EXCEPT !.node = @ + 1], [c \in Ctids |-> Free])
    BY <1>5 DEF Truncate
  <2> QED
    BY <1>4, <2>1, <2>2, DdlKeeps
<1>6. CASE \E move \in Moves : Rewrite(x, move)
  <2>1. PICK move \in Moves : Rewrite(x, move)
    BY <1>6
  <2>2. PICK rs : rs = [c \in Ctids |-> IF rows[move[c]].del = None THEN rows[move[c]] ELSE Free]
    OBVIOUS
  <2>3. \A c \in Ctids : move[c] \in Ctids
    BY DEF Moves
  <2>4. rs \in Slots(Len(wal))
    BY <1>1, <1>3, <2>2, <2>3 DEF Slots
  <2>5. Ddl(x, [cat EXCEPT !.node = @ + 1], rs)
    BY <2>1, <2>2 DEF Rewrite
  <2> QED
    BY <1>4, <2>4, <2>5, DdlKeeps
<1>7. CASE AddColumn(x)
  <2>1. Ddl(x, [cat EXCEPT !.cols = @ + 1], rows)
    BY <1>7 DEF AddColumn
  <2> QED
    BY <1>1, <1>4, <2>1, DdlKeeps
<1>8. CASE OtherDdl(x)
  <2>1. Log(Mark("ddl", x), Outside(rows), cat) /\ rows' = rows /\ cat' = cat /\ ddl' = ddl
    BY <1>8 DEF OtherDdl
  <2>2. Outside(rows) \in Slots(Len(wal) + 1)
    BY <1>1, OutsideIs
  <2>3. Mark("ddl", x) \in WalRec /\ Names(Mark("ddl", x))
    BY MarkIs
  <2>4. ddl.xid # None => ddl.saved \in Slots(Len(wal) + 1)
    BY <1>1, SlotsGrow DEF Typed, SourceTyped
  <2> QED
    BY <1>1, <1>2, <2>1, <2>2, <2>3, <2>4, LogKeeps
<1> QED
  BY <1>5, <1>6, <1>7, <1>8

\* The tuples after the end of a transaction.
LEMMA EndedIs ==
    ASSUME NEW n \in Nat, NEW rs \in Slots(n), NEW x, NEW commits
    PROVE  Ended(rs, x, commits) \in Slots(n)
<1>1. Free \in [key : Keys \cup {None}, val : 0 .. n, ins : Xids \cup {None}, del : Xids \cup {None}]
  BY DEF Free
<1>2. ASSUME NEW c \in Ctids
      PROVE  [rs[c] EXCEPT !.ins = IF @ = x THEN None ELSE @, !.del = IF @ = x THEN None ELSE @]
               \in [key : Keys \cup {None}, val : 0 .. n, ins : Xids \cup {None}, del : Xids \cup {None}]
  <2>1. PICK s : s = rs[c]
    OBVIOUS
  <2>2. s \in [key : Keys \cup {None}, val : 0 .. n, ins : Xids \cup {None}, del : Xids \cup {None}]
    BY <2>1 DEF Slots
  <2> QED
    BY <2>1, <2>2
<1> QED
  BY <1>1, <1>2 DEF Ended, Slots

\* The end of a transaction.
LEMMA EndKeeps ==
    ASSUME Typed, NEW x \in Xids, NEW commits \in BOOLEAN, End(x, commits)
    PROVE  Typed'
<1> DEFINE mine == ddl.xid = x
           from == IF mine /\ ~commits THEN ddl.saved ELSE rows
           done == Ended(from, x, commits)
           now == IF mine /\ commits THEN ddl.cat ELSE cat
<1>1. Len(wal) \in Nat /\ rows \in Slots(Len(wal))
  BY RowsNow
<1>2. cat \in Cat /\ ddl.xid \in Xids \cup {None} /\ ddl.cat \in Cat
  BY DEF Typed, SourceTyped
<1>3. x # None
  BY ChangeLogAssumption
<1>4. from \in Slots(Len(wal))
  BY <1>1, <1>3 DEF Typed, SourceTyped
<1>5. done \in Slots(Len(wal) + 1)
  <2> HIDE DEF from
  <2> QED
    BY <1>1, <1>4, EndedIs, SlotsGrow
<1>6. now \in Cat
  BY <1>2
<1>7. /\ rows' = done /\ cat' = now /\ ddl' = (IF mine THEN NoDdl ELSE ddl)
      /\ Log(Mark(IF commits THEN "commit" ELSE "abort", x), IF mine THEN done ELSE Outside(done), now)
  BY DEF End
<1> HIDE DEF done, now
<1>8. (IF mine THEN done ELSE Outside(done)) \in Slots(Len(wal) + 1)
  BY <1>5, OutsideIs
<1>9. Mark(IF commits THEN "commit" ELSE "abort", x) \in WalRec
      /\ Names(Mark(IF commits THEN "commit" ELSE "abort", x))
  <2>1. (IF commits THEN "commit" ELSE "abort") \in {"ddl", "commit", "abort"}
    OBVIOUS
  <2> QED
    BY <2>1, MarkIs
<1>10. /\ ddl'.xid \in Xids \cup {None} /\ ddl'.cat \in Cat
       /\ ddl'.xid # None => ddl'.saved \in Slots(Len(wal) + 1)
  <2>1. CASE mine
    BY <1>7, <2>1 DEF NoDdl, Cat
  <2>2. CASE ~mine
    <3>1. ddl' = ddl
      BY <1>7, <2>2
    <3>2. ddl.xid # None => ddl.saved \in Slots(Len(wal) + 1)
      BY <1>1, SlotsGrow DEF Typed, SourceTyped
    <3> QED
      BY <1>2, <3>1, <3>2
  <2> QED
    BY <2>1, <2>2
<1>11. PICK g : g = IF mine THEN done ELSE Outside(done)
  OBVIOUS
<1>12. PICK r : r = Mark(IF commits THEN "commit" ELSE "abort", x)
  OBVIOUS
<1> QED
  BY <1>5, <1>6, <1>7, <1>8, <1>9, <1>10, <1>11, <1>12, LogKeeps

-----------------------------------------------------------------------------
\* Buffering.

\* The record that is read.
LEMMA ReadIs ==
    ASSUME Typed, NEW kinds, Reading(kinds)
    PROVE  /\ pos \in Nat /\ pos + 1 \in 1 .. Len(wal)
           /\ wal[pos + 1] \in WalRec /\ Names(wal[pos + 1]) /\ wal[pos + 1].kind \in kinds
           /\ wal[pos + 1].xid \in Xids /\ Lsn(pos + 1) \in Nat
           /\ pos' = pos + 1 /\ pc' = pc /\ pos' \in 0 .. Len(wal)
           /\ wal' = wal /\ lake' = lake /\ SourceTyped'
<1>1. wal \in Seq(WalRec) /\ Len(wal) \in Nat /\ pos \in 0 .. Len(wal) /\ embedded \in BOOLEAN
  BY DEF Typed, SourceTyped, StreamTyped
<1>2. /\ pos < Len(wal) /\ wal[pos + 1].kind \in kinds /\ pos' = pos + 1 /\ pc' = pc
      /\ wal' = wal /\ rows' = rows /\ cat' = cat /\ ddl' = ddl /\ hist' = hist
      /\ lake' = lake /\ embedded' = embedded
  BY DEF Reading, source
<1>3. pos \in Nat /\ pos + 1 \in 1 .. Len(wal) /\ pos' \in 0 .. Len(wal)
  BY <1>1, <1>2
<1>4. wal[pos + 1] \in WalRec /\ Names(wal[pos + 1])
  BY <1>1, <1>3 DEF Typed, SourceTyped
<1>5. wal[pos + 1].xid \in Xids
  BY <1>4 DEF WalRec
<1>6. Lsn(pos + 1) \in Nat
  BY <1>1, <1>3 DEF Lsn
<1>7. SourceTyped'
  BY <1>2 DEF Typed, SourceTyped
<1> QED
  BY <1>2, <1>3, <1>4, <1>5, <1>6, <1>7

\* An uncommitted version is a row.
LEMMA OverlayIs ==
    ASSUME Typed, NEW x \in Xids, NEW c
    PROVE  overlay(x, c) \in Row
<1> DEFINE touching == {i \in DOMAIN tx[x] : c \in {tx[x][i].old, tx[x][i].ctid}}
           at == CHOOSE i \in touching : \A j \in touching : j <= i
<1>1. tx[x] \in Seq(Ops) /\ Len(tx[x]) \in Nat /\ DOMAIN tx[x] = 1 .. Len(tx[x])
  BY DEF Typed, StreamTyped
<1>2. NoRow \in Row
  BY DEF NoRow, Row
<1>3. overlay(x, c) = IF touching = {} \/ tx[x][at].kind = "delete" \/ tx[x][at].old = c
                      THEN NoRow ELSE tx[x][at].row
  BY DEF overlay
<1>4. CASE touching = {}
  BY <1>2, <1>3, <1>4
<1>5. CASE touching # {}
  <2>1. touching \subseteq 1 .. Len(tx[x])
    BY <1>1
  <2>2. at \in touching
    <3> HIDE DEF touching
    <3> QED
      BY <1>1, <1>5, <2>1, LastIndex
  <2>3. at \in 1 .. Len(tx[x])
    BY <2>1, <2>2
  <2> HIDE DEF touching, at
  <2>4. tx[x][at] \in Ops
    BY <1>1, <2>3
  <2>5. tx[x][at].row \in Row
    BY <2>4 DEF Ops
  <2> QED
    BY <1>2, <1>3, <2>5
<1> QED
  BY <1>4, <1>5

\* So is a pre-image.
LEMMA PreimageIs ==
    ASSUME Typed, NEW c \in Ctids
    PROVE  preimage(c) \in Row
<1> DEFINE found == {x \in Xids : overlay(x, c) # NoRow}
<1>1. mirror[c] \in Row
  BY DEF Typed, StreamTyped, Rows
<1>2. preimage(c) = IF found = {} THEN mirror[c] ELSE overlay(CHOOSE x \in found : TRUE, c)
  BY DEF preimage
<1>3. found # {} => (CHOOSE x \in found : TRUE) \in Xids
  OBVIOUS
<1> HIDE DEF found
<1> QED
  BY <1>1, <1>2, <1>3, OverlayIs

\* And what a change decodes to.
LEMMA DecodedIs ==
    ASSUME Typed, NEW r \in WalRec, Names(r), r.kind \in Changes, pos \in Nat
    PROVE  Decoded(r) \in Row
<1>1. r.key \in Keys \cup {None} /\ r.ctid \in Ctids /\ (r.kind = "update" => r.old \in Ctids)
  BY DEF WalRec, Names
<1>2. CASE r.kind = "insert"
  <2>1. Decoded(r) = [key |-> r.key, val |-> pos + 1]
    BY <1>2 DEF Decoded
  <2> QED
    BY <1>1, <2>1 DEF Row
<1>3. CASE r.kind = "update"
  <2>1. Decoded(r) = [key |-> preimage(r.old).key, val |-> pos + 1]
    BY <1>3 DEF Decoded
  <2>2. preimage(r.old).key \in Keys \cup {None}
    BY <1>1, <1>3, PreimageIs DEF Row
  <2> QED
    BY <2>1, <2>2 DEF Row
<1>4. CASE r.kind = "delete"
  <2>1. Decoded(r) = preimage(r.ctid)
    BY <1>4 DEF Decoded
  <2> QED
    BY <1>1, <2>1, PreimageIs
<1> QED
  BY <1>2, <1>3, <1>4 DEF Changes

\* A change is buffered.
LEMMA HandleChangeKeeps ==
    ASSUME Typed, HandleChange
    PROVE  Typed'
<1>1. PICK r : r = wal[pos + 1]
  OBVIOUS
<1>2. Reading(Changes)
  BY DEF HandleChange
<1>3. /\ pos \in Nat /\ r \in WalRec /\ Names(r) /\ r.kind \in Changes /\ r.xid \in Xids
      /\ Lsn(pos + 1) \in Nat /\ pc' = pc /\ pos' \in 0 .. Len(wal) /\ wal' = wal /\ lake' = lake
      /\ SourceTyped'
  BY <1>1, <1>2, ReadIs
<1>4. PICK o : o = Op(r.kind, Lsn(pos + 1), r.old, r.ctid, Decoded(r))
  OBVIOUS
<1>5. o \in Ops
  <2>1. Decoded(r) \in Row
    BY <1>3, DecodedIs
  <2>2. r.old \in Ctids \cup {None} /\ r.ctid \in Ctids
    BY <1>3 DEF WalRec, Names
  <2> QED
    BY <1>3, <1>4, <2>1, <2>2 DEF Op, Ops
<1>6. /\ tx' = tx \/ tx' = [tx EXCEPT ![r.xid] = Append(@, o)]
      /\ remapAt' = remapAt \/ remapAt' = Lsn(pos + 1)
  BY <1>1, <1>4 DEF HandleChange
<1>7. mirror' = mirror /\ dedupe' = dedupe /\ pending' = pending /\ maxCommit' = maxCommit /\ seq' = seq
  BY DEF HandleChange, batch
<1>8. tx' \in [Xids -> Seq(Ops)]
  <2>1. tx \in [Xids -> Seq(Ops)]
    BY DEF Typed, StreamTyped
  <2>2. tx[r.xid] \in Seq(Ops)
    BY <1>3, <2>1
  <2>3. Append(tx[r.xid], o) \in Seq(Ops)
    BY <1>5, <2>2
  <2> QED
    BY <1>6, <2>1, <2>3
<1>9. StreamTyped'
  BY <1>3, <1>6, <1>7, <1>8 DEF Typed, StreamTyped
<1>10. RowsTyped'
  BY <1>3, <1>7 DEF Typed, RowsTyped
<1> QED
  BY <1>3, <1>9, <1>10 DEF Typed

\* Schema changes and aborts.
LEMMA HandleEndKeeps ==
    ASSUME Typed, HandleDdl \/ HandleAbort
    PROVE  Typed'
<1>1. PICK kinds : Reading(kinds)
  BY DEF HandleDdl, HandleAbort
<1>2. /\ wal[pos + 1].xid \in Xids /\ pc' = pc /\ pos' \in 0 .. Len(wal) /\ wal' = wal /\ lake' = lake
      /\ SourceTyped'
  BY <1>1, ReadIs
<1>3. /\ mirror' = mirror /\ dedupe' = dedupe /\ pending' = pending /\ maxCommit' = maxCommit
      /\ seq' = seq /\ remapAt' = remapAt
      /\ tx' = tx \/ tx' = [tx EXCEPT ![wal[pos + 1].xid] = <<>>]
  BY DEF HandleDdl, HandleAbort, table, batch
<1>4. tx' \in [Xids -> Seq(Ops)]
  <2>1. tx \in [Xids -> Seq(Ops)] /\ <<>> \in Seq(Ops)
    BY DEF Typed, StreamTyped
  <2> QED
    BY <1>2, <1>3, <2>1
<1>5. StreamTyped'
  BY <1>2, <1>3, <1>4 DEF Typed, StreamTyped
<1>6. RowsTyped'
  BY <1>2, <1>3 DEF Typed, RowsTyped
<1> QED
  BY <1>2, <1>5, <1>6 DEF Typed

-----------------------------------------------------------------------------
\* A commit.

\* The states after each op of a commit.
Runs(A, n, ops, st) == A = [k \in 0 .. n |-> IF k = 0 THEN st ELSE Emit(A[k - 1], ops[k])]

\* There are such states.
LEMMA RunsExist ==
    ASSUME NEW n \in Nat, NEW ops, NEW st
    PROVE  \E A : Runs(A, n, ops, st)
<1> DEFINE S == {m \in Nat : \E A : Runs(A, m, ops, st)}
<1>1. 0 \in S
  <2>1. Runs([k \in 0 .. 0 |-> st], 0, ops, st)
    BY DEF Runs
  <2> QED
    BY <2>1
<1>2. ASSUME NEW m \in Nat, m \in S PROVE m + 1 \in S
  <2>1. PICK A : Runs(A, m, ops, st)
    BY <1>2
  <2>2. PICK e : e = Emit(A[m], ops[m + 1])
    OBVIOUS
  <2> DEFINE h == [k \in 0 .. m + 1 |-> IF k = m + 1 THEN e ELSE A[k]]
  <2>3. ASSUME NEW k \in 0 .. m + 1
        PROVE  h[k] = IF k = 0 THEN st ELSE Emit(h[k - 1], ops[k])
    <3>1. CASE k = m + 1
      <4>1. k # 0 /\ k - 1 = m /\ k - 1 \in 0 .. m + 1 /\ k - 1 # m + 1
        BY <3>1
      <4>2. h[k - 1] = A[m] /\ h[k] = e
        BY <3>1, <4>1
      <4> QED
        BY <2>2, <3>1, <4>1, <4>2
    <3>2. CASE k # m + 1
      <4>1. k \in 0 .. m
        BY <3>2
      <4>2. h[k] = A[k] /\ A[k] = IF k = 0 THEN st ELSE Emit(A[k - 1], ops[k])
        BY <2>1, <3>2, <4>1 DEF Runs
      <4>3. k # 0 => h[k - 1] = A[k - 1]
        BY <4>1
      <4> QED
        BY <4>2, <4>3
    <3> QED
      BY <3>1, <3>2
  <2>4. Runs(h, m + 1, ops, st)
    BY <2>3 DEF Runs
  <2> HIDE DEF h
  <2>5. (m + 1 \in Nat) /\ \E A2 : Runs(A2, m + 1, ops, st)
    BY <2>4
  <2> QED
    BY <2>5
<1> HIDE DEF S
<1>3. n \in S
  BY <1>1, <1>2, Inductive
<1> QED
  BY <1>3 DEF S

\* The state of a commit at LSN l: what was pending, or is of that commit.
Emitting(st, l, top) ==
    /\ st.mirror \in Rows /\ st.seq \in Nat /\ st.lsn = l
    /\ \A e \in st.out : e.row \in Row /\ e.lsn \in Nat /\ (e.lsn <= top \/ e.lsn = l)

\* One op keeps it.
LEMMA EmitKeeps ==
    ASSUME NEW l \in Nat, NEW top \in Nat, NEW st, NEW op \in Ops, Emitting(st, l, top)
    PROVE  Emitting(Emit(st, op), l, top)
<1> DEFINE was == IF op.row # NoRow THEN op.row ELSE st.mirror[op.ctid]
           gone == op.kind = "delete"
           moved == IF op.kind = "update" THEN [st.mirror EXCEPT ![op.old] = NoRow] ELSE st.mirror
           next == [moved EXCEPT ![op.ctid] = IF gone THEN NoRow ELSE op.row]
           e == Entry(st.lsn, st.seq + 1, gone, op.ctid, IF gone THEN was ELSE op.row)
<1>1. op.row \in Row /\ op.ctid \in Ctids /\ NoRow \in Row
  BY DEF Ops, NoRow, Row
<1>2. st.mirror \in Rows /\ st.seq \in Nat /\ st.lsn = l
  BY DEF Emitting
<1>3. was \in Row
  BY <1>1, <1>2 DEF Rows
<1>4. moved \in Rows
  BY <1>1, <1>2 DEF Rows
<1>5. next \in Rows
  <2> HIDE DEF moved
  <2> QED
    BY <1>1, <1>4 DEF Rows
<1>6. e.row \in Row /\ e.lsn = l
  BY <1>1, <1>2, <1>3 DEF Entry
<1>7. PICK to : to = Emit(st, op)
  OBVIOUS
<1>8. to.mirror = next /\ to.seq = st.seq + 1 /\ to.out = st.out \cup {e} /\ to.lsn = st.lsn
  BY <1>7 DEF Emit
<1> HIDE DEF next, e
<1>9. \A f \in to.out : f.row \in Row /\ f.lsn \in Nat /\ (f.lsn <= top \/ f.lsn = l)
  BY <1>6, <1>8 DEF Emitting
<1>10. to.seq \in Nat
  BY <1>2, <1>8
<1> QED
  BY <1>2, <1>5, <1>7, <1>8, <1>9, <1>10 DEF Emitting

\* So do all the ops of a transaction.
LEMMA RunsKeep ==
    ASSUME NEW l \in Nat, NEW top \in Nat, NEW st, Emitting(st, l, top),
           NEW ops \in Seq(Ops), NEW A, Runs(A, Len(ops), ops, st)
    PROVE  Emitting(A[Len(ops)], l, top) /\ (Len(ops) = 0 => A[Len(ops)] = st)
<1> DEFINE S == {k \in Nat : k <= Len(ops) => Emitting(A[k], l, top)}
<1>1. Len(ops) \in Nat
  OBVIOUS
<1>2. A[0] = st
  BY <1>1 DEF Runs
<1>3. 0 \in S
  BY <1>2
<1>4. ASSUME NEW k \in Nat, k \in S PROVE k + 1 \in S
  <2> SUFFICES ASSUME k + 1 <= Len(ops) PROVE Emitting(A[k + 1], l, top)
    OBVIOUS
  <2>1. k <= Len(ops) /\ k + 1 \in 0 .. Len(ops) /\ k + 1 \in 1 .. Len(ops) /\ k + 1 # 0 /\ (k + 1) - 1 = k
    BY <1>1
  <2>2. A[k + 1] = Emit(A[(k + 1) - 1], ops[k + 1])
    BY <2>1 DEF Runs
  <2>3. ops[k + 1] \in Ops
    BY <2>1
  <2>4. Emitting(A[k], l, top)
    BY <1>4, <2>1
  <2>5. PICK a : a = A[k]
    OBVIOUS
  <2>6. PICK o : o = ops[k + 1]
    OBVIOUS
  <2>7. Emitting(Emit(a, o), l, top)
    BY <2>3, <2>4, <2>5, <2>6, EmitKeeps
  <2> QED
    BY <2>1, <2>2, <2>5, <2>6, <2>7
<1>5. Len(ops) \in S
  <2> HIDE DEF S
  <2> QED
    BY <1>1, <1>3, <1>4, Inductive
<1> QED
  BY <1>1, <1>2, <1>5

\* A commit is emitted.
LEMMA HandleCommitKeeps ==
    ASSUME Typed, HandleCommit
    PROVE  Typed'
<1>1. PICK x : x = wal[pos + 1].xid
  OBVIOUS
<1>2. PICK l : l = Lsn(pos + 1)
  OBVIOUS
<1>3. PICK ops : ops = IF l <= dedupe THEN <<>> ELSE tx[x]
  OBVIOUS
<1>4. PICK st : st = [mirror |-> mirror, seq |-> seq, out |-> pending, lsn |-> l]
  OBVIOUS
<1> DEFINE Fits(A) == A = [k \in 0 .. Len(ops) |-> IF k = 0 THEN st ELSE Emit(A[k - 1], ops[k])]
<1>5. PICK A : A = CHOOSE B : Fits(B)
  OBVIOUS
<1>6. /\ x \in Xids /\ l \in Nat /\ pc' = pc /\ pos' \in 0 .. Len(wal) /\ wal' = wal /\ lake' = lake
      /\ SourceTyped'
  <2>1. Reading({"commit"})
    BY DEF HandleCommit
  <2> QED
    BY <1>1, <1>2, <2>1, ReadIs
<1>7. tx \in [Xids -> Seq(Ops)] /\ mirror \in Rows /\ seq \in Nat /\ maxCommit \in Nat /\ remapAt \in Nat
      /\ dedupe \in Nat
  BY DEF Typed, StreamTyped
<1>8. ops \in Seq(Ops) /\ Len(ops) \in Nat
  <2>1. <<>> \in Seq(Ops) /\ tx[x] \in Seq(Ops)
    BY <1>6, <1>7
  <2>2. ops \in Seq(Ops)
    BY <1>3, <2>1
  <2> QED
    BY <2>2
<1>9. Fits(A)
  <2>1. \E B : Runs(B, Len(ops), ops, st)
    BY <1>8, RunsExist
  <2>2. \E B : Fits(B)
    BY <2>1 DEF Runs
  <2> HIDE DEF Fits
  <2> QED
    BY <1>5, <2>2
<1>10. PICK done : done = A[Len(ops)]
  OBVIOUS
<1>11. /\ mirror' = done.mirror /\ seq' = done.seq /\ pending' = done.out
       /\ maxCommit' = Highest(ops, l)
  BY <1>1, <1>2, <1>3, <1>4, <1>5, <1>10, SMTT(30) DEF HandleCommit
<1>12. Emitting(st, l, maxCommit)
  BY <1>4, <1>7 DEF Emitting, Typed, RowsTyped
<1>13. Emitting(done, l, maxCommit) /\ (Len(ops) = 0 => done = st)
  <2>1. Runs(A, Len(ops), ops, st)
    BY <1>9 DEF Runs
  <2> QED
    BY <1>6, <1>7, <1>8, <1>10, <1>12, <2>1, RunsKeep
<1>14. /\ maxCommit' \in Nat
       /\ \A e \in pending' : e.row \in Row /\ e.lsn \in Nat /\ e.lsn <= maxCommit'
  <2>1. CASE Len(ops) = 0
    <3>1. maxCommit' = maxCommit /\ pending' = pending
      BY <1>4, <1>11, <1>13, <2>1 DEF Highest
    <3> QED
      BY <1>7, <3>1 DEF Typed, RowsTyped
  <2>2. CASE Len(ops) # 0
    <3>1. maxCommit' = Max({maxCommit, l})
      BY <1>11, <2>2 DEF Highest
    <3>2. PICK m : m = maxCommit'
      OBVIOUS
    <3>3. m \in Nat /\ m >= maxCommit /\ m >= l
      BY <1>6, <1>7, <3>1, <3>2, MaxOfTwo
    <3>4. \A e \in done.out : e.row \in Row /\ e.lsn \in Nat /\ (e.lsn <= maxCommit \/ e.lsn = l)
      BY <1>13 DEF Emitting
    <3> QED
      BY <1>6, <1>7, <1>11, <3>2, <3>3, <3>4
  <2> QED
    BY <2>1, <2>2
<1>15. /\ remapAt' = (IF x \in suspects THEN l ELSE remapAt) /\ dedupe' = dedupe
       /\ tx' = [tx EXCEPT ![x] = <<>>]
  BY <1>1, <1>2 DEF HandleCommit
<1>16. tx' \in [Xids -> Seq(Ops)]
  <2>1. <<>> \in Seq(Ops)
    OBVIOUS
  <2> QED
    BY <1>6, <1>7, <1>15, <2>1
<1>17. mirror' \in Rows /\ seq' \in Nat
  BY <1>11, <1>13 DEF Emitting
<1>18. remapAt' \in Nat /\ dedupe' \in Nat
  BY <1>6, <1>7, <1>15
<1>19. StreamTyped'
  BY <1>6, <1>14, <1>16, <1>17, <1>18 DEF Typed, StreamTyped
<1>20. RowsTyped'
  BY <1>6, <1>14 DEF Typed, RowsTyped
<1> QED
  BY <1>6, <1>19, <1>20 DEF Typed

-----------------------------------------------------------------------------
\* Flushes, snapshots and remaps.

\* A flush.
LEMMA FlushedIs ==
    ASSUME Typed, lake' = Flushed
    PROVE  (\A e \in lake'.log : e.row \in Row) /\ lake'.commit \in Nat
<1>1. CASE pending = {}
  BY <1>1 DEF Flushed, Typed, RowsTyped
<1>2. CASE pending # {}
  <2>1. lake'.log = lake.log \cup pending /\ lake'.commit = maxCommit
    BY <1>2 DEF Flushed, append
  <2> QED
    BY <2>1 DEF Typed, RowsTyped, StreamTyped
<1> QED
  BY <1>1, <1>2

\* The variables of the source stay.
LEMMA SourceStays ==
    ASSUME Typed, UNCHANGED <<source, embedded>>
    PROVE  SourceTyped' /\ wal' = wal
<1>1. wal' = wal /\ rows' = rows /\ cat' = cat /\ ddl' = ddl /\ hist' = hist /\ embedded' = embedded
  BY DEF source
<1> QED
  BY <1>1 DEF Typed, SourceTyped

\* Flushing and compaction.
LEMMA FlushKeeps ==
    ASSUME Typed, flush_all \/ remap_check_flush \/ compact
    PROVE  Typed'
<1>1. SourceTyped' /\ wal' = wal
  <2>1. UNCHANGED <<source, embedded>>
    BY DEF flush_all, remap_check_flush, compact
  <2> QED
    BY <2>1, SourceStays
<1>2. /\ pos' = pos /\ tx' = tx /\ mirror' = mirror /\ remapAt' = remapAt /\ dedupe' = dedupe
      /\ maxCommit' = maxCommit /\ seq' = seq /\ pc' \in {pc, "check"}
  BY DEF flush_all, remap_check_flush, compact, stream, table, batch
<1>3. StreamTyped'
  BY <1>1, <1>2 DEF Typed, StreamTyped
<1>4. RowsTyped'
  <2>1. CASE lake' = Flushed /\ pending' = {}
    <3>1. (\A e \in lake'.log : e.row \in Row) /\ lake'.commit \in Nat
      BY <2>1, FlushedIs
    <3> QED
      BY <2>1, <3>1 DEF RowsTyped
  <2>2. CASE compact
    <3>1. PICK kept : lake' = [lake EXCEPT !.log = kept] /\ kept \subseteq lake.log
      BY <2>2 DEF compact, LatestByKey
    <3>2. lake'.commit = lake.commit /\ (lake'.log = kept \/ lake'.log = lake.log)
      BY <3>1
    <3>3. pending' = pending
      BY <2>2 DEF compact, batch
    <3> QED
      BY <1>2, <3>1, <3>2, <3>3 DEF Typed, RowsTyped
  <2> QED
    BY <2>1, <2>2 DEF flush_all, remap_check_flush
<1> QED
  BY <1>1, <1>3, <1>4 DEF Typed

\* The contents are tombstoned.
LEMMA RemapKeeps ==
    ASSUME Typed, NEW m \in Rows, NEW l \in Nat, NEW stamp, NEW restart, NEW kind,
           remap_table(m, l, stamp, restart, kind)
    PROVE  RowsTyped' /\ mirror' \in Rows /\ maxCommit' \in Nat /\ seq' \in Nat /\ pc' = "snapshot"
<1> DEFINE tombs == {Entry(l, seq + 1, TRUE, c, m[c]) : c \in {d \in Ctids : m[d] # NoRow}}
           top == IF tombs = {} THEN maxCommit ELSE Max({maxCommit, l})
           out == pending \cup tombs
<1>1. maxCommit \in Nat /\ seq \in Nat
  BY DEF Typed, StreamTyped
<1>2. /\ lake' = (IF out = {} THEN lake ELSE append(out, top, restart, stamp))
      /\ maxCommit' = top /\ seq' = seq + 1 /\ pending' = {} /\ mirror' = Empty /\ pc' = "snapshot"
  BY DEF remap_table
<1>3. \A e \in out : e.row \in Row
  BY DEF Entry, Rows, Typed, RowsTyped
<1>4. top \in Nat
  <2>1. Max({maxCommit, l}) \in Nat
    BY <1>1, MaxOfTwo
  <2> QED
    BY <1>1, <2>1
<1>5. Empty \in Rows
  BY DEF Empty, NoRow, Rows, Row
<1> HIDE DEF top, out
<1>6. (\A e \in lake'.log : e.row \in Row) /\ lake'.commit \in Nat
  <2>1. CASE out = {}
    BY <1>2, <2>1 DEF Typed, RowsTyped
  <2>2. CASE out # {}
    <3>1. lake'.log = lake.log \cup out /\ lake'.commit = top
      BY <1>2, <2>2 DEF append
    <3> QED
      BY <1>3, <1>4, <3>1 DEF Typed, RowsTyped
  <2> QED
    BY <2>1, <2>2
<1>7. RowsTyped'
  BY <1>2, <1>6 DEF RowsTyped
<1> QED
  BY <1>1, <1>2, <1>4, <1>5, <1>7

\* The snapshot.
LEMMA TakeKeeps ==
    ASSUME Typed, take
    PROVE  Typed'
<1> DEFINE initial == job.kind = "initial"
           s == IF initial THEN 0 ELSE seq + 1
           es == {Entry(InsertLsn, s, FALSE, c, Committed(rows)[c]) : c \in SnapshotRows}
<1>1. SourceTyped' /\ wal' = wal
  <2>1. UNCHANGED <<source, embedded>>
    BY DEF take
  <2> QED
    BY <2>1, SourceStays
<1>2. Committed(rows) \in Rows /\ Len(wal) \in Nat
  BY RowsNow, CommittedIs
<1>3. InsertLsn \in Nat
  BY <1>2 DEF InsertLsn
<1>4. \A e \in es : e.row \in Row
  BY <1>2 DEF Entry, Rows, SnapshotRows
<1>5. /\ \/ lake' = lake
         \/ \E r : lake' = append(es, InsertLsn, r, desc.node)
      /\ mirror' = Committed(rows) /\ dedupe' = InsertLsn /\ seq' = s
      /\ tx' = tx /\ remapAt' = remapAt /\ pending' = pending /\ maxCommit' = maxCommit
  BY DEF take
<1>6. pc' \in {"gap", "run"} /\ (pos' = pos \/ pos' \in Starts(InsertLsn))
  BY DEF take
<1>7. pos' \in 0 .. Len(wal)
  BY <1>6 DEF Starts, Typed, StreamTyped
<1>8. s \in Nat
  BY DEF Typed, StreamTyped
<1> HIDE DEF s, es
<1>9. StreamTyped'
  BY <1>1, <1>2, <1>3, <1>5, <1>6, <1>7, <1>8 DEF Typed, StreamTyped
<1>10. (\A e \in lake'.log : e.row \in Row) /\ lake'.commit \in Nat
  <2>1. CASE lake' = lake
    BY <2>1 DEF Typed, RowsTyped
  <2>2. CASE \E r : lake' = append(es, InsertLsn, r, desc.node)
    <3>1. lake'.log = lake.log \cup es /\ lake'.commit = InsertLsn
      BY <2>2 DEF append
    <3> QED
      BY <1>3, <1>4, <3>1 DEF Typed, RowsTyped
  <2> QED
    BY <1>5, <2>1, <2>2
<1>11. RowsTyped'
  BY <1>5, <1>10 DEF Typed, RowsTyped
<1> QED
  BY <1>1, <1>9, <1>11 DEF Typed

\* The catalog check.
LEMMA RemapCheckKeeps ==
    ASSUME Typed, remap_check
    PROVE  Typed'
<1>1. SourceTyped' /\ wal' = wal
  <2>1. UNCHANGED <<source, embedded>>
    BY DEF remap_check
  <2> QED
    BY <2>1, SourceStays
<1>2. remapAt' = 0 /\ pos' = pos /\ tx' = tx /\ dedupe' = dedupe
  BY DEF remap_check
<1>3. mirror \in Rows /\ remapAt \in Nat
  BY DEF Typed, StreamTyped
<1>4. CASE remap_table(mirror, remapAt, Stamp, restart_lsn, "check")
  <2>1. RowsTyped' /\ mirror' \in Rows /\ maxCommit' \in Nat /\ seq' \in Nat /\ pc' = "snapshot"
    BY <1>3, <1>4, RemapKeeps
  <2>2. StreamTyped'
    BY <1>1, <1>2, <2>1 DEF Typed, StreamTyped
  <2> QED
    BY <1>1, <2>1, <2>2 DEF Typed
<1>5. CASE pc' = "run" /\ UNCHANGED <<lake, mirror, batch>>
  <2>1. StreamTyped'
    BY <1>1, <1>2, <1>5 DEF Typed, StreamTyped, batch
  <2>2. RowsTyped'
    BY <1>5 DEF Typed, RowsTyped, batch
  <2> QED
    BY <1>1, <2>1, <2>2 DEF Typed
<1> QED
  BY <1>4, <1>5 DEF remap_check

-----------------------------------------------------------------------------
\* Start and stop.

\* The rebuilt mirror.
LEMMA LoadMirrorIs ==
    ASSUME NEW log, \A e \in log : e.row \in Row
    PROVE  load_mirror(log) \in Rows
<1> DEFINE alive(c) == {e \in {f \in log : f.ctid = c /\ \A g \in log : g.ctid = c => ~Newer(g, f)} : ~e.deleted}
<1>1. ASSUME NEW c \in Ctids
      PROVE  (IF alive(c) = {} THEN NoRow ELSE (CHOOSE e \in alive(c) : TRUE).row) \in Row
  <2>1. NoRow \in Row
    BY DEF NoRow, Row
  <2>2. alive(c) # {} => (CHOOSE e \in alive(c) : TRUE) \in alive(c)
    OBVIOUS
  <2>3. alive(c) \subseteq log
    OBVIOUS
  <2> HIDE DEF alive
  <2> QED
    BY <2>1, <2>2, <2>3
<1>2. load_mirror(log) = [c \in Ctids |-> IF alive(c) = {} THEN NoRow ELSE (CHOOSE e \in alive(c) : TRUE).row]
  BY DEF load_mirror
<1> HIDE DEF alive
<1> QED
  BY <1>1, <1>2 DEF Rows

\* Start.
LEMMA ResumeKeeps ==
    ASSUME Typed, resume
    PROVE  Typed'
<1>1. SourceTyped' /\ wal' = wal
  <2>1. UNCHANGED <<source, embedded>>
    BY DEF resume
  <2> QED
    BY <2>1, SourceStays
<1>2. tx' = tx /\ remapAt' = remapAt
  BY DEF resume
<1>3. CASE lake.restart = 0
  <2>1. pc' = "snapshot" /\ UNCHANGED <<lake, mirror, batch, pos, dedupe>>
    BY <1>3 DEF resume
  <2>2. StreamTyped'
    BY <1>1, <1>2, <2>1 DEF Typed, StreamTyped, batch
  <2>3. RowsTyped'
    BY <2>1 DEF Typed, RowsTyped, batch
  <2> QED
    BY <1>1, <2>2, <2>3 DEF Typed
<1>4. CASE lake.restart # 0
  <2>1. dedupe' = lake.commit /\ pos' \in (IF embedded THEN {0} ELSE Starts(lake.restart))
    BY <1>4 DEF resume
  <2>2. lake.commit \in Nat
    BY DEF Typed, RowsTyped
  <2>3. pos' \in 0 .. Len(wal)
    <3>1. Len(wal) \in Nat
      BY RowsNow
    <3> QED
      BY <2>1, <3>1 DEF Starts
  <2>4. load_mirror(lake.log) \in Rows
    BY LoadMirrorIs DEF Typed, RowsTyped
  <2>5. CASE remap_table(load_mirror(lake.log), lake.commit + 1, lake.node, lake.restart, "resume")
    <3>1. lake.commit + 1 \in Nat
      BY <2>2
    <3>2. RowsTyped' /\ mirror' \in Rows /\ maxCommit' \in Nat /\ seq' \in Nat /\ pc' = "snapshot"
      BY <2>4, <2>5, <3>1, RemapKeeps
    <3>3. StreamTyped'
      BY <1>1, <1>2, <2>1, <2>2, <2>3, <3>2 DEF Typed, StreamTyped
    <3> QED
      BY <1>1, <3>2, <3>3 DEF Typed
  <2>6. CASE pc' = (IF embedded THEN "gap" ELSE "run") /\ mirror' = load_mirror(lake.log) /\ UNCHANGED <<lake, batch>>
    <3>1. StreamTyped'
      BY <1>1, <1>2, <2>1, <2>2, <2>3, <2>4, <2>6 DEF Typed, StreamTyped, batch
    <3>2. RowsTyped'
      BY <2>6 DEF Typed, RowsTyped, batch
    <3> QED
      BY <1>1, <3>1, <3>2 DEF Typed
  <2> QED
    BY <1>4, <2>5, <2>6 DEF resume
<1> QED
  BY <1>3, <1>4

\* The first event of the embedded source.
LEMMA GapKeeps ==
    ASSUME Typed, NEW p \in Nat, NEW record \in BOOLEAN, gap_check(p, record)
    PROVE  Typed'
<1>1. SourceTyped' /\ wal' = wal
  <2>1. UNCHANGED <<source, embedded>>
    BY DEF gap_check
  <2> QED
    BY <2>1, SourceStays
<1>2. /\ tx' = tx /\ remapAt' = remapAt /\ dedupe' = dedupe /\ pos' = p
      /\ IF record THEN p < Len(wal) ELSE p <= Len(wal)
  BY DEF gap_check
<1>3. pos' \in 0 .. Len(wal)
  <2>1. Len(wal) \in Nat
    BY RowsNow
  <2> QED
    BY <1>2, <2>1
<1>4. CASE remap_table(mirror, dedupe + 1, desc.node, dedupe, "gap")
  <2>1. mirror \in Rows /\ dedupe + 1 \in Nat
    BY DEF Typed, StreamTyped
  <2>2. RowsTyped' /\ mirror' \in Rows /\ maxCommit' \in Nat /\ seq' \in Nat /\ pc' = "snapshot"
    BY <1>4, <2>1, RemapKeeps
  <2>3. StreamTyped'
    BY <1>1, <1>2, <1>3, <2>2 DEF Typed, StreamTyped
  <2> QED
    BY <1>1, <2>2, <2>3 DEF Typed
<1>5. CASE pc' = "run" /\ UNCHANGED <<lake, mirror, batch>>
  <2>1. StreamTyped'
    BY <1>1, <1>2, <1>3, <1>5 DEF Typed, StreamTyped, batch
  <2>2. RowsTyped'
    BY <1>5 DEF Typed, RowsTyped, batch
  <2> QED
    BY <1>1, <2>1, <2>2 DEF Typed
<1> QED
  BY <1>4, <1>5 DEF gap_check

\* Records lost by the tee.
LEMMA LostKeeps ==
    ASSUME Typed, NEW p \in Nat, Lost(p)
    PROVE  Typed'
<1>1. SourceTyped' /\ wal' = wal
  <2>1. UNCHANGED <<source, embedded>>
    BY DEF Lost
  <2> QED
    BY <2>1, SourceStays
<1>2. /\ tx' = [x \in Xids |-> <<>>] /\ remapAt' = remapAt /\ dedupe' = dedupe /\ pos' = p /\ p <= Len(wal)
      /\ remap_table(mirror, dedupe + 1, desc.node, dedupe, "lost")
  BY DEF Lost
<1>3. pos' \in 0 .. Len(wal)
  <2>1. Len(wal) \in Nat
    BY RowsNow
  <2> QED
    BY <1>2, <2>1
<1>4. mirror \in Rows /\ dedupe + 1 \in Nat
  BY DEF Typed, StreamTyped
<1>5. RowsTyped' /\ mirror' \in Rows /\ maxCommit' \in Nat /\ seq' \in Nat /\ pc' = "snapshot"
  BY <1>2, <1>4, RemapKeeps
<1>6. tx' \in [Xids -> Seq(Ops)]
  <2>1. <<>> \in Seq(Ops)
    OBVIOUS
  <2> QED
    BY <1>2, <2>1
<1>7. StreamTyped'
  BY <1>1, <1>2, <1>3, <1>5, <1>6 DEF Typed, StreamTyped
<1> QED
  BY <1>1, <1>5, <1>7 DEF Typed

\* The process stops.
LEMMA StopKeeps ==
    ASSUME Typed, Stop
    PROVE  Typed'
<1>1. SourceTyped' /\ wal' = wal
  <2>1. UNCHANGED <<source, embedded>>
    BY DEF Stop
  <2> QED
    BY <2>1, SourceStays
<1>2. /\ tx' = [x \in Xids |-> <<>>] /\ remapAt' = 0 /\ dedupe' = 0 /\ pos' = 0 /\ pc' = "down"
      /\ mirror' = Empty /\ pending' = {} /\ maxCommit' = 0 /\ seq' = 0 /\ lake' = lake
  BY DEF Stop
<1>3. Len(wal) \in Nat /\ Empty \in Rows /\ <<>> \in Seq(Ops)
  BY RowsNow DEF Empty, NoRow, Rows, Row
<1>4. tx' \in [Xids -> Seq(Ops)]
  BY <1>2, <1>3
<1>5. StreamTyped'
  BY <1>1, <1>2, <1>3, <1>4 DEF StreamTyped
<1>6. RowsTyped'
  BY <1>2 DEF Typed, RowsTyped
<1> QED
  BY <1>1, <1>5, <1>6 DEF Typed

-----------------------------------------------------------------------------
\* Every step keeps the types.
LEMMA TypedNext == Typed /\ [Next]_vars => Typed'
<1> SUFFICES ASSUME Typed, [Next]_vars PROVE Typed'
  OBVIOUS
<1>1. CASE UNCHANGED vars
  BY <1>1 DEF vars, source, stream, table, batch, Typed, SourceTyped, StreamTyped, RowsTyped
<1>2. CASE \E x \in Xids, k \in Keys, c \in Ctids : Insert(x, k, c)
  BY <1>2, InsertKeeps
<1>3. CASE \E x \in Xids, c, d \in Ctids : Update(x, c, d)
  BY <1>3, UpdateKeeps
<1>4. CASE \E x \in Xids, c \in Ctids : Delete(x, c)
  BY <1>4, DeleteKeeps
<1>5. CASE \E x \in Xids : Truncate(x) \/ (\E move \in Moves : Rewrite(x, move)) \/ AddColumn(x) \/ OtherDdl(x)
  BY <1>5, SchemaKeeps
<1>6. CASE \E x \in Xids, commits \in BOOLEAN : End(x, commits)
  BY <1>6, EndKeeps
<1>7. CASE HandleChange
  BY <1>7, HandleChangeKeeps
<1>8. CASE HandleDdl \/ HandleAbort
  BY <1>8, HandleEndKeeps
<1>9. CASE HandleCommit
  BY <1>9, HandleCommitKeeps
<1>10. CASE flush_all \/ compact \/ remap_check_flush
  BY <1>10, FlushKeeps
<1>11. CASE remap_check
  BY <1>11, RemapCheckKeeps
<1>12. CASE take
  BY <1>12, TakeKeeps
<1>13. CASE resume
  BY <1>13, ResumeKeeps
<1>14. CASE Crash \/ TakeFails
  BY <1>14, StopKeeps DEF Crash, TakeFails
<1>15. CASE \E p \in 0 .. MaxEmbedded : (\E record \in BOOLEAN : gap_check(p, record)) \/ Lost(p)
  <2>1. PICK p \in 0 .. MaxEmbedded : (\E record \in BOOLEAN : gap_check(p, record)) \/ Lost(p)
    BY <1>15
  <2>2. p \in Nat
    OBVIOUS
  <2> QED
    BY <2>1, <2>2, GapKeeps, LostKeeps
<1>16. Next \/ UNCHANGED vars
  OBVIOUS
<1> QED
  BY <1>1, <1>2, <1>3, <1>4, <1>5, <1>6, <1>7, <1>8, <1>9, <1>10, <1>11, <1>12, <1>13, <1>14, <1>15, <1>16,
     Zenon DEF Next

\* Type correctness of the change log's model: every pre-image, mirror entry
\* and change row is a row of the table, and no pending row is above
\* max_commit_lsn, the watermark of the Delta commit that will carry it
\* (PendingBatch::emit), whatever is replayed, remapped or lost.
THEOREM TypeCorrect == Spec => []TypeOK
<1>1. Init => Typed
  BY TypedInit
<1>2. Typed /\ [Next]_vars => Typed'
  BY TypedNext
<1>3. Typed => TypeOK
  BY TypedIsTypeOK
<1> QED
  BY <1>1, <1>2, <1>3, PTL DEF Spec
=============================================================================
