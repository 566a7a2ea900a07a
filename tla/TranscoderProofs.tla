-------------------------- MODULE TranscoderProofs --------------------------
(***************************************************************************)
(* Proofs about module Transcoder, for any tables, transactions and bounds: *)
(* its invariants; then that its watermarks only advance and each of its   *)
(* steps is a step of LakeContract, and that with one table the slot       *)
(* retains the WAL a restart asks for.                                     *)
(***************************************************************************)
EXTENDS TranscoderInv, WellFoundedInduction, TLAPS

-----------------------------------------------------------------------------
\* Facts about the operators the model is built from.

\* A non-empty set of LSNs has a least element, and Min is it.
LEMMA MinIsLeast ==
    ASSUME NEW S, S \subseteq Nat, S # {}
    PROVE  Min(S) \in S /\ \A n \in S : Min(S) <= n
<1>1. PICK m \in S : \A n \in S : <<n, m>> \notin OpToRel(<, Nat)
  BY WFMin, NatLessThanWellFounded, Zenon
<1>2. \A n \in S : ~(n < m)
  BY <1>1, Zenon DEF OpToRel
<1>3. \A n \in S : m <= n
  BY <1>2
<1> QED
  BY <1>3 DEF Min

\* The page of an LSN begins at the last page break at or below it.
LEMMA PageStartIs ==
    ASSUME NEW l \in Lsn
    PROVE  /\ PageStart(l) \in PageBreaks /\ PageStart(l) \in 1..l
           /\ \A b \in PageBreaks : b <= l => b <= PageStart(l)
<1> DEFINE S == {l - b : b \in {c \in PageBreaks : c <= l}}
<1>1. PageBreaks \subseteq Nat \ {0} /\ 1 \in PageBreaks
  BY ConstantsAssumption
<1>2. S \subseteq Nat /\ S # {}
  BY <1>1 DEF Lsn
<1>3. PICK m \in S : \A n \in S : m <= n
  BY <1>2, MinIsLeast
<1>4. PICK s \in PageBreaks : s <= l /\ m = l - s
  BY <1>3
<1>5. \A b \in PageBreaks : b <= l => b <= s
  <2>1. SUFFICES ASSUME NEW b \in PageBreaks, b <= l
                 PROVE  b <= s
    OBVIOUS
  <2>2. l - b \in S
    BY <2>1
  <2>3. l - s <= l - b
    BY <1>3, <1>4, <2>2
  <2>4. b \in Nat /\ s \in Nat /\ l \in Nat
    BY <1>1 DEF Lsn
  <2> QED
    BY <2>3, <2>4
<1>6. \E u \in PageBreaks : u <= l /\ \A b \in PageBreaks : b <= l => b <= u
  BY <1>4, <1>5
<1>7. PageStart(l) \in PageBreaks /\ PageStart(l) <= l /\ \A b \in PageBreaks : b <= l => b <= PageStart(l)
  BY <1>6 DEF PageStart
<1> QED
  <2>1. PageStart(l) \in Nat \ {0} /\ l \in Nat
    BY <1>1, <1>7 DEF Lsn
  <2> QED
    BY <1>7, <2>1

\* What a record appended to the log leaves as it was.
LEMMA WalGrows ==
    ASSUME TypeOK, NEW r \in ChangeRecord \cup EndRecord,
           wal' = Append(wal, r), UNCHANGED lake
    PROVE  /\ Len(wal') = Len(wal) + 1 /\ Len(wal) \in Nat
           /\ DOMAIN wal = 1..Len(wal)
           /\ DOMAIN wal' = 1..(Len(wal) + 1)
           /\ \A l \in DOMAIN wal : wal'[l] = wal[l]
           /\ wal'[Len(wal) + 1] = r
           /\ \A t \in Tables : Mark(t)' = Mark(t)
           /\ wal' \in Seq(ChangeRecord \cup EndRecord)
  BY DEF TypeOK, lake, Mark, Last

\* What a Delta commit leaves as it was, and what it sets.
LEMMA DeltaGrows ==
    ASSUME TypeOK, NEW t \in Tables, NEW rows \in SUBSET Row, NEW c \in Lsn, NEW s \in Lsn,
           AppendDelta(t, rows, c, s)
    PROVE  /\ delta' \in [Tables -> Seq(DeltaCommit)]
           /\ \A u \in Tables \ {t} : delta'[u] = delta[u]
           /\ delta'[t] # <<>>
           /\ Len(delta'[t]) = Len(delta[t]) + 1 /\ Len(delta[t]) \in Nat
           /\ \A i \in DOMAIN delta[t] : delta'[t][i] = delta[t][i]
           /\ DOMAIN delta[t] = 1..Len(delta[t])
           /\ DOMAIN delta'[t] = 1..(Len(delta[t]) + 1)
           /\ delta'[t][Len(delta[t]) + 1] = [rows |-> rows, commit |-> c, restart |-> s]
<1> DEFINE e == [rows |-> rows, commit |-> c, restart |-> s]
<1>1. e \in DeltaCommit
  BY DEF DeltaCommit
<1>2. delta[t] \in Seq(DeltaCommit) /\ delta' = [delta EXCEPT ![t] = Append(delta[t], e)]
  BY DEF TypeOK, AppendDelta
<1>3. delta'[t] = Append(delta[t], e)
  BY <1>2 DEF TypeOK
<1>4. \A u \in Tables \ {t} : delta'[u] = delta[u]
  BY <1>2 DEF TypeOK
<1>5. delta' \in [Tables -> Seq(DeltaCommit)]
  BY <1>1, <1>2 DEF TypeOK
<1> HIDE DEF e
<1>6. /\ Len(delta'[t]) = Len(delta[t]) + 1 /\ Len(delta[t]) \in Nat
      /\ \A i \in DOMAIN delta[t] : delta'[t][i] = delta[t][i]
      /\ DOMAIN delta[t] = 1..Len(delta[t])
      /\ DOMAIN delta'[t] = 1..(Len(delta[t]) + 1)
      /\ delta'[t][Len(delta[t]) + 1] = e
  BY <1>1, <1>2, <1>3
<1>7. delta'[t] # <<>>
  BY <1>6
<1> QED
  BY <1>4, <1>5, <1>6, <1>7 DEF e


LEMMA WalIsSeq ==
    ASSUME TypeOK
    PROVE  Len(wal) \in Nat /\ DOMAIN wal = 1..Len(wal)
  BY DEF TypeOK

\* The last Delta commit of a table that has one.
LEMMA LastIsCommit ==
    ASSUME TypeOK, NEW t \in Tables, delta[t] # <<>>
    PROVE  Last(t) \in DeltaCommit
<1>1. delta[t] \in Seq(DeltaCommit)
  BY DEF TypeOK
<1>2. Len(delta[t]) \in 1..Len(delta[t])
  BY <1>1
<1> QED
  BY <1>1, <1>2 DEF Last

LEMMA MarkIsNat ==
    ASSUME TypeOK, NEW t \in Tables
    PROVE  Mark(t) \in Nat
  BY LastIsCommit DEF Mark, TypeOK, DeltaCommit, Lsn

\* What every predicate about the log and the lake keeps when neither changes.
LEMMA LakeSame ==
    ASSUME UNCHANGED <<wal, delta, base>>
    PROVE  /\ \A t \in Tables : Mark(t)' = Mark(t) /\ Last(t)' = Last(t)
           /\ \A t \in Tables : Ops(t)' = Ops(t) /\ Committed(t)' = Committed(t)
           /\ \A t \in Tables : \A l : Settled(t, l)' <=> Settled(t, l)
           /\ \A l, x : Ends(l, x)' <=> Ends(l, x)
           /\ \A l : Whole(l)' <=> Whole(l)
           /\ WalInv => WalInv'
           /\ MarkInv => MarkInv'
           /\ CutoverExact => CutoverExact'
           /\ ExactlyOnce => ExactlyOnce'
           /\ RestartSafe => RestartSafe'
<1>1. \A l, x : Ends(l, x)' <=> Ends(l, x)
  BY DEF Ends
<1>2. \A t \in Tables : Last(t)' = Last(t)
  BY DEF Last
<1>3. \A t \in Tables : Mark(t)' = Mark(t)
  BY <1>2 DEF Mark
<1>4. \A t \in Tables : Ops(t)' = Ops(t)
  BY DEF Ops, OpOn
<1>5. \A t \in Tables : Committed(t)' = Committed(t)
  BY <1>4 DEF Committed, Commits
<1>6. \A t \in Tables : \A l : Settled(t, l)' <=> Settled(t, l)
  BY <1>1, <1>3 DEF Settled
<1>7. \A l : Whole(l)' <=> Whole(l)
  BY DEF Whole
<1>8. WalInv => WalInv'
  BY <1>1 DEF WalInv
<1>9. MarkInv => MarkInv'
  BY <1>2, <1>3 DEF MarkInv
<1>10. CutoverExact => CutoverExact'
  BY <1>1, <1>4 DEF CutoverExact
<1>11. \A t \in Tables : Due(t)' = Due(t) /\ Published(t)' = Published(t)
  BY <1>3, <1>5 DEF Due, Published
<1>12. ExactlyOnce => ExactlyOnce'
  BY <1>7, <1>11 DEF ExactlyOnce, NoDuplicate, NoPhantom, NoLoss, WholeRows
<1>13. RestartSafe => RestartSafe'
  BY <1>2, <1>4, <1>6, <1>7 DEF RestartSafe
<1> QED
  BY <1>1, <1>2, <1>3, <1>4, <1>5, <1>6, <1>7, <1>8, <1>9, <1>10, <1>12, <1>13

-----------------------------------------------------------------------------
\* Steps that touch neither the log, nor the lake, nor the buffers.

LEMMA QuietStep ==
    ASSUME IndInv, TypeOK',
           UNCHANGED <<wal, delta, base, pos, tables, open, pending, maxCommit,
                       dedupe, lastCommit, persisted, todo, restart>>,
           exists \subseteq exists',
           pc' = pc \/ (pc \in {"run", "attach"} /\ pc' \in {"run", "attach"})
    PROVE  IndInv'
<1>1. /\ WalInv' /\ MarkInv' /\ CutoverExact' /\ ExactlyOnce' /\ RestartSafe'
      /\ \A t \in Tables : Mark(t)' = Mark(t) /\ Last(t)' = Last(t)
      /\ \A t \in Tables : Ops(t)' = Ops(t) /\ Committed(t)' = Committed(t)
      /\ \A t \in Tables : \A l : Settled(t, l)' <=> Settled(t, l)
      /\ \A l, x : Ends(l, x)' <=> Ends(l, x)
      /\ \A l : Whole(l)' <=> Whole(l)
  BY LakeSame DEF IndInv
<1>2. TableInv'
  BY DEF IndInv, TableInv, Running
<1>3. IdleInv'
  BY DEF IndInv, IdleInv, Running
<1>4. ResumeInv'
  BY <1>1 DEF IndInv, ResumeInv, TypeOK
<1>5. PosInv'
  BY DEF IndInv, PosInv, Running
<1>6. DedupeInv'
  BY <1>1 DEF IndInv, DedupeInv, Running, TypeOK
<1>7. OpenInv'
  BY <1>1 DEF IndInv, OpenInv
<1>8. PendingInv'
  BY <1>1 DEF IndInv, PendingInv
<1>9. FlushInv'
  BY <1>1 DEF IndInv, FlushInv, TypeOK
<1>10. NothingStranded'
  BY <1>1 DEF IndInv, NothingStranded, Streamed, TypeOK
<1> QED
  BY <1>1, <1>2, <1>3, <1>4, <1>5, <1>6, <1>7, <1>8, <1>9, <1>10 DEF IndInv

LEMMA QuietActions ==
    ASSUME IndInv,
           \/ \E t \in Tables : CreateTable(t)
           \/ RecycleWal \/ SendStatus \/ RemapDone
    PROVE  IndInv'
<1>1. CASE \E t \in Tables : CreateTable(t)
  <2>1. TypeOK'
    BY <1>1 DEF IndInv, TypeOK, CreateTable, lake, buffers, round
  <2> QED
    BY <1>1, <2>1, QuietStep DEF CreateTable, lake, buffers, round
<1>2. CASE RecycleWal
  <2>1. TypeOK'
    BY <1>2, PageStartIs DEF IndInv, TypeOK, RecycleWal, lake, buffers, round
  <2> QED
    BY <1>2, <2>1, QuietStep DEF RecycleWal, lake, buffers, round
<1>3. CASE SendStatus
  <2>1. TypeOK'
    BY <1>3 DEF IndInv, TypeOK, PosInv, Running, SendStatus, lake, buffers, round
  <2> QED
    BY <1>3, <2>1, QuietStep DEF SendStatus, lake, buffers, round
<1>4. CASE RemapDone
  <2>1. TypeOK'
    BY <1>4 DEF IndInv, TypeOK, RemapDone, source, lake, buffers, round
  <2> QED
    BY <1>4, <2>1, QuietStep DEF RemapDone, source, lake, buffers, round
<1> QED
  BY <1>1, <1>2, <1>3, <1>4

-----------------------------------------------------------------------------
\* A process dies, and a new one begins.

LEMMA MemoryLost ==
    ASSUME IndInv, Crash \/ StartRefused
    PROVE  IndInv'
<1> USE DEF source, lake
<1>1. LoseMemory /\ UNCHANGED <<wal, exists, slot, floor, delta, base>> /\ crashes' \in Nat
  BY DEF Crash, StartRefused, IndInv, TypeOK
<1>2. TypeOK'
  BY <1>1 DEF LoseMemory, IndInv, TypeOK, Lsn
<1>3. WalInv' /\ MarkInv' /\ CutoverExact' /\ ExactlyOnce' /\ RestartSafe'
  BY <1>1, LakeSame DEF IndInv
<1>4. pc' = "down" /\ ~Running'
  BY <1>1 DEF LoseMemory, Running
<1>5. TableInv' /\ IdleInv' /\ ResumeInv' /\ PosInv' /\ DedupeInv' /\ FlushInv' /\ NothingStranded'
  BY <1>1, <1>4 DEF LoseMemory, IndInv, TableInv, IdleInv, ResumeInv, PosInv, DedupeInv,
                    FlushInv, NothingStranded, Running
<1>6. OpenInv' /\ PendingInv'
  BY <1>1 DEF LoseMemory, OpenInv, PendingInv
<1> QED
  BY <1>2, <1>3, <1>5, <1>6 DEF IndInv

LEMMA LaunchStep ==
    ASSUME IndInv, Launch
    PROVE  IndInv'
<1> USE DEF source, lake, buffers
<1>1. TypeOK'
  BY DEF Launch, IndInv, TypeOK
<1>2. WalInv' /\ MarkInv' /\ CutoverExact' /\ ExactlyOnce' /\ RestartSafe'
  BY LakeSame DEF IndInv, Launch
<1>3. tables = {} /\ tables' = {} /\ todo' = exists
  BY DEF Launch, IndInv, IdleInv
<1>4. TableInv'
  BY <1>3 DEF Launch, IndInv, TableInv, Running
<1>5. IdleInv'
  BY <1>3 DEF Launch, IndInv, IdleInv, Running
<1>6. ResumeInv' /\ PosInv' /\ DedupeInv' /\ FlushInv' /\ NothingStranded'
  BY <1>3 DEF Launch, ResumeInv, PosInv, DedupeInv, FlushInv, NothingStranded, Running
<1>7. OpenInv' /\ PendingInv'
  <2>1. open' = [x \in Xids |-> {}] /\ pending' = [t \in Tables |-> {}]
    BY DEF Launch, IndInv, IdleInv, Running
  <2> QED
    BY <2>1 DEF OpenInv, PendingInv
<1> QED
  BY <1>1, <1>2, <1>4, <1>5, <1>6, <1>7 DEF IndInv

\* The stream starts at or below every table's restart point, so it passes
\* over nothing a table still needs.
LEMMA StartStep ==
    ASSUME IndInv, StartReplication
    PROVE  IndInv'
<1> USE DEF source, lake, buffers
<1> DEFINE s == PageStart(restart)
<1>1. start' = s /\ pos' = s
  BY DEF StartReplication
<1>2. tables # {} /\ restart \in 1..(Len(wal) + 1) /\ s \in 1..restart /\ Len(wal) \in Nat
  <2>1. tables # {} /\ restart \in 1..(Len(wal) + 1) /\ Len(wal) \in Nat
    BY DEF StartReplication, IndInv, ResumeInv, TypeOK
  <2> QED
    BY <2>1, PageStartIs DEF Lsn
<1> HIDE DEF s
<1>3. TypeOK'
  BY <1>1, <1>2 DEF StartReplication, IndInv, TypeOK, Lsn
<1>4. UNCHANGED <<wal, delta, base, exists, tables, todo, open, pending, maxCommit, dedupe>>
      /\ pc = "resume" /\ pc' = "run" /\ todo = {} /\ lastCommit' = restart /\ persisted' = restart
  BY DEF StartReplication
<1>5. /\ WalInv' /\ MarkInv' /\ CutoverExact' /\ ExactlyOnce' /\ RestartSafe'
      /\ \A t \in Tables : Mark(t)' = Mark(t) /\ Last(t)' = Last(t)
      /\ \A t \in Tables : Ops(t)' = Ops(t)
      /\ \A t \in Tables : \A l : Settled(t, l)' <=> Settled(t, l)
      /\ \A l : Whole(l)' <=> Whole(l)
  BY <1>4, LakeSame DEF IndInv
<1>6. open = [x \in Xids |-> {}] /\ pending = [t \in Tables |-> {}]
  BY <1>4 DEF IndInv, IdleInv, Running
<1>7. TableInv'
  BY <1>4 DEF IndInv, TableInv, Running
<1>8. IdleInv' /\ ResumeInv' /\ FlushInv'
  BY <1>4 DEF IdleInv, ResumeInv, FlushInv, Running
<1>9. PosInv'
  BY <1>1, <1>2, <1>4, <1>6 DEF PosInv, Lsn
<1>10. DedupeInv'
  BY <1>4, <1>5 DEF DedupeInv, IndInv, ResumeInv, TypeOK, MarkInv, Running
<1>11. OpenInv' /\ PendingInv'
  BY <1>4, <1>6 DEF OpenInv, PendingInv
<1>12. NothingStranded'
  <2>1. SUFFICES ASSUME NEW t \in tables, NEW l \in Ops(t), Whole(l), l < s
                 PROVE  Settled(t, l)
    <3>1. SUFFICES ASSUME NEW t \in tables', NEW l \in Ops(t)', Whole(l)'
                   PROVE  l >= pos' \/ Settled(t, l)'
      BY DEF NothingStranded, Streamed
    <3>2. t \in tables /\ t \in Tables
      BY <1>4 DEF IndInv, TypeOK
    <3>3. l \in Ops(t) /\ Whole(l)
      BY <1>5, <3>1, <3>2
    <3>4. l \in Nat
      BY <3>3 DEF Ops, IndInv, TypeOK
    <3> QED
      BY <1>1, <1>2, <1>5, <2>1, <3>2, <3>3, <3>4
  <2>2. t \in Tables /\ l \in DOMAIN wal /\ l \in Nat
    BY DEF IndInv, TypeOK, Ops
  <2>3. CASE delta[t] = <<>>
    <3>1. l < base[t]
      BY <1>2, <1>4, <2>1, <2>2, <2>3 DEF IndInv, ResumeInv, TypeOK
    <3>2. PICK e \in DOMAIN wal : e < base[t] /\ Ends(e, wal[l].xid)
      BY <2>2, <3>1 DEF IndInv, CutoverExact
    <3>3. e <= Mark(t)
      BY <2>2, <2>3, <3>2 DEF Mark, IndInv, TypeOK
    <3> QED
      BY <3>2, <3>3 DEF Settled
  <2>4. CASE delta[t] # <<>>
    <3>1. l < Last(t).restart
      <4>1. Last(t).restart \in Nat
        BY <2>2, <2>4, LastIsCommit DEF IndInv, DeltaCommit, Lsn
      <4> QED
        BY <1>2, <1>4, <2>1, <2>2, <2>4, <4>1 DEF IndInv, ResumeInv, TypeOK
    <3> QED
      BY <2>1, <2>2, <2>4, <3>1 DEF IndInv, RestartSafe
  <2> QED
    BY <2>3, <2>4
<1> QED
  BY <1>3, <1>5, <1>7, <1>8, <1>9, <1>10, <1>11, <1>12 DEF IndInv

-----------------------------------------------------------------------------
\* A table takes the image of the source: at startup or when it is attached.

LEMMA WalSame ==
    ASSUME wal' = wal
    PROVE  /\ \A t : Ops(t)' = Ops(t) /\ Committed(t)' = Committed(t)
           /\ \A l, x : Ends(l, x)' <=> Ends(l, x)
           /\ \A l : Whole(l)' <=> Whole(l)
<1>1. \A t : Ops(t)' = Ops(t)
  BY DEF Ops, OpOn
<1>2. \A t : Committed(t)' = Committed(t)
  BY <1>1 DEF Committed, Commits
<1>3. \A l, x : Ends(l, x)' <=> Ends(l, x)
  BY DEF Ends
<1>4. \A l : Whole(l)' <=> Whole(l)
  BY DEF Whole
<1> QED
  BY <1>1, <1>2, <1>3, <1>4

\* The lock makes the image complete: every change of the table below the
\* cutover belongs to a transaction that has ended below it.
LEMMA ImageTaken ==
    ASSUME IndInv, TypeOK', NEW t \in Tables, delta[t] = <<>>, Lockable(t),
           wal' = wal,
           base' = [base EXCEPT ![t] = Cutover],
           AppendDelta(t, {}, Cutover, Cutover) \/ delta' = delta
    PROVE  /\ WalInv' /\ MarkInv' /\ CutoverExact' /\ ExactlyOnce' /\ RestartSafe'
           /\ Mark(t)' = Len(wal) + 1
           /\ delta'[t] # <<>> => Last(t)'.restart = Len(wal) + 1
           /\ \A l \in Ops(t) : Settled(t, l)'
           /\ \A u \in Tables \ {t} :
                 /\ delta'[u] = delta[u] /\ base'[u] = base[u]
                 /\ Mark(u)' = Mark(u) /\ Last(u)' = Last(u)
                 /\ \A l : Settled(u, l)' <=> Settled(u, l)
<1> DEFINE cut == Len(wal) + 1
<1>1. Len(wal) \in Nat /\ cut \in Lsn /\ DOMAIN wal = 1..Len(wal) /\ Cutover = cut
  BY WalIsSeq DEF IndInv, Lsn, Cutover
<1>2. /\ \A u : Ops(u)' = Ops(u) /\ Committed(u)' = Committed(u)
      /\ \A l, x : Ends(l, x)' <=> Ends(l, x)
      /\ \A l : Whole(l)' <=> Whole(l)
  BY WalSame
<1>3. /\ base'[t] = cut
      /\ \A u \in Tables \ {t} : base'[u] = base[u] /\ delta'[u] = delta[u]
  BY <1>1 DEF IndInv, TypeOK, AppendDelta
<1>4. \/ delta'[t] = <<>>
      \/ /\ Len(delta'[t]) = 1 /\ DOMAIN delta'[t] = 1..1 /\ delta'[t] # <<>>
         /\ delta'[t][1] = [rows |-> {}, commit |-> cut, restart |-> cut]
  <2>1. CASE delta' = delta
    BY <2>1
  <2>2. CASE AppendDelta(t, {}, Cutover, Cutover)
    <3>1. Len(delta[t]) = 0
      OBVIOUS
    <3> HIDE DEF cut
    <3>2. AppendDelta(t, {}, cut, cut) /\ TypeOK
      BY <1>1, <2>2 DEF IndInv
    <3>3. /\ delta'[t] # <<>> /\ Len(delta'[t]) = 0 + 1 /\ DOMAIN delta'[t] = 1..(0 + 1)
          /\ delta'[t][0 + 1] = [rows |-> {}, commit |-> cut, restart |-> cut]
      <4>1. {} \in SUBSET Row
        OBVIOUS
      <4> QED
        BY <1>1, <3>1, <3>2, <4>1, DeltaGrows, Zenon
    <3> QED
      BY <3>3
  <2> QED
    BY <2>1, <2>2
<1>5. Mark(t)' = cut /\ (delta'[t] # <<>> => Last(t)'.restart = cut)
  BY <1>3, <1>4 DEF Mark, Last
<1>6. \A u \in Tables \ {t} : Mark(u)' = Mark(u) /\ Last(u)' = Last(u)
  BY <1>3 DEF Mark, Last
<1>7. \A u \in Tables \ {t} : \A l : Settled(u, l)' <=> Settled(u, l)
  BY <1>2, <1>6 DEF Settled
<1>8. \A l \in Ops(t) : \E e \in DOMAIN wal : e < cut /\ Ends(e, wal[l].xid)
  BY <1>1 DEF Ops, OpOn, Lockable, IsChange, Ended
<1>9. \A l \in Ops(t) : Settled(t, l)'
  BY <1>1, <1>2, <1>5, <1>8 DEF Settled
<1>10. WalInv'
  BY <1>2 DEF IndInv, WalInv
<1>11. MarkInv'
  <2>1. SUFFICES ASSUME NEW u \in Tables
                 PROVE  /\ base'[u] <= Mark(u)'
                        /\ Mark(u)' <= Len(wal)' \/ Mark(u)' = base'[u]
                        /\ base'[u] <= Len(wal)' + 1
                        /\ delta'[u] # <<>> => Last(u)'.restart <= Len(wal)' + 1
    BY DEF MarkInv
  <2>2. CASE u = t
    BY <1>1, <1>3, <1>5, <2>2
  <2>3. CASE u # t
    BY <1>3, <1>6, <2>3 DEF IndInv, MarkInv
  <2> QED
    BY <2>2, <2>3
<1>12. CutoverExact'
  BY <1>2, <1>3, <1>8 DEF CutoverExact, IndInv
<1>13. \A u \in Tables \ {t} : Due(u)' = Due(u) /\ Published(u)' = Published(u)
  BY <1>2, <1>3, <1>6 DEF Due, Published
<1>14. Due(t)' = {} /\ Published(t)' = {}
  <2>1. Due(t)' = {}
    BY <1>1, <1>3, <1>5 DEF Due, Committed, Commits
  <2>2. Published(t)' = {}
    BY <1>4 DEF Published
  <2> QED
    BY <2>1, <2>2
<1>15. ExactlyOnce'
  <2>1. NoDuplicate'
    BY <1>3, <1>4 DEF NoDuplicate, ExactlyOnce, IndInv
  <2>2. NoPhantom' /\ NoLoss'
    BY <1>2, <1>13, <1>14 DEF NoPhantom, NoLoss, WholeRows, ExactlyOnce, IndInv
  <2> QED
    BY <2>1, <2>2 DEF ExactlyOnce
<1>16. RestartSafe'
  BY <1>2, <1>3, <1>6, <1>7, <1>9 DEF RestartSafe, IndInv
<1> QED
  BY <1>3, <1>5, <1>6, <1>7, <1>9, <1>10, <1>11, <1>12, <1>15, <1>16

LEMMA CandidateStep ==
    ASSUME NEW n \in Nat, NEW l \in 1..n, AddCandidate(l), tables # {} => restart \in 1..n
    PROVE  restart' \in 1..n /\ restart' <= l /\ (tables # {} => restart' <= restart)
<1>1. CASE tables = {}
  BY <1>1 DEF AddCandidate
<1>2. CASE tables # {}
  <2>1. {restart, l} \subseteq Nat /\ {restart, l} # {}
    BY <1>2
  <2>2. Min({restart, l}) \in {restart, l} /\ \A m \in {restart, l} : Min({restart, l}) <= m
    BY <2>1, MinIsLeast
  <2> QED
    BY <1>2, <2>2 DEF AddCandidate
<1> QED
  BY <1>1, <1>2

\* A table resumes from its watermarks, or from a snapshot when it has none.
LEMMA ResumeStep ==
    ASSUME IndInv, NEW t \in Tables, ResumeTable(t)
    PROVE  IndInv'
<1> USE DEF source, lake, buffers
<1>1. /\ pc = "resume" /\ pc' = pc /\ t \in todo /\ t \notin tables
      /\ todo' = todo \ {t} /\ tables' = tables \cup {t}
      /\ UNCHANGED <<wal, exists, slot, floor, pos, start, open, toast, pending,
                     maxCommit, lastCommit, persisted, cont, crashes>>
  BY DEF ResumeTable, IndInv, IdleInv
<1>2. open = [x \in Xids |-> {}] /\ pending = [u \in Tables |-> {}]
  BY <1>1 DEF IndInv, IdleInv, Running
<1>3. Len(wal) \in Nat /\ DOMAIN wal = 1..Len(wal)
  BY WalIsSeq DEF IndInv
<1>4. PICK l \in 1..(Len(wal) + 1), d \in Nat :
        /\ AddCandidate(l)
        /\ dedupe' = [dedupe EXCEPT ![t] = d]
        /\ TypeOK' /\ WalInv' /\ MarkInv' /\ CutoverExact' /\ ExactlyOnce' /\ RestartSafe'
        /\ d = Mark(t)'
        /\ l <= IF delta'[t] = <<>> THEN base'[t] ELSE Last(t)'.restart
        /\ delta'[t] # <<>> => Last(t)'.restart \in Nat
        /\ \A u \in Tables \ {t} :
              /\ delta'[u] = delta[u] /\ base'[u] = base[u]
              /\ Mark(u)' = Mark(u) /\ Last(u)' = Last(u)
  <2>1. CASE ResumeFromMarks(t)
    <3>1. /\ delta[t] # <<>> /\ UNCHANGED <<wal, delta, base>>
          /\ dedupe' = [dedupe EXCEPT ![t] = Last(t).commit]
          /\ AddCandidate(Last(t).restart)
      BY <1>1, <2>1 DEF ResumeFromMarks
    <3>2. Last(t).restart \in 1..(Len(wal) + 1) /\ Last(t).commit \in Nat
      BY <1>3, <3>1, LastIsCommit DEF IndInv, MarkInv, DeltaCommit, Lsn
    <3>3. /\ WalInv' /\ MarkInv' /\ CutoverExact' /\ ExactlyOnce' /\ RestartSafe'
          /\ \A u \in Tables : Mark(u)' = Mark(u) /\ Last(u)' = Last(u)
      BY <3>1, LakeSame DEF IndInv
    <3>4. restart' \in Nat
      BY <1>3, <3>1, <3>2, CandidateStep, <1>1 DEF IndInv, ResumeInv
    <3>5. TypeOK'
      BY <1>1, <3>1, <3>2, <3>4 DEF IndInv, TypeOK
    <3>6. Last(t).commit = Mark(t)'
      BY <3>1, <3>3 DEF Mark
    <3>7. Last(t).restart <= IF delta'[t] = <<>> THEN base'[t] ELSE Last(t)'.restart
      BY <3>1, <3>2, <3>3
    <3>8. Last(t)'.restart \in Nat
      BY <1>3, <3>2, <3>3
    <3> USE <3>2
    <3> WITNESS Last(t).restart \in 1..(Len(wal) + 1), Last(t).commit \in Nat
    <3> QED
      BY <3>1, <3>2, <3>3, <3>5, <3>6, <3>7, <3>8
  <2>2. CASE ResumeFromSnapshot(t)
    <3>1. /\ delta[t] = <<>> /\ Lockable(t)
          /\ base' = [base EXCEPT ![t] = Cutover]
          /\ AppendDelta(t, {}, Cutover, Cutover) \/ delta' = delta
          /\ dedupe' = [dedupe EXCEPT ![t] = Cutover]
          /\ AddCandidate(Cutover)
      BY <2>2 DEF ResumeFromSnapshot
    <3>2. Cutover = Len(wal) + 1 /\ Cutover \in 1..(Len(wal) + 1) /\ Cutover \in Lsn
      BY <1>3 DEF Cutover, Lsn
    <3>3. restart' \in Nat
      BY <1>3, <3>1, <3>2, CandidateStep, <1>1 DEF IndInv, ResumeInv
    <3>4. delta' \in [Tables -> Seq(DeltaCommit)]
      <4>1. CASE AppendDelta(t, {}, Cutover, Cutover)
        <5>1. {} \in SUBSET Row
          OBVIOUS
        <5> QED
          BY <3>2, <4>1, <5>1, DeltaGrows DEF IndInv
      <4> QED
        BY <3>1, <4>1 DEF IndInv, TypeOK
    <3>5. TypeOK'
      BY <1>1, <1>3, <3>1, <3>2, <3>3, <3>4 DEF IndInv, TypeOK, Lsn
    <3>6. /\ WalInv' /\ MarkInv' /\ CutoverExact' /\ ExactlyOnce' /\ RestartSafe'
          /\ Mark(t)' = Len(wal) + 1
          /\ delta'[t] # <<>> => Last(t)'.restart = Len(wal) + 1
          /\ \A u \in Tables \ {t} :
                 /\ delta'[u] = delta[u] /\ base'[u] = base[u]
                 /\ Mark(u)' = Mark(u) /\ Last(u)' = Last(u)
      BY <1>1, <3>1, <3>5, ImageTaken
    <3>7. base'[t] = Len(wal) + 1
      BY <3>1, <3>2 DEF IndInv, TypeOK
    <3>8. Cutover <= IF delta'[t] = <<>> THEN base'[t] ELSE Last(t)'.restart
      BY <1>3, <3>2, <3>6, <3>7
    <3>9. Cutover \in Nat
      BY <1>3, <3>2
    <3> USE <3>2, <3>9
    <3> WITNESS Cutover \in 1..(Len(wal) + 1), Cutover \in Nat
    <3> QED
      BY <1>3, <3>1, <3>2, <3>5, <3>6, <3>8
  <2> QED
    BY <2>1, <2>2 DEF ResumeTable
<1>5. TableInv'
  BY <1>1, <1>4 DEF TableInv, IndInv, IdleInv, Running, TypeOK
<1>6. IdleInv' /\ PosInv' /\ DedupeInv' /\ FlushInv' /\ NothingStranded'
  BY <1>1 DEF IdleInv, PosInv, DedupeInv, FlushInv, NothingStranded, Running, IndInv
<1>7. OpenInv' /\ PendingInv'
  BY <1>1, <1>2 DEF OpenInv, PendingInv
<1>8. ResumeInv'
  <2>1. restart' \in 1..(Len(wal) + 1) /\ restart' <= l /\ (tables # {} => restart' <= restart)
    BY <1>1, <1>3, <1>4, CandidateStep DEF IndInv, ResumeInv
  <2>2. SUFFICES ASSUME NEW u \in tables'
                 PROVE  /\ dedupe'[u] = Mark(u)'
                        /\ restart' <= IF delta'[u] = <<>> THEN base'[u] ELSE Last(u)'.restart
    BY <1>1, <2>1 DEF ResumeInv
  <2>3. CASE u = t
    <3>1. dedupe'[u] = Mark(u)'
      BY <1>4, <2>3 DEF IndInv, TypeOK
    <3>2. base'[t] \in Nat /\ (delta'[t] # <<>> => Last(t)'.restart \in Nat)
      BY <1>4 DEF TypeOK
    <3> QED
      BY <1>3, <1>4, <2>1, <2>3, <3>1, <3>2
  <2>4. CASE u # t
    <3>1. u \in tables /\ u \in Tables
      BY <1>1, <2>4 DEF IndInv, TypeOK
    <3>2. base[u] \in Nat /\ (delta[u] # <<>> => Last(u).restart \in Nat)
      BY <3>1, LastIsCommit DEF IndInv, TypeOK, DeltaCommit, Lsn
    <3>3. dedupe'[u] = Mark(u)'
      BY <1>1, <1>4, <2>4, <3>1 DEF IndInv, TypeOK, ResumeInv
    <3>4. restart <= IF delta[u] = <<>> THEN base[u] ELSE Last(u).restart
      BY <1>1, <3>1 DEF IndInv, ResumeInv
    <3>5. delta'[u] = delta[u] /\ base'[u] = base[u] /\ Last(u)' = Last(u)
      BY <1>4, <2>4, <3>1
    <3>6. restart \in Nat /\ restart' \in Nat /\ restart' <= restart
      BY <2>1, <3>1 DEF IndInv, TypeOK
    <3> QED
      BY <3>2, <3>3, <3>4, <3>5, <3>6
  <2> QED
    BY <2>3, <2>4
<1> QED
  BY <1>4, <1>5, <1>6, <1>7, <1>8 DEF IndInv

\* A table attached while the stream runs starts complete at its cutover.
LEMMA AttachStep ==
    ASSUME IndInv, NEW t \in Tables, AttachTable(t)
    PROVE  IndInv'
<1> USE DEF source, buffers, round
<1>1. /\ pc = "attach" /\ pc' = pc /\ t \in exists /\ t \notin tables
      /\ tables' = tables \cup {t}
      /\ Lockable(t) /\ AppendDelta(t, {}, Cutover, Cutover)
      /\ base' = [base EXCEPT ![t] = Cutover]
      /\ dedupe' = [dedupe EXCEPT ![t] = Cutover]
      /\ UNCHANGED <<wal, exists, slot, floor, pos, start, open, toast, pending, todo,
                     restart, maxCommit, lastCommit, persisted, cont, crashes>>
  BY DEF AttachTable
<1>2. Cutover = Len(wal) + 1 /\ Cutover \in Lsn
  BY WalIsSeq DEF IndInv, Cutover, Lsn
<1>3. delta[t] = <<>>
  BY <1>1 DEF IndInv, TableInv, Running
<1>4. TypeOK'
  <2>1. {} \in SUBSET Row
    OBVIOUS
  <2>2. delta' \in [Tables -> Seq(DeltaCommit)]
    BY <1>1, <1>2, <2>1, DeltaGrows DEF IndInv
  <2> QED
    BY <1>1, <1>2, <2>2 DEF IndInv, TypeOK, Lsn
<1>5. /\ WalInv' /\ MarkInv' /\ CutoverExact' /\ ExactlyOnce' /\ RestartSafe'
      /\ Mark(t)' = Len(wal) + 1
      /\ \A l \in Ops(t) : Settled(t, l)'
      /\ \A u \in Tables \ {t} :
            /\ delta'[u] = delta[u] /\ base'[u] = base[u]
            /\ Mark(u)' = Mark(u) /\ Last(u)' = Last(u)
            /\ \A l : Settled(u, l)' <=> Settled(u, l)
  BY <1>1, <1>3, <1>4, ImageTaken
<1>6. /\ \A u : Ops(u)' = Ops(u) /\ Committed(u)' = Committed(u)
      /\ \A l, x : Ends(l, x)' <=> Ends(l, x)
      /\ \A l : Whole(l)' <=> Whole(l)
  BY <1>1, WalSame
<1>7. TableInv'
  BY <1>1, <1>5 DEF TableInv, IndInv, Running, TypeOK
<1>8. IdleInv' /\ ResumeInv' /\ PosInv' /\ FlushInv'
  BY <1>1 DEF IdleInv, ResumeInv, PosInv, FlushInv, Running, IndInv
<1>9. DedupeInv'
  <2>1. SUFFICES ASSUME NEW u \in tables'
                 PROVE  dedupe'[u] <= Mark(u)' /\ (Mark(u)' <= dedupe'[u] \/ Mark(u)' < pos')
    BY DEF DedupeInv
  <2>2. CASE u = t
    BY <1>1, <1>2, <1>5, <2>2, WalIsSeq DEF IndInv, TypeOK
  <2>3. CASE u # t
    BY <1>1, <1>5, <2>3 DEF IndInv, TypeOK, DedupeInv, Running
  <2> QED
    BY <2>2, <2>3
<1>10. OpenInv'
  BY <1>1, <1>6 DEF OpenInv, IndInv
<1>11. PendingInv'
  <2>1. pending[t] = {}
    BY <1>1 DEF IndInv, PendingInv
  <2> QED
    BY <1>1, <1>5, <1>6, <2>1 DEF PendingInv, IndInv
<1>12. NothingStranded'
  <2>1. SUFFICES ASSUME NEW u \in tables', NEW l \in Ops(u)', Whole(l)'
                 PROVE  Streamed(u, l)'
    BY DEF NothingStranded
  <2>2. u \in Tables /\ l \in Ops(u) /\ Whole(l)
    BY <1>4, <1>6, <2>1 DEF TypeOK
  <2>3. CASE u = t
    BY <1>5, <2>2, <2>3 DEF Streamed
  <2>4. CASE u # t
    <3>1. Streamed(u, l)
      BY <1>1, <2>2, <2>4 DEF IndInv, NothingStranded
    <3> QED
      BY <1>1, <1>5, <2>2, <2>4, <3>1 DEF Streamed
  <2> QED
    BY <2>3, <2>4
<1> QED
  BY <1>4, <1>5, <1>7, <1>8, <1>9, <1>10, <1>11, <1>12 DEF IndInv

-----------------------------------------------------------------------------
\* Flush rounds.

\* An operation record is typed: its transaction is one of Xids.
LEMMA OpRecord ==
    ASSUME TypeOK, NEW t, NEW l \in Ops(t)
    PROVE  l \in DOMAIN wal /\ l \in Lsn /\ wal[l].kind = "op" /\ wal[l].tab = t /\ wal[l].xid \in Xids
<1>1. l \in DOMAIN wal /\ wal[l].kind = "op" /\ wal[l].tab = t
  BY DEF Ops, OpOn
<1>2. wal[l] \in ChangeRecord \cup EndRecord
  BY <1>1 DEF TypeOK
<1>3. wal[l].xid \in Xids
  BY <1>2 DEF ChangeRecord, EndRecord
<1> QED
  BY <1>1, <1>3, WalIsSeq DEF Lsn

\* The restart LSN is in the log, behind the stream, and not above any change
\* that is still buffered.
LEMMA RestartBound ==
    ASSUME IndInv, Running, WithPending # {}
    PROVE  /\ RestartLsn \in 1..Len(wal)
           /\ RestartLsn < pos
           /\ \A x \in Xids : \A l \in open[x] : RestartLsn <= l
<1>1. Len(wal) \in Nat /\ DOMAIN wal = 1..Len(wal) /\ pos \in Nat
  BY WalIsSeq DEF IndInv, TypeOK, Lsn
<1>2. \A l \in Buffered : l \in 1..Len(wal) /\ l < pos
  BY <1>1 DEF Buffered, IndInv, OpenInv
<1>3. CASE Buffered = {}
  <2>1. lastCommit \in Lsn /\ lastCommit < pos /\ pos <= Len(wal) + 1
    BY DEF IndInv, PosInv, WithPending, TypeOK
  <2>2. \A x \in Xids : open[x] = {}
    BY <1>3 DEF Buffered
  <2> QED
    BY <1>1, <1>3, <2>1, <2>2 DEF RestartLsn, Lsn
<1>4. CASE Buffered # {}
  <2>1. Buffered \subseteq Nat
    BY <1>2
  <2>2. Min(Buffered) \in Buffered /\ \A l \in Buffered : Min(Buffered) <= l
    BY <1>4, <2>1, MinIsLeast
  <2>3. RestartLsn = Min(Buffered)
    BY <1>4 DEF RestartLsn
  <2>4. \A x \in Xids : \A l \in open[x] : l \in Buffered
    BY DEF Buffered
  <2> QED
    BY <1>2, <2>2, <2>3, <2>4
<1> QED
  BY <1>3, <1>4

\* A flush round begins with a restart LSN that is safe for every table it
\* will stamp: what is below it is settled or about to be appended.
LEMMA BeginFlushStep ==
    ASSUME IndInv, Flush \/ RemapCheck
    PROVE  IndInv'
<1> USE DEF source, lake, buffers, round
<1>1. PICK next \in {"run", "attach"} : BeginFlush(next)
  BY DEF Flush, RemapCheck
<1>2. /\ pc = "run"
      /\ UNCHANGED <<wal, exists, slot, floor, delta, base, start, pos, tables, dedupe,
                     persisted, open, toast, pending, maxCommit, lastCommit, crashes>>
  BY DEF Flush, RemapCheck
<1>3. CASE WithPending = {}
  <2>1. pc' = next /\ UNCHANGED <<todo, restart, cont>>
    BY <1>1, <1>3 DEF BeginFlush
  <2>2. TypeOK'
    BY <1>2, <2>1 DEF IndInv, TypeOK
  <2> QED
    BY <1>2, <2>1, <2>2, QuietStep
<1>4. CASE WithPending # {}
  <2>1. pc' = "flush" /\ todo' = WithPending /\ restart' = RestartLsn /\ cont' = next
    BY <1>1, <1>4 DEF BeginFlush
  <2>2. /\ RestartLsn \in 1..Len(wal) /\ RestartLsn < pos
        /\ \A x \in Xids : \A l \in open[x] : RestartLsn <= l
    BY <1>2, <1>4, RestartBound DEF Running
  <2>3. Len(wal) \in Nat /\ RestartLsn \in Nat /\ pos \in Nat
    BY <2>2, WalIsSeq DEF IndInv, TypeOK, Lsn
  <2>4. TypeOK'
    BY <1>2, <2>1, <2>3 DEF IndInv, TypeOK, WithPending
  <2>5. /\ WalInv' /\ MarkInv' /\ CutoverExact' /\ ExactlyOnce' /\ RestartSafe'
        /\ \A t \in Tables : Mark(t)' = Mark(t)
        /\ \A t \in Tables : Ops(t)' = Ops(t) /\ Committed(t)' = Committed(t)
        /\ \A t \in Tables : \A l : Settled(t, l)' <=> Settled(t, l)
        /\ \A l, x : Ends(l, x)' <=> Ends(l, x)
        /\ \A l : Whole(l)' <=> Whole(l)
    BY <1>2, LakeSame DEF IndInv
  <2>6. TableInv' /\ IdleInv' /\ ResumeInv' /\ PosInv'
    BY <1>2, <2>1 DEF IndInv, TableInv, IdleInv, ResumeInv, PosInv, Running
  <2>7. DedupeInv' /\ OpenInv' /\ PendingInv'
    BY <1>2, <2>1, <2>5 DEF IndInv, DedupeInv, OpenInv, PendingInv, Running, TypeOK
  <2>8. NothingStranded'
    BY <1>2, <2>5 DEF IndInv, NothingStranded, Streamed, TypeOK
  <2>9. FlushInv'
    <3>1. SUFFICES ASSUME NEW t \in WithPending, NEW l \in Ops(t), Whole(l), l < RestartLsn
                   PROVE  Settled(t, l) \/ \E r \in pending[t] : r.src = l
      <4>1. ASSUME NEW t \in todo' PROVE pending'[t] # {} /\ t \in Tables
        BY <1>2, <2>1 DEF WithPending, IndInv, TypeOK
      <4> QED
        BY <1>2, <2>1, <2>2, <2>5, <4>1 DEF FlushInv
    <3>2. t \in tables /\ t \in Tables
      BY DEF WithPending, IndInv, TypeOK
    <3>3. Streamed(t, l)
      BY <1>2, <3>1, <3>2 DEF IndInv, NothingStranded
    <3>4. l \in Nat /\ wal[l].xid \in Xids
      BY OpRecord DEF IndInv, Lsn
    <3>5. ~(l >= pos) /\ l \notin open[wal[l].xid]
      BY <2>2, <2>3, <3>1, <3>4
    <3> QED
      BY <3>3, <3>5 DEF Streamed
  <2> QED
    BY <2>4, <2>5, <2>6, <2>7, <2>8, <2>9 DEF IndInv
<1> QED
  BY <1>3, <1>4

\* A committed change and the end of its transaction.
LEMMA CommittedRow ==
    ASSUME TypeOK, NEW t, NEW r \in Committed(t)
    PROVE  /\ r.src \in Ops(t) /\ r.at \in DOMAIN wal /\ r.at \in Lsn
           /\ wal[r.at].kind = "commit"
           /\ wal[r.src].xid \in Xids
           /\ Ends(r.at, wal[r.src].xid)
           /\ r = [src |-> r.src, at |-> r.at]
<1>1. r \in [src : Ops(t), at : Commits] /\ wal[r.src].xid \in Settles(wal[r.at])
  BY DEF Committed
<1>2. r.src \in Ops(t) /\ r.at \in Commits /\ r = [src |-> r.src, at |-> r.at]
  BY <1>1
<1>3. r.at \in DOMAIN wal /\ wal[r.at].kind = "commit"
  BY <1>2 DEF Commits
<1>4. Ends(r.at, wal[r.src].xid)
  BY <1>1, <1>3 DEF Ends, IsEnd
<1> QED
  BY <1>2, <1>3, <1>4, OpRecord, WalIsSeq DEF Lsn

LEMMA EndsOnce ==
    ASSUME TypeOK, WalInv, NEW x \in Xids, NEW i \in DOMAIN wal, NEW j \in DOMAIN wal,
           Ends(i, x), Ends(j, x)
    PROVE  i = j
<1>1. i \in Nat /\ j \in Nat
  BY WalIsSeq
<1>2. ~(i < j) /\ ~(j < i)
  BY DEF WalInv
<1> QED
  BY <1>1, <1>2

\* A table that is appended is complete up to the commit LSN it is stamped
\* with: what the stream passed below that LSN is in Delta or in the batch.
LEMMA BatchComplete ==
    ASSUME IndInv, Running, NEW t \in tables, NEW r \in Committed(t),
           Whole(r.src), Mark(t) < r.at, r.at < pos
    PROVE  r \in pending[t]
<1> DEFINE l == r.src
<1>1. /\ l \in Ops(t) /\ r.at \in DOMAIN wal /\ r.at \in Nat /\ wal[r.at].kind = "commit"
      /\ wal[l].xid \in Xids /\ Ends(r.at, wal[l].xid) /\ r = [src |-> l, at |-> r.at]
  BY CommittedRow DEF IndInv, Lsn
<1>2. l \in DOMAIN wal /\ l \in Nat /\ wal[l].kind = "op" /\ t \in Tables
  BY <1>1, OpRecord DEF IndInv, Lsn, TypeOK
<1>3. Streamed(t, l)
  BY <1>1 DEF IndInv, NothingStranded, Running
<1>4. pos \in Nat /\ Mark(t) \in Nat /\ WalInv /\ TypeOK
  BY <1>2, MarkIsNat DEF IndInv, TypeOK, Lsn
<1> HIDE DEF l
<1>5. ~(l >= pos)
  BY <1>1, <1>2, <1>4 DEF WalInv, IsChange
<1>6. ~Settled(t, l)
  <2>1. SUFFICES ASSUME NEW e \in DOMAIN wal, Ends(e, wal[l].xid)
                 PROVE  wal[e].kind # "abort" /\ ~(e <= Mark(t))
    BY DEF Settled
  <2>2. e = r.at
    BY <1>1, <1>4, <2>1, EndsOnce
  <2> QED
    BY <1>1, <1>4, <2>2
<1>7. l \notin open[wal[l].xid]
  BY <1>1, <1>4 DEF IndInv, OpenInv
<1>8. PICK q \in pending[t] : q.src = l
  BY <1>3, <1>5, <1>6, <1>7 DEF Streamed
<1>9. q \in Committed(t)
  BY <1>2 DEF IndInv, PendingInv
<1>10. q.at \in DOMAIN wal /\ Ends(q.at, wal[l].xid) /\ q = [src |-> l, at |-> q.at]
  BY <1>4, <1>8, <1>9, CommittedRow
<1>11. q.at = r.at
  BY <1>1, <1>4, <1>10, EndsOnce
<1> QED
  BY <1>1, <1>10, <1>11

\* One table of a flush round: its rows and both watermarks, atomically.
LEMMA FlushTableStep ==
    ASSUME IndInv, NEW t \in Tables, FlushTable(t)
    PROVE  IndInv'
<1> DEFINE c == maxCommit[t]
<1> USE DEF source
<1>1. /\ pc = "flush" /\ t \in todo
      /\ AppendDelta(t, pending[t], c, restart)
      /\ pending' = [pending EXCEPT ![t] = {}]
      /\ todo' = todo \ {t}
      /\ UNCHANGED <<wal, exists, slot, floor, base, start, pos, tables, open, toast,
                     maxCommit, dedupe, lastCommit, crashes>>
      /\ \/ pc' = cont /\ persisted' = restart /\ restart' = 0 /\ cont' = "run"
         \/ UNCHANGED <<pc, persisted, restart, cont>>
  BY DEF FlushTable
<1>2. /\ Len(wal) \in Nat /\ DOMAIN wal = 1..Len(wal) /\ pos \in Nat /\ base[t] \in Nat
      /\ Mark(t) \in Nat /\ TypeOK /\ WalInv /\ Running
  BY <1>1, WalIsSeq, MarkIsNat DEF IndInv, TypeOK, Lsn, Running
<1>3. /\ pending[t] # {} /\ t \in tables /\ c \in 1..Len(wal) /\ c < pos
      /\ restart \in 1..Len(wal)
  BY <1>1, <1>2 DEF IndInv, FlushInv, PendingInv
<1>4. \A r \in pending[t] : r \in Committed(t) /\ Mark(t) < r.at /\ r.at <= c /\ r.at \in Nat
  BY <1>2, CommittedRow DEF IndInv, PendingInv, Lsn
<1>5. Mark(t) < c
  BY <1>2, <1>3, <1>4
<1>6. c \in Lsn /\ restart \in Lsn /\ pending[t] \in SUBSET Row
  BY <1>2, <1>3 DEF Lsn, TypeOK
<1>7. pc' \in {"run", "flush", "attach"} /\ Running'
  BY <1>1, <1>2 DEF TypeOK, Running
<1>8. /\ \A u : Ops(u)' = Ops(u) /\ Committed(u)' = Committed(u)
      /\ \A l, x : Ends(l, x)' <=> Ends(l, x)
      /\ \A l : Whole(l)' <=> Whole(l)
  BY <1>1, WalSame
<1> HIDE DEF c
<1>9. /\ delta' \in [Tables -> Seq(DeltaCommit)]
      /\ \A u \in Tables \ {t} : delta'[u] = delta[u]
      /\ delta'[t] # <<>>
      /\ Len(delta'[t]) = Len(delta[t]) + 1 /\ Len(delta[t]) \in Nat
      /\ \A i \in DOMAIN delta[t] : delta'[t][i] = delta[t][i]
      /\ DOMAIN delta[t] = 1..Len(delta[t])
      /\ DOMAIN delta'[t] = 1..(Len(delta[t]) + 1)
      /\ delta'[t][Len(delta[t]) + 1] = [rows |-> pending[t], commit |-> c, restart |-> restart]
  BY <1>1, <1>2, <1>6, DeltaGrows
<1>10. Mark(t)' = c /\ Last(t)'.restart = restart
  BY <1>9 DEF Mark, Last
<1>11. \A u \in Tables \ {t} : Mark(u)' = Mark(u) /\ Last(u)' = Last(u)
  BY <1>1, <1>9 DEF Mark, Last
<1>12. \A u \in Tables \ {t} : \A l : Settled(u, l)' <=> Settled(u, l)
  BY <1>1, <1>8, <1>11 DEF Settled
<1>13. \A l : Settled(t, l) => Settled(t, l)'
  <2>1. \A e \in DOMAIN wal : e <= Mark(t) => e <= Mark(t)'
    BY <1>2, <1>3, <1>5, <1>10
  <2> QED
    BY <1>1, <1>8, <2>1 DEF Settled
<1>14. \A r \in pending[t] : Settled(t, r.src)'
  <2>1. \A r \in pending[t] : r.at \in DOMAIN wal /\ Ends(r.at, wal[r.src].xid) /\ r.at <= Mark(t)'
    BY <1>2, <1>4, <1>10, CommittedRow
  <2> QED
    BY <1>1, <1>8, <2>1 DEF Settled
<1>15. TypeOK'
  <2>1. pending' \in [Tables -> SUBSET Row]
    BY <1>1, <1>2 DEF TypeOK
  <2>2. restart' \in Nat /\ persisted' \in Nat /\ cont' \in {"run", "attach"}
    BY <1>1, <1>2 DEF TypeOK
  <2> QED
    BY <1>1, <1>2, <1>7, <1>9, <2>1, <2>2 DEF TypeOK
<1>16. WalInv'
  BY <1>1, <1>2, <1>8 DEF WalInv
<1>17. MarkInv'
  <2>1. SUFFICES ASSUME NEW u \in Tables
                 PROVE  /\ base'[u] <= Mark(u)'
                        /\ Mark(u)' <= Len(wal)' \/ Mark(u)' = base'[u]
                        /\ base'[u] <= Len(wal)' + 1
                        /\ delta'[u] # <<>> => Last(u)'.restart <= Len(wal)' + 1
    BY DEF MarkInv
  <2>2. CASE u = t
    BY <1>1, <1>2, <1>3, <1>5, <1>10, <2>2 DEF IndInv, MarkInv
  <2>3. CASE u # t
    BY <1>1, <1>9, <1>11, <2>3 DEF IndInv, MarkInv
  <2> QED
    BY <2>2, <2>3
<1>18. TableInv'
  BY <1>1, <1>3, <1>7, <1>9 DEF IndInv, TableInv, Running
<1>19. CutoverExact'
  BY <1>1, <1>8 DEF IndInv, CutoverExact
<1>20. IdleInv' /\ ResumeInv'
  BY <1>7 DEF IdleInv, ResumeInv, Running
<1>21. PosInv'
  BY <1>1, <1>2, <1>3, <1>6 DEF IndInv, PosInv
<1>22. DedupeInv'
  <2>1. SUFFICES ASSUME NEW u \in tables'
                 PROVE  dedupe'[u] <= Mark(u)' /\ (Mark(u)' <= dedupe'[u] \/ Mark(u)' < pos')
    BY DEF DedupeInv
  <2>2. u \in tables /\ u \in Tables /\ dedupe[u] \in Nat
    BY <1>1, <1>2 DEF TypeOK
  <2>3. dedupe[u] <= Mark(u) /\ (Mark(u) <= dedupe[u] \/ Mark(u) < pos)
    BY <1>2, <2>2 DEF IndInv, DedupeInv
  <2>4. CASE u = t
    BY <1>1, <1>2, <1>3, <1>5, <1>10, <2>2, <2>3, <2>4
  <2>5. CASE u # t
    BY <1>1, <1>11, <2>2, <2>3, <2>5
  <2> QED
    BY <2>4, <2>5
<1>23. OpenInv'
  BY <1>1, <1>8 DEF IndInv, OpenInv
<1>24. PendingInv'
  BY <1>1, <1>2, <1>8, <1>11 DEF IndInv, PendingInv, TypeOK
<1>25. FlushInv'
  <2>1. SUFFICES ASSUME pc' = "flush", NEW u \in todo'
                 PROVE  /\ restart' \in 1..Len(wal)'
                        /\ pending'[u] # {}
                        /\ \A l \in Ops(u)' : Whole(l)' /\ l < restart' =>
                              Settled(u, l)' \/ \E r \in pending'[u] : r.src = l
    <3>1. pc' = "flush" => restart' \in 1..Len(wal)'
      BY <1>1, <1>2, <1>3 DEF TypeOK
    <3> QED
      BY <2>1, <3>1 DEF FlushInv
  <2>2. restart' = restart
    BY <1>1, <1>2, <2>1 DEF TypeOK
  <2>3. u \in todo /\ u \in Tables /\ u # t /\ pending'[u] = pending[u]
    BY <1>1, <1>2 DEF TypeOK
  <2> QED
    BY <1>1, <1>3, <1>8, <1>12, <2>2, <2>3 DEF IndInv, FlushInv
<1>26. NothingStranded'
  <2>1. SUFFICES ASSUME NEW u \in tables', NEW l \in Ops(u)', Whole(l)'
                 PROVE  Streamed(u, l)'
    BY DEF NothingStranded
  <2>2. u \in tables /\ u \in Tables /\ l \in Ops(u) /\ Whole(l)
    BY <1>1, <1>2, <1>8, <2>1 DEF TypeOK
  <2>3. Streamed(u, l)
    BY <1>2, <2>2 DEF IndInv, NothingStranded, Running
  <2>4. CASE u = t
    BY <1>1, <1>13, <1>14, <2>3, <2>4 DEF Streamed
  <2>5. CASE u # t
    <3>1. pending'[u] = pending[u]
      BY <1>1, <1>2, <2>2, <2>5 DEF TypeOK
    <3> QED
      BY <1>1, <1>12, <2>2, <2>3, <2>5, <3>1 DEF Streamed
  <2> QED
    BY <2>4, <2>5
<1>27. ExactlyOnce'
  <2>1. \A u \in Tables \ {t} : Due(u)' = Due(u) /\ Published(u)' = Published(u)
    BY <1>1, <1>8, <1>9, <1>11 DEF Due, Published
  <2>2. Due(t)' = {r \in Committed(t) : base[t] < r.at /\ r.at <= c}
    BY <1>1, <1>8, <1>10 DEF Due
  <2>3. Published(t)' = Published(t) \cup pending[t]
    <3>1. \A r : r \in Published(t)' <=> \E i \in 1..(Len(delta[t]) + 1) : r \in delta'[t][i].rows
      BY <1>9 DEF Published
    <3>2. \A r : r \in Published(t) <=> \E i \in 1..Len(delta[t]) : r \in delta[t][i].rows
      BY <1>9 DEF Published
    <3>3. \A i : i \in 1..(Len(delta[t]) + 1) <=> i \in 1..Len(delta[t]) \/ i = Len(delta[t]) + 1
      BY <1>9
    <3>4. \A i \in 1..Len(delta[t]) : delta'[t][i] = delta[t][i]
      BY <1>9
    <3>5. delta'[t][Len(delta[t]) + 1].rows = pending[t]
      BY <1>9
    <3> QED
      BY <3>1, <3>2, <3>3, <3>4, <3>5, Zenon
  <2>4. NoDuplicate'
    <3>1. \A i \in DOMAIN delta[t] : \A r \in delta[t][i].rows : r.at <= Mark(t)
      BY DEF IndInv, ExactlyOnce, NoPhantom, Published, Due
    <3>2. \A i \in DOMAIN delta[t] : delta[t][i].rows \cap pending[t] = {}
      <4>1. SUFFICES ASSUME NEW i \in DOMAIN delta[t], NEW r \in delta[t][i].rows, r \in pending[t]
                     PROVE  FALSE
        OBVIOUS
      <4> QED
        BY <1>2, <1>4, <3>1, <4>1
    <3>3. SUFFICES ASSUME NEW u \in Tables, NEW i \in DOMAIN delta'[u], NEW j \in DOMAIN delta'[u], i # j
                   PROVE  delta'[u][i].rows \cap delta'[u][j].rows = {}
      BY DEF NoDuplicate
    <3>4. CASE u # t
      BY <1>9, <3>3, <3>4 DEF IndInv, ExactlyOnce, NoDuplicate
    <3>5. CASE u = t
      <4>1. \A k \in DOMAIN delta'[t] :
              \/ k \in DOMAIN delta[t] /\ delta'[t][k] = delta[t][k]
              \/ k = Len(delta[t]) + 1 /\ delta'[t][k].rows = pending[t]
        BY <1>9
      <4>2. \A k, m \in DOMAIN delta[t] : k # m => delta[t][k].rows \cap delta[t][m].rows = {}
        BY DEF IndInv, ExactlyOnce, NoDuplicate
      <4> QED
        BY <3>2, <3>3, <3>5, <4>1, <4>2
    <3> QED
      BY <3>4, <3>5
  <2>5. NoPhantom'
    <3>1. \A r \in Published(t) : r \in Committed(t) /\ base[t] < r.at /\ r.at <= Mark(t)
      BY DEF IndInv, ExactlyOnce, NoPhantom, Due
    <3>2. \A r \in Published(t) : r.at \in Nat
      BY <1>2, <3>1, CommittedRow DEF Lsn
    <3>3. c \in Nat /\ base[t] <= Mark(t)
      BY <1>3 DEF IndInv, MarkInv
    <3>4. \A r \in Published(t) : r.at <= c
      BY <1>2, <1>5, <3>1, <3>2, <3>3
    <3>5. \A r \in pending[t] : base[t] < r.at
      BY <1>2, <1>4, <3>3
    <3>6. Published(t)' \subseteq Due(t)'
      BY <1>4, <2>2, <2>3, <3>1, <3>4, <3>5
    <3> QED
      BY <2>1, <3>6 DEF IndInv, ExactlyOnce, NoPhantom
  <2>6. NoLoss'
    <3>1. SUFFICES ASSUME NEW r \in Due(t)', Whole(r.src)
                   PROVE  r \in Published(t)'
      BY <1>8, <2>1 DEF IndInv, ExactlyOnce, NoLoss, WholeRows
    <3>2. r \in Committed(t) /\ base[t] < r.at /\ r.at <= c /\ r.at \in Nat
      BY <1>2, <2>2, <3>1, CommittedRow DEF Lsn
    <3>3. CASE r.at <= Mark(t)
      <4>1. r \in Published(t)
        BY <3>1, <3>2, <3>3 DEF IndInv, ExactlyOnce, NoLoss, WholeRows, Due
      <4> QED
        BY <2>3, <4>1
    <3>4. CASE ~(r.at <= Mark(t))
      <4>1. Mark(t) < r.at /\ r.at < pos
        BY <1>2, <1>3, <3>2, <3>4
      <4> QED
        BY <1>2, <1>3, <2>3, <3>1, <3>2, <4>1, BatchComplete
    <3> QED
      BY <3>3, <3>4
  <2> QED
    BY <2>4, <2>5, <2>6 DEF ExactlyOnce
<1>28. RestartSafe'
  <2>1. SUFFICES ASSUME NEW u \in Tables, delta'[u] # <<>>, NEW l \in Ops(u), Whole(l), l < Last(u)'.restart
                 PROVE  Settled(u, l)'
    BY <1>8 DEF RestartSafe
  <2>2. CASE u = t
    BY <1>1, <1>10, <1>13, <1>14, <2>1, <2>2 DEF IndInv, FlushInv
  <2>3. CASE u # t
    BY <1>9, <1>11, <1>12, <2>1, <2>3 DEF IndInv, RestartSafe
  <2> QED
    BY <2>2, <2>3
<1> QED
  BY <1>15, <1>16, <1>17, <1>18, <1>19, <1>20, <1>21, <1>22, <1>23, <1>24, <1>25, <1>26, <1>27, <1>28
     DEF IndInv

-----------------------------------------------------------------------------
\* The source writes a record.

\* Only a COMMIT adds committed changes, and they carry its LSN.
LEMMA CommittedGrows ==
    ASSUME TypeOK, NEW r \in ChangeRecord \cup EndRecord,
           wal' = Append(wal, r), IsChange(r) => ~Ended(r.xid), UNCHANGED lake
    PROVE  /\ \A t : Committed(t) \subseteq Committed(t)'
           /\ \A t : \A q \in Committed(t)' : q \in Committed(t) \/ q.at = Len(wal) + 1
<1> DEFINE n == Len(wal) + 1
<1>1. /\ Len(wal) \in Nat
      /\ \A l : l \in DOMAIN wal' <=> l \in DOMAIN wal \/ l = n
      /\ n \notin DOMAIN wal
      /\ \A l \in DOMAIN wal : wal'[l] = wal[l]
      /\ wal'[n] = r
  BY WalGrows
<1> HIDE DEF n
<1>2. \A t : Ops(t) \subseteq Ops(t)'
  BY <1>1 DEF Ops, OpOn
<1>3. \A t, l : l \in Ops(t)' => l \in Ops(t) \/ l = n
  BY <1>1 DEF Ops, OpOn
<1>4. \A t : Committed(t) \subseteq Committed(t)'
  <2>1. Commits \subseteq Commits'
    BY <1>1 DEF Commits
  <2>2. \A t : \A l \in Ops(t) : wal'[l] = wal[l]
    BY <1>1 DEF Ops
  <2>3. \A c \in Commits : wal'[c] = wal[c]
    BY <1>1 DEF Commits
  <2> QED
    BY <1>2, <2>1, <2>2, <2>3 DEF Committed
<1>5. \A t : \A q \in Committed(t)' : q \in Committed(t) \/ q.at = n
  <2>1. SUFFICES ASSUME NEW t, NEW q \in Committed(t)', q.at # n
                 PROVE  q \in Committed(t)
    OBVIOUS
  <2>2. q \in [src : Ops(t)', at : Commits'] /\ wal'[q.src].xid \in Settles(wal'[q.at])
    BY DEF Committed
  <2>3. q.at \in DOMAIN wal /\ q.at \in Commits /\ wal'[q.at] = wal[q.at]
    BY <1>1, <2>1, <2>2 DEF Commits
  <2>4. q.src # n
    <3>1. SUFFICES ASSUME q.src = n PROVE FALSE
      OBVIOUS
    <3>2. r.kind = "op" /\ r.xid \in Settles(wal[q.at])
      BY <1>1, <2>2, <2>3, <3>1 DEF Ops, OpOn
    <3>3. Ended(r.xid)
      BY <2>3, <3>2 DEF Ended, Ends, IsEnd, Commits
    <3> QED
      BY <3>2, <3>3 DEF IsChange
  <2>5. q.src \in Ops(t) /\ wal'[q.src] = wal[q.src]
    BY <1>1, <1>3, <2>2, <2>4 DEF Ops
  <2> QED
    BY <2>2, <2>3, <2>5 DEF Committed
<1> QED
  BY <1>4, <1>5 DEF n

LEMMA LogStep ==
    ASSUME IndInv, NEW r \in ChangeRecord \cup EndRecord,
           wal' = Append(wal, r),
           IsChange(r) => ~Ended(r.xid),
           IsEnd(r) => \A x \in Settles(r) : ~Ended(x),
           UNCHANGED <<exists, slot, floor, lake, pc, start, pos, tables, dedupe,
                       persisted, buffers, round, crashes>>
    PROVE  IndInv'
<1> DEFINE n == Len(wal) + 1
<1> USE DEF lake, buffers, round
<1>1. /\ Len(wal)' = n /\ Len(wal) \in Nat /\ n \in Nat
      /\ DOMAIN wal = 1..Len(wal) /\ DOMAIN wal' = 1..n
      /\ \A l : l \in DOMAIN wal' <=> l \in DOMAIN wal \/ l = n
      /\ n \notin DOMAIN wal
      /\ \A l \in DOMAIN wal : wal'[l] = wal[l] /\ l < n
      /\ wal'[n] = r
      /\ \A t \in Tables : Mark(t)' = Mark(t) /\ Last(t)' = Last(t)
      /\ wal' \in Seq(ChangeRecord \cup EndRecord)
  <2>1. \A t \in Tables : Last(t)' = Last(t)
    BY DEF Last
  <2> QED
    BY <2>1, WalGrows DEF IndInv
<1>2. TypeOK'
  BY <1>1 DEF IndInv, TypeOK
<1> HIDE DEF n
<1>3. UNCHANGED <<delta, base, pc, pos, tables, dedupe, open, pending, maxCommit, lastCommit,
                  todo, restart, exists>>
  OBVIOUS
<1>4. \A l \in DOMAIN wal : \A x : Ends(l, x)' <=> Ends(l, x)
  BY <1>1 DEF Ends
<1>5. \A l \in DOMAIN wal : Whole(l)' <=> Whole(l)
  BY <1>1 DEF Whole
<1>6. \A t, l : l \in Ops(t)' => l \in Ops(t) \/ l = n
  BY <1>1 DEF Ops, OpOn
<1>7. \A t : Ops(t) \subseteq Ops(t)'
  BY <1>1 DEF Ops, OpOn
<1>8. \A t \in Tables : \A l \in DOMAIN wal : Settled(t, l) => Settled(t, l)'
  BY <1>1, <1>4 DEF Settled
<1>9. /\ \A t : Committed(t) \subseteq Committed(t)'
      /\ \A t : \A q \in Committed(t)' : q \in Committed(t) \/ q.at = n
  BY CommittedGrows DEF IndInv, n
<1>11. WalInv'
  <2>1. SUFFICES ASSUME NEW i \in DOMAIN wal', NEW j \in DOMAIN wal', NEW x \in Xids,
                        i < j, Ends(i, x)'
                 PROVE  ~Ends(j, x)' /\ ~(IsChange(wal'[j]) /\ wal'[j].xid = x)
    BY DEF WalInv
  <2>2. i \in DOMAIN wal
    BY <1>1, <2>1
  <2>3. Ends(i, x)
    BY <1>4, <2>1, <2>2
  <2>4. CASE j \in DOMAIN wal
    BY <1>1, <1>4, <2>1, <2>2, <2>3, <2>4 DEF IndInv, WalInv
  <2>5. CASE j = n
    <3>1. Ended(x)
      BY <2>2, <2>3 DEF Ended
    <3>2. ~(IsEnd(r) /\ x \in Settles(r)) /\ ~(IsChange(r) /\ r.xid = x)
      BY <3>1
    <3> QED
      BY <1>1, <2>5, <3>2 DEF Ends
  <2> QED
    BY <1>1, <2>4, <2>5
<1>12. \A t \in Tables : Mark(t) \in Nat /\ base[t] \in Nat
  BY MarkIsNat DEF IndInv, TypeOK
<1>13. MarkInv'
  <2>1. SUFFICES ASSUME NEW t \in Tables
                 PROVE  /\ base[t] <= Mark(t)
                        /\ Mark(t) <= n \/ Mark(t) = base[t]
                        /\ base[t] <= n + 1
                        /\ delta[t] # <<>> => Last(t).restart <= n + 1
    BY <1>1, <1>3 DEF MarkInv
  <2>2. delta[t] # <<>> => Last(t).restart \in Nat
    BY LastIsCommit DEF IndInv, DeltaCommit, Lsn
  <2> QED
    BY <1>1, <1>12, <2>2 DEF IndInv, MarkInv, n
<1>14. TableInv' /\ IdleInv'
  BY <1>3 DEF IndInv, TableInv, IdleInv, Running
<1>15. CutoverExact'
  <2>1. SUFFICES ASSUME NEW t \in Tables, NEW l \in Ops(t)', l < base[t]
                 PROVE  \E e \in DOMAIN wal' : e < base[t] /\ Ends(e, wal[l].xid)'
    BY <1>3 DEF CutoverExact
  <2>2. l # n
    BY <1>1, <1>12, <2>1 DEF IndInv, MarkInv, n
  <2>3. l \in Ops(t) /\ l \in DOMAIN wal
    BY <1>6, <2>1, <2>2 DEF Ops
  <2>4. PICK e \in DOMAIN wal : e < base[t] /\ Ends(e, wal[l].xid)
    BY <2>1, <2>3 DEF IndInv, CutoverExact
  <2> QED
    BY <1>1, <1>4, <2>3, <2>4
<1>16. ResumeInv'
  <2>1. \A m \in 1..(Len(wal) + 1) : m \in 1..(Len(wal)' + 1)
    BY <1>1 DEF n
  <2> QED
    BY <1>1, <1>3, <2>1 DEF IndInv, ResumeInv, TypeOK
<1>17. PosInv'
  <2>1. pos \in Nat /\ (Running => pos <= n)
    BY <1>1 DEF IndInv, TypeOK, Lsn, PosInv, n
  <2> QED
    BY <1>1, <1>3, <2>1 DEF IndInv, PosInv, Running
<1>18. DedupeInv'
  BY <1>1, <1>3 DEF IndInv, DedupeInv, Running, TypeOK
<1>19. OpenInv'
  <2>1. SUFFICES ASSUME NEW x \in Xids, NEW l \in open[x]
                 PROVE  /\ l \in DOMAIN wal' /\ l < pos
                        /\ wal'[l].kind = "op" /\ wal'[l].xid = x /\ wal'[l].tab \in tables
                        /\ \A e \in DOMAIN wal' : Ends(e, x)' => pos <= e
    BY <1>3 DEF OpenInv
  <2>2. /\ l \in DOMAIN wal /\ l < pos
        /\ wal[l].kind = "op" /\ wal[l].xid = x /\ wal[l].tab \in tables
        /\ \A e \in DOMAIN wal : Ends(e, x) => pos <= e
    BY <2>1 DEF IndInv, OpenInv
  <2>3. Running
    BY <2>1 DEF IndInv, IdleInv
  <2>4. pos <= n
    BY <2>3 DEF IndInv, PosInv, n
  <2> QED
    BY <1>1, <1>4, <2>2, <2>4
<1>20. PendingInv'
  BY <1>1, <1>3, <1>9 DEF IndInv, PendingInv
<1>21. FlushInv'
  <2>1. SUFFICES ASSUME pc = "flush", NEW t \in todo
                 PROVE  /\ restart \in 1..n
                        /\ pending[t] # {}
                        /\ \A l \in Ops(t)' : Whole(l)' /\ l < restart =>
                              Settled(t, l)' \/ \E q \in pending[t] : q.src = l
    <3>1. pc = "flush" => restart \in 1..n
      BY <1>1 DEF IndInv, FlushInv, n
    <3> QED
      BY <1>1, <1>3, <2>1, <3>1 DEF FlushInv
  <2>2. restart \in 1..Len(wal) /\ restart < n /\ t \in Tables
    BY <1>1, <2>1 DEF IndInv, FlushInv, TypeOK, n
  <2>3. ASSUME NEW l \in Ops(t)', Whole(l)', l < restart
        PROVE  Settled(t, l)' \/ \E q \in pending[t] : q.src = l
    <3>1. l \in Ops(t) /\ l \in DOMAIN wal
      BY <1>1, <1>6, <2>2, <2>3 DEF Ops
    <3>2. Whole(l)
      BY <1>5, <2>3, <3>1
    <3> QED
      BY <1>8, <2>1, <2>2, <2>3, <3>1, <3>2 DEF IndInv, FlushInv
  <2> QED
    BY <1>1, <2>1, <2>2, <2>3 DEF IndInv, FlushInv
<1>22. NothingStranded'
  <2>1. SUFFICES ASSUME Running, NEW t \in tables, NEW l \in Ops(t)', Whole(l)'
                 PROVE  Streamed(t, l)'
    BY <1>3 DEF NothingStranded, Running
  <2>2. CASE l = n
    <3>1. l >= pos
      BY <2>1, <2>2, <1>1 DEF IndInv, PosInv, TypeOK, Lsn, n
    <3> QED
      BY <1>3, <3>1 DEF Streamed
  <2>3. CASE l # n
    <3>1. l \in Ops(t) /\ l \in DOMAIN wal /\ t \in Tables
      BY <1>6, <2>3 DEF Ops, IndInv, TypeOK
    <3>2. Streamed(t, l)
      BY <1>5, <2>1, <3>1 DEF IndInv, NothingStranded, Running
    <3> QED
      BY <1>1, <1>3, <1>8, <3>1, <3>2 DEF Streamed
  <2> QED
    BY <2>2, <2>3
<1>23. ExactlyOnce'
  <2>1. \A t \in Tables : Published(t)' = Published(t)
    BY <1>3 DEF Published
  <2>2. ASSUME NEW t \in Tables PROVE Due(t)' = Due(t)
    <3>1. ~(base[t] < n /\ n <= Mark(t))
      BY <1>1, <1>12 DEF IndInv, MarkInv, n
    <3> QED
      BY <1>1, <1>3, <1>9, <3>1 DEF Due
  <2>3. \A t \in Tables : \A q \in Due(t) : Whole(q.src)' <=> Whole(q.src)
    <3>1. \A t \in Tables : \A q \in Due(t) : q.src \in DOMAIN wal
      BY DEF Due, Committed, Ops
    <3> QED
      BY <1>5, <3>1
  <2>4. NoDuplicate'
    BY <1>3 DEF IndInv, ExactlyOnce, NoDuplicate
  <2>5. NoPhantom' /\ NoLoss'
    BY <2>1, <2>2, <2>3 DEF IndInv, ExactlyOnce, NoPhantom, NoLoss, WholeRows
  <2> QED
    BY <2>4, <2>5 DEF ExactlyOnce
<1>24. RestartSafe'
  <2>1. SUFFICES ASSUME NEW t \in Tables, delta[t] # <<>>, NEW l \in Ops(t)', Whole(l)', l < Last(t).restart
                 PROVE  Settled(t, l)'
    BY <1>1, <1>3 DEF RestartSafe
  <2>2. Last(t).restart <= n /\ Last(t).restart \in Nat
    BY <2>1, LastIsCommit DEF IndInv, MarkInv, DeltaCommit, Lsn, n
  <2>3. l \in Ops(t) /\ l \in DOMAIN wal
    BY <1>1, <1>6, <2>1, <2>2 DEF Ops
  <2> QED
    BY <1>5, <1>8, <2>1, <2>3 DEF IndInv, RestartSafe
<1> QED
  BY <1>2, <1>11, <1>13, <1>14, <1>15, <1>16, <1>17, <1>18, <1>19, <1>20, <1>21, <1>22, <1>23, <1>24
     DEF IndInv

LEMMA SourceSteps ==
    ASSUME IndInv, Source
    PROVE  IndInv'
<1>1. ASSUME NEW x \in Xids, NEW t \in Tables, WriteChange(x, t)
      PROVE  IndInv'
  <2>1. PICK r \in [kind : {"op"}, xid : {x}, tab : {t}, chunk : ChunksFor(x, t)]
                   \cup [kind : {"chunk"}, xid : {x}, tab : {t} \cap ToastTables, chunk : {0}] :
           wal' = Append(wal, r)
    BY <1>1 DEF WriteChange
  <2>2. ChunksFor(x, t) \subseteq Nat
    BY WalIsSeq DEF ChunksFor, IndInv
  <2>3. r \in ChangeRecord
    BY <2>1, <2>2 DEF ChangeRecord
  <2>4. IsChange(r) /\ ~IsEnd(r) /\ r.xid = x
    BY <2>1 DEF IsChange, IsEnd
  <2>5. ~Ended(x) /\ UNCHANGED <<exists, slot, floor, lake, pc, start, pos, tables, dedupe,
                                 persisted, buffers, round, crashes>>
    BY <1>1 DEF WriteChange
  <2> QED
    BY <2>1, <2>3, <2>4, <2>5, LogStep
<1>2. ASSUME NEW x \in Xids, NEW subs \in SUBSET (Xids \ {x}), EndTransaction(x, subs)
      PROVE  IndInv'
  <2>1. PICK k \in {"commit", "abort"} : wal' = Append(wal, [kind |-> k, xid |-> x, subs |-> subs])
    BY <1>2 DEF EndTransaction
  <2> DEFINE r == [kind |-> k, xid |-> x, subs |-> subs]
  <2>2. r \in EndRecord
    BY DEF EndRecord
  <2>3. ~IsChange(r) /\ \A y \in Settles(r) : ~Ended(y)
    BY <1>2 DEF IsChange, Settles, EndTransaction
  <2>4. UNCHANGED <<exists, slot, floor, lake, pc, start, pos, tables, dedupe,
                    persisted, buffers, round, crashes>>
    BY <1>2 DEF EndTransaction
  <2> HIDE DEF r
  <2>5. wal' = Append(wal, r)
    BY <2>1 DEF r
  <2> QED
    BY <2>2, <2>3, <2>4, <2>5, LogStep
<1> QED
  BY <1>1, <1>2, QuietActions DEF Source

-----------------------------------------------------------------------------
\* The process handles the record at pos.

\* What all kinds of records have in common.
LEMMA HandleCommon ==
    ASSUME IndInv, HandleRecord
    PROVE  /\ pc = "run" /\ Running /\ Running' /\ pos \in DOMAIN wal /\ pos' = pos + 1 /\ pos \in Lsn
           /\ Len(wal) \in Nat /\ DOMAIN wal = 1..Len(wal)
           /\ UNCHANGED <<wal, exists, slot, floor, delta, base, pc, start, tables, dedupe,
                          persisted, todo, restart, cont, crashes>>
           /\ TypeOK /\ WalInv /\ DedupeInv /\ OpenInv /\ PendingInv
           /\ \A t \in Tables : Mark(t)' = Mark(t)
           /\ \A t \in Tables : Ops(t)' = Ops(t) /\ Committed(t)' = Committed(t)
           /\ \A t \in Tables : \A l : Settled(t, l)' <=> Settled(t, l)
           /\ \A l, x : Ends(l, x)' <=> Ends(l, x)
           /\ \A l : Whole(l)' <=> Whole(l)
           /\ \A t \in tables : \A l \in Ops(t) : Whole(l) => Streamed(t, l)
<1> USE DEF source, lake, round
<1>1. /\ pc = "run" /\ pos \in DOMAIN wal /\ pos' = pos + 1
      /\ UNCHANGED <<wal, exists, slot, floor, delta, base, pc, start, tables, dedupe,
                     persisted, todo, restart, cont, crashes>>
  BY DEF HandleRecord
<1>2. /\ \A t \in Tables : Mark(t)' = Mark(t)
      /\ \A t \in Tables : Ops(t)' = Ops(t) /\ Committed(t)' = Committed(t)
      /\ \A t \in Tables : \A l : Settled(t, l)' <=> Settled(t, l)
      /\ \A l, x : Ends(l, x)' <=> Ends(l, x)
      /\ \A l : Whole(l)' <=> Whole(l)
  BY <1>1, LakeSame
<1>3. TypeOK /\ WalInv /\ DedupeInv /\ OpenInv /\ PendingInv
  BY DEF IndInv
<1>4. Running /\ Running' /\ Len(wal) \in Nat /\ DOMAIN wal = 1..Len(wal) /\ pos \in Lsn
  BY <1>1, <1>3, WalIsSeq DEF Running, TypeOK
<1>5. \A t \in tables : \A l \in Ops(t) : Whole(l) => Streamed(t, l)
  BY <1>1 DEF IndInv, NothingStranded
<1> QED
  BY <1>1, <1>2, <1>3, <1>4, <1>5

\* The conjuncts that depend on the kind of the record suffice.
LEMMA HandleReduce ==
    ASSUME IndInv, HandleRecord, TypeOK', OpenInv', PendingInv',
           lastCommit' = pos \/ UNCHANGED <<lastCommit, pending>>,
           \A t \in tables : \A l \in Ops(t) : Whole(l) => Streamed(t, l)'
    PROVE  IndInv'
<1> USE DEF source, lake, round
<1>1. /\ pc = "run" /\ Running /\ Running' /\ pos \in DOMAIN wal /\ pos' = pos + 1 /\ pos \in Lsn
      /\ Len(wal) \in Nat /\ DOMAIN wal = 1..Len(wal)
      /\ UNCHANGED <<wal, exists, slot, floor, delta, base, pc, start, tables, dedupe,
                     persisted, todo, restart, cont, crashes>>
      /\ \A t \in Tables : Mark(t)' = Mark(t)
      /\ \A t \in Tables : Ops(t)' = Ops(t)
      /\ \A l : Whole(l)' <=> Whole(l)
  BY HandleCommon
<1>2. WalInv' /\ MarkInv' /\ CutoverExact' /\ ExactlyOnce' /\ RestartSafe'
  BY <1>1, LakeSame DEF IndInv
<1>3. TableInv' /\ IdleInv' /\ ResumeInv' /\ FlushInv'
  BY <1>1 DEF IndInv, TableInv, IdleInv, ResumeInv, FlushInv, Running
<1>4. PosInv'
  <2>1. pos + 1 <= Len(wal) + 1 /\ pos < pos + 1 /\ pos \in Nat
    BY <1>1 DEF Lsn
  <2>2. lastCommit' \in Lsn /\ persisted' \in Lsn
    BY <1>1 DEF IndInv, PosInv
  <2>3. lastCommit \in Nat /\ (lastCommit < pos \/ pending = [t \in Tables |-> {}])
    BY <1>1 DEF IndInv, PosInv, TypeOK
  <2> QED
    BY <1>1, <2>1, <2>2, <2>3 DEF PosInv
<1>5. DedupeInv'
  <2>1. SUFFICES ASSUME NEW t \in tables
                 PROVE  dedupe[t] <= Mark(t) /\ (Mark(t) <= dedupe[t] \/ Mark(t) < pos + 1)
    BY <1>1 DEF DedupeInv, IndInv, TypeOK
  <2>2. Mark(t) \in Nat /\ pos \in Nat
    BY <1>1, MarkIsNat DEF IndInv, TypeOK, Lsn
  <2> QED
    BY <1>1, <2>2 DEF IndInv, DedupeInv
<1>6. NothingStranded'
  BY <1>1 DEF NothingStranded, IndInv, TypeOK
<1> QED
  BY <1>2, <1>3, <1>4, <1>5, <1>6 DEF IndInv

\* A change already passed stays accounted for unless its transaction ends at
\* pos, and the change at pos itself is the only one newly passed.
LEMMA StreamedOn ==
    ASSUME IndInv, HandleRecord, NEW t \in tables, NEW l \in Ops(t), Whole(l),
           pending[t] \subseteq pending'[t],
           l = pos => l \in open'[wal[l].xid],
           l \in open[wal[l].xid] =>
               l \in open'[wal[l].xid] \/ Settled(t, l) \/ \E q \in pending'[t] : q.src = l
    PROVE  Streamed(t, l)'
<1>1. /\ pos' = pos + 1 /\ pos \in Lsn /\ wal' = wal /\ t \in Tables
      /\ Settled(t, l)' <=> Settled(t, l)
      /\ Streamed(t, l)
  BY HandleCommon DEF TypeOK
<1>2. l \in Nat
  BY OpRecord DEF IndInv, Lsn
<1>3. l >= pos => l = pos \/ l >= pos'
  BY <1>1, <1>2 DEF Lsn
<1> QED
  BY <1>1, <1>3 DEF Streamed

\* Records that emit nothing: PendingInv only sees pos move on.
LEMMA PendingKept ==
    ASSUME IndInv, HandleRecord, UNCHANGED <<pending, maxCommit>>
    PROVE  PendingInv'
<1>1. /\ pos' = pos + 1 /\ pos \in Lsn /\ UNCHANGED <<wal, tables>>
      /\ TypeOK /\ PendingInv /\ Len(wal) \in Nat /\ DOMAIN wal = 1..Len(wal)
      /\ \A t \in Tables : Mark(t)' = Mark(t) /\ Committed(t)' = Committed(t)
  BY HandleCommon
<1>2. \A m \in DOMAIN wal : m < pos => m < pos'
  BY <1>1 DEF Lsn
<1> QED
  BY <1>1, <1>2 DEF PendingInv

\* A buffered change stays buffered rightly while its transaction does not end.
LEMMA BufferedOn ==
    ASSUME IndInv, HandleRecord, NEW x \in Xids, ~Ends(pos, x), NEW l \in open[x]
    PROVE  /\ l \in DOMAIN wal' /\ l < pos'
           /\ wal'[l].kind = "op" /\ wal'[l].xid = x /\ wal'[l].tab \in tables'
           /\ \A e \in DOMAIN wal' : Ends(e, x)' => pos' <= e
<1>1. /\ pos' = pos + 1 /\ pos \in Lsn /\ UNCHANGED <<wal, tables>>
      /\ OpenInv /\ Len(wal) \in Nat /\ DOMAIN wal = 1..Len(wal)
      /\ \A k, y : Ends(k, y)' <=> Ends(k, y)
  BY HandleCommon
<1>2. /\ l \in DOMAIN wal /\ l < pos
      /\ wal[l].kind = "op" /\ wal[l].xid = x /\ wal[l].tab \in tables
      /\ \A e \in DOMAIN wal : Ends(e, x) => pos <= e
  BY <1>1 DEF OpenInv
<1>3. l < pos'
  BY <1>1, <1>2 DEF Lsn
<1>4. \A e \in DOMAIN wal : Ends(e, x) => pos' <= e
  BY <1>1, <1>2 DEF Lsn
<1> QED
  BY <1>1, <1>2, <1>3, <1>4

LEMMA ChangeStep ==
    ASSUME IndInv, HandleRecord, HandleChange(wal[pos]) \/ HandleChunk(wal[pos])
    PROVE  IndInv'
<1> DEFINE r == wal[pos]
<1>1. /\ pos \in DOMAIN wal /\ pos' = pos + 1 /\ pos \in Lsn
      /\ UNCHANGED <<wal, exists, slot, floor, delta, base, pc, start, tables, dedupe,
                     persisted, todo, restart, cont, crashes>>
      /\ TypeOK /\ WalInv /\ Len(wal) \in Nat /\ DOMAIN wal = 1..Len(wal)
      /\ \A l, x : Ends(l, x)' <=> Ends(l, x)
  BY HandleCommon
<1>2. UNCHANGED <<pending, maxCommit, lastCommit>> /\ r.kind \in {"op", "chunk"}
  BY DEF HandleChange, HandleChunk
<1>3. IsChange(r) /\ ~IsEnd(r) /\ \A x : ~Ends(pos, x)
  BY <1>2 DEF IsChange, IsEnd, Ends
<1>4. r \in ChangeRecord \cup EndRecord
  BY <1>1 DEF TypeOK
<1>5. r.xid \in Xids
  BY <1>4 DEF ChangeRecord, EndRecord
<1>6. \/ open' = open
      \/ open' = [open EXCEPT ![r.xid] = @ \cup {pos}] /\ r.kind = "op" /\ r.tab \in tables
  BY DEF HandleChange, HandleChunk
<1>7. \A x \in Xids : \A l \in open'[x] :
        l \in open[x] \/ (l = pos /\ x = r.xid /\ r.kind = "op" /\ r.tab \in tables)
  BY <1>1, <1>5, <1>6, ZenonT(60) DEF TypeOK
<1>8. \A x \in Xids : open[x] \subseteq open'[x]
  BY <1>1, <1>5, <1>6 DEF TypeOK
<1>9. open' \in [Xids -> SUBSET Lsn] /\ toast' \subseteq Lsn
  <2>1. toast' \subseteq Lsn
    BY <1>1 DEF HandleChange, HandleChunk, TypeOK
  <2>2. open \in [Xids -> SUBSET Lsn]
    BY <1>1 DEF TypeOK
  <2>3. open' \in [Xids -> SUBSET Lsn]
    BY <1>1, <1>6, <2>2
  <2> QED
    BY <2>1, <2>3
<1>10. pos' \in Lsn
  BY <1>1 DEF Lsn
<1>11. TypeOK'
  BY <1>1, <1>2, <1>9, <1>10 DEF TypeOK
<1> HIDE DEF r
<1>12. OpenInv'
  <2>1. SUFFICES ASSUME NEW x \in Xids, NEW l \in open'[x]
                 PROVE  /\ l \in DOMAIN wal' /\ l < pos'
                        /\ wal'[l].kind = "op" /\ wal'[l].xid = x /\ wal'[l].tab \in tables'
                        /\ \A e \in DOMAIN wal' : Ends(e, x)' => pos' <= e
    BY DEF OpenInv
  <2>2. CASE l \in open[x]
    BY <1>3, <2>2, BufferedOn
  <2>3. CASE l = pos /\ x = r.xid /\ r.kind = "op" /\ r.tab \in tables
    <3>1. \A e \in DOMAIN wal : Ends(e, x) => ~(e < pos) /\ e # pos
      BY <1>1, <1>3, <2>3 DEF WalInv, r
    <3>2. \A e \in DOMAIN wal : Ends(e, x) => pos + 1 <= e
      BY <1>1, <3>1
    <3> QED
      BY <1>1, <2>3, <3>2 DEF Lsn, r
  <2> QED
    BY <1>7, <2>2, <2>3
<1>13. PendingInv'
  BY <1>2, PendingKept
<1>14. ASSUME NEW t \in tables, NEW l \in Ops(t), Whole(l) PROVE Streamed(t, l)'
  <2>1. wal[l].kind = "op" /\ wal[l].tab = t /\ wal[l].xid \in Xids
    BY <1>1, OpRecord
  <2>2. l = pos => l \in open'[wal[l].xid]
    <3>1. SUFFICES ASSUME l = pos PROVE pos \in open'[r.xid]
      BY DEF r
    <3>2. open' = [open EXCEPT ![r.xid] = @ \cup {pos}]
      BY <1>14, <2>1, <3>1 DEF HandleChange, HandleChunk, Whole, r
    <3> QED
      BY <1>1, <1>5, <3>2 DEF TypeOK
  <2> QED
    BY <1>2, <1>8, <1>14, <2>1, <2>2, StreamedOn
<1> QED
  BY <1>2, <1>11, <1>12, <1>13, <1>14, HandleReduce

\* The end of a transaction: its buffers are dropped, and the changes in them
\* are settled or emitted.
LEMMA EndStep ==
    ASSUME IndInv, HandleRecord, HandleCommit(wal[pos]) \/ HandleAbort(wal[pos])
    PROVE  IndInv'
<1> DEFINE r == wal[pos]
<1>1. /\ pos \in DOMAIN wal /\ pos' = pos + 1 /\ pos \in Lsn
      /\ UNCHANGED <<wal, exists, slot, floor, delta, base, pc, start, tables, dedupe,
                     persisted, todo, restart, cont, crashes>>
      /\ TypeOK /\ WalInv /\ DedupeInv /\ OpenInv /\ PendingInv /\ Running
      /\ Len(wal) \in Nat /\ DOMAIN wal = 1..Len(wal)
      /\ \A t \in Tables : Mark(t)' = Mark(t) /\ Committed(t)' = Committed(t)
  BY HandleCommon
<1>2. r.kind \in {"commit", "abort"} /\ DropBuffers(r)
  BY DEF HandleCommit, HandleAbort
<1>3. \A x : Ends(pos, x) <=> x \in Settles(r)
  BY <1>2 DEF Ends, IsEnd
<1>4. \A x \in Xids : open'[x] = IF x \in Settles(r) THEN {} ELSE open[x]
  BY <1>2 DEF DropBuffers
<1>5. open' \in [Xids -> SUBSET Lsn] /\ toast' \subseteq Lsn /\ pos' \in Lsn
  <2>1. toast' \subseteq toast /\ toast \subseteq Lsn /\ open \in [Xids -> SUBSET Lsn]
    BY <1>1, <1>2 DEF DropBuffers, TypeOK
  <2>2. \A x \in Xids : open'[x] \in SUBSET Lsn
    BY <1>4, <2>1
  <2>3. open' = [x \in Xids |-> open'[x]]
    BY <1>2 DEF DropBuffers
  <2>4. open' \in [Xids -> SUBSET Lsn]
    BY <2>2, <2>3
  <2>5. pos' \in Lsn
    BY <1>1 DEF Lsn
  <2> QED
    BY <2>1, <2>4, <2>5
<1> HIDE DEF r
<1>6. OpenInv'
  <2>1. SUFFICES ASSUME NEW x \in Xids, NEW l \in open'[x]
                 PROVE  /\ l \in DOMAIN wal' /\ l < pos'
                        /\ wal'[l].kind = "op" /\ wal'[l].xid = x /\ wal'[l].tab \in tables'
                        /\ \A e \in DOMAIN wal' : Ends(e, x)' => pos' <= e
    BY DEF OpenInv
  <2>2. ~Ends(pos, x) /\ l \in open[x]
    BY <1>3, <1>4, <2>1
  <2> QED
    BY <2>2, BufferedOn
<1>7. \A t \in tables : \A l \in Ops(t) : l # pos
  BY <1>1, <1>2, OpRecord DEF r
<1>8. CASE HandleAbort(r)
  <2>1. UNCHANGED <<pending, maxCommit, lastCommit>> /\ r.kind = "abort"
    BY <1>8 DEF HandleAbort
  <2>2. TypeOK'
    BY <1>1, <1>5, <2>1 DEF TypeOK
  <2>3. PendingInv'
    BY <2>1, PendingKept
  <2>4. ASSUME NEW t \in tables, NEW l \in Ops(t), Whole(l) PROVE Streamed(t, l)'
    <3>1. wal[l].xid \in Xids
      BY <1>1, OpRecord
    <3>2. wal[l].xid \in Settles(r) => Settled(t, l)
      BY <1>1, <1>3, <2>1 DEF Settled, r
    <3> QED
      BY <1>4, <1>7, <2>1, <2>4, <3>1, <3>2, StreamedOn
  <2> QED
    BY <1>6, <2>1, <2>2, <2>3, <2>4, HandleReduce
<1>9. CASE HandleCommit(r)
  <2>1. /\ pending' = [t \in Tables |-> pending[t] \cup Emitted(r, pos, t)]
        /\ maxCommit' = [t \in Tables |-> IF Emitted(r, pos, t) = {} THEN maxCommit[t] ELSE pos]
        /\ lastCommit' = pos /\ r.kind = "commit"
    BY <1>9 DEF HandleCommit
  <2>2. Settles(r) \subseteq Xids
    <3>1. r \in ChangeRecord \cup EndRecord
      BY <1>1 DEF TypeOK, r
    <3> QED
      BY <2>1, <3>1 DEF ChangeRecord, EndRecord, Settles
  <2>3. ASSUME NEW t \in Tables, NEW q \in Emitted(r, pos, t)
        PROVE  /\ q \in Committed(t) /\ q \in Row /\ q.at = pos /\ Mark(t) < pos
               /\ t \in tables
    <3>1. PICK x \in Settles(r) : \E l \in open[x] :
             q = [src |-> l, at |-> pos] /\ wal[l].tab = t /\ ~(pos <= dedupe[t])
      BY <2>3 DEF Emitted
    <3> PICK l \in open[x] :
             q = [src |-> l, at |-> pos] /\ wal[l].tab = t /\ ~(pos <= dedupe[t])
      BY <3>1
    <3>2. x \in Xids /\ l \in DOMAIN wal /\ wal[l].kind = "op" /\ wal[l].xid = x /\ wal[l].tab \in tables
      BY <1>1, <2>2, <3>1 DEF OpenInv
    <3>3. l \in Ops(t) /\ pos \in Commits /\ l \in Lsn
      BY <1>1, <2>1, <3>1, <3>2 DEF Ops, OpOn, Commits, Lsn, r
    <3>4. q \in Committed(t)
      BY <3>1, <3>2, <3>3 DEF Committed, r
    <3>5. q \in Row
      BY <1>1, <3>1, <3>3 DEF Row
    <3>6. t \in tables /\ Mark(t) \in Nat /\ dedupe[t] \in Nat
      BY <1>1, <3>1, <3>2, MarkIsNat DEF TypeOK
    <3>7. Mark(t) < pos
      BY <1>1, <3>1, <3>6 DEF DedupeInv, Lsn
    <3> QED
      BY <3>1, <3>4, <3>5, <3>6, <3>7
  <2>4. TypeOK'
    <3>1. pending' \in [Tables -> SUBSET Row]
      BY <1>1, <2>1, <2>3 DEF TypeOK
    <3>2. maxCommit' \in [Tables -> Nat]
      BY <1>1, <2>1 DEF TypeOK, Lsn
    <3> QED
      BY <1>1, <1>5, <2>1, <3>1, <3>2 DEF TypeOK, Lsn
  <2>5. PendingInv'
    <3>1. SUFFICES ASSUME NEW t \in Tables
                   PROVE  /\ \A q \in pending'[t] :
                                /\ q \in Committed(t)
                                /\ Mark(t) < q.at /\ q.at <= maxCommit'[t]
                          /\ pending'[t] # {} =>
                                /\ t \in tables
                                /\ maxCommit'[t] \in DOMAIN wal
                                /\ maxCommit'[t] < pos + 1
      BY <1>1 DEF PendingInv
    <3>2. /\ \A q \in pending[t] : q \in Committed(t) /\ Mark(t) < q.at /\ q.at <= maxCommit[t]
          /\ pending[t] # {} => t \in tables /\ maxCommit[t] \in DOMAIN wal /\ maxCommit[t] < pos
      BY <1>1 DEF PendingInv
    <3>3. \A q \in pending[t] : q.at \in Nat
      BY <1>1, <3>2, CommittedRow DEF Lsn
    <3>4. pos \in Nat /\ pos <= pos /\ pos < pos + 1 /\ \A m \in DOMAIN wal : m < pos => m <= pos /\ m < pos + 1
      BY <1>1 DEF Lsn
    <3>5. CASE Emitted(r, pos, t) = {}
      BY <1>1, <2>1, <3>2, <3>4, <3>5
    <3>6. CASE Emitted(r, pos, t) # {}
      <4>1. maxCommit'[t] = pos /\ pending'[t] = pending[t] \cup Emitted(r, pos, t) /\ t \in tables
        BY <2>1, <2>3, <3>6
      <4>2. \A q \in pending[t] : q.at <= pos
        BY <1>1, <3>2, <3>3, <3>4
      <4> QED
        BY <1>1, <2>3, <3>2, <3>4, <4>1, <4>2
    <3> QED
      BY <3>5, <3>6
  <2>6. ASSUME NEW t \in tables, NEW l \in Ops(t), Whole(l) PROVE Streamed(t, l)'
    <3>1. wal[l].xid \in Xids /\ wal[l].tab = t /\ t \in Tables
      BY <1>1, OpRecord DEF TypeOK
    <3>2. pending[t] \subseteq pending'[t]
      BY <2>1, <3>1
    <3>3. ASSUME l \in open[wal[l].xid], wal[l].xid \in Settles(r)
          PROVE  Settled(t, l) \/ \E q \in pending'[t] : q.src = l
      <4>1. CASE pos <= dedupe[t]
        <5>1. dedupe[t] <= Mark(t) /\ Mark(t) \in Nat /\ dedupe[t] \in Nat /\ pos \in Nat
          BY <1>1, <3>1, MarkIsNat DEF DedupeInv, TypeOK, Lsn
        <5>2. pos <= Mark(t)
          BY <4>1, <5>1
        <5> QED
          BY <1>1, <1>3, <3>3, <5>2 DEF Settled
      <4>2. CASE ~(pos <= dedupe[t])
        <5>1. [src |-> l, at |-> pos] \in Emitted(r, pos, t)
          BY <3>1, <3>3, <4>2 DEF Emitted
        <5> QED
          BY <2>1, <3>1, <5>1
      <4> QED
        BY <4>1, <4>2
    <3> QED
      BY <1>4, <1>7, <2>6, <3>1, <3>2, <3>3, StreamedOn
  <2> QED
    BY <1>6, <2>1, <2>4, <2>5, <2>6, HandleReduce
<1> QED
  BY <1>8, <1>9 DEF r

-----------------------------------------------------------------------------
\* The theorems.

LEMMA InitInv == Init => IndInv
<1> SUFFICES ASSUME Init PROVE IndInv
  OBVIOUS
<1> USE DEF Init
<1>1. wal = <<>> /\ Len(wal) = 0 /\ DOMAIN wal = {} /\ \A t \in Tables : delta[t] = <<>>
  OBVIOUS
<1>2. TypeOK
  BY ConstantsAssumption DEF TypeOK, Lsn
<1>3. \A t \in Tables : Mark(t) = 0 /\ Ops(t) = {} /\ Committed(t) = {} /\ Published(t) = {}
  BY <1>1 DEF Mark, Ops, Committed, Published
<1>4. WalInv /\ MarkInv /\ CutoverExact
  BY <1>1, <1>3 DEF WalInv, MarkInv, CutoverExact
<1>5. TableInv /\ IdleInv /\ ResumeInv /\ PosInv /\ DedupeInv
  BY <1>1 DEF TableInv, IdleInv, ResumeInv, PosInv, DedupeInv, Running
<1>6. OpenInv /\ PendingInv /\ FlushInv /\ NothingStranded
  BY DEF OpenInv, PendingInv, FlushInv, NothingStranded
<1>7. ExactlyOnce
  BY <1>1, <1>3 DEF ExactlyOnce, NoDuplicate, NoPhantom, NoLoss, Due, WholeRows
<1>8. RestartSafe
  BY <1>1 DEF RestartSafe
<1> QED
  BY <1>2, <1>4, <1>5, <1>6, <1>7, <1>8 DEF IndInv

LEMMA NextInv == IndInv /\ [Next]_vars => IndInv'
<1> SUFFICES ASSUME IndInv, [Next]_vars PROVE IndInv'
  OBVIOUS
<1>1. CASE Source
  BY <1>1, SourceSteps
<1>2. CASE Launch
  BY <1>2, LaunchStep
<1>3. CASE \E t \in Tables : ResumeTable(t)
  BY <1>3, ResumeStep
<1>4. CASE StartReplication
  BY <1>4, StartStep
<1>5. CASE StartRefused \/ Crash
  BY <1>5, MemoryLost
<1>6. CASE HandleRecord
  <2>1. HandleChange(wal[pos]) \/ HandleChunk(wal[pos]) \/ HandleCommit(wal[pos]) \/ HandleAbort(wal[pos])
    BY <1>6 DEF HandleRecord
  <2> QED
    BY <1>6, <2>1, ChangeStep, EndStep
<1>7. CASE Flush \/ RemapCheck
  BY <1>7, BeginFlushStep
<1>8. CASE \E t \in Tables : FlushTable(t)
  BY <1>8, FlushTableStep
<1>9. CASE \E t \in Tables : AttachTable(t)
  BY <1>9, AttachStep
<1>10. CASE RemapDone \/ SendStatus
  BY <1>10, QuietActions
<1>11. CASE UNCHANGED vars
  <2>1. UNCHANGED <<wal, exists, slot, floor, delta, base, pc, start, pos, tables, dedupe, persisted,
                    open, toast, pending, maxCommit, lastCommit, todo, restart, cont, crashes>>
    BY <1>11 DEF vars, source, lake, buffers, round
  <2>2. TypeOK'
    BY <2>1 DEF IndInv, TypeOK
  <2> QED
    BY <2>1, <2>2, QuietStep
<1> QED
  BY <1>1, <1>2, <1>3, <1>4, <1>5, <1>6, <1>7, <1>8, <1>9, <1>10, <1>11 DEF Next, Process

\* The invariant the others are read off holds in every reachable state.
THEOREM Inductive == Spec => []IndInv
  BY InitInv, NextInv, PTL DEF Spec

\* Every variable of the transcoder keeps its type.
THEOREM TypeCorrect == Spec => []TypeOK
<1>1. IndInv => TypeOK
  BY DEF IndInv
<1> QED
  BY <1>1, Inductive, PTL

\* Exactly-once across crashes, replays and flush rounds cut short: whatever
\* flush_all, handle_commit and resume_tables do, the Delta tables hold every
\* committed change below their watermark once and nothing else.
THEOREM ExactlyOnceHolds == Spec => []ExactlyOnce
<1>1. IndInv => ExactlyOnce
  BY DEF IndInv
<1> QED
  BY <1>1, Inductive, PTL

\* The restart LSN flush_all stamps never leaves behind a change its table
\* still needs.
THEOREM RestartSafeHolds == Spec => []RestartSafe
<1>1. IndInv => RestartSafe
  BY DEF IndInv
<1> QED
  BY <1>1, Inductive, PTL

\* The snapshot of resume_tables and attach_table meets the stream with no gap
\* and no overlap.
THEOREM CutoverExactHolds == Spec => []CutoverExact
<1>1. IndInv => CutoverExact
  BY DEF IndInv
<1> QED
  BY <1>1, Inductive, PTL

\* Everything the running process has passed and a table still needs is in
\* TxBuffer or in a pending batch.
THEOREM NothingStrandedHolds == Spec => []NothingStranded
<1>1. IndInv => NothingStranded
  BY DEF IndInv
<1> QED
  BY <1>1, Inductive, PTL

-----------------------------------------------------------------------------
\* The contract: the three kinds of steps that matter to the lake.

\* A table takes its image.
Imaged(t) ==
    /\ wal' = wal
    /\ delta[t] = <<>>
    /\ Lockable(t)
    /\ base' = [base EXCEPT ![t] = Cutover]
    /\ AppendDelta(t, {}, Cutover, Cutover) \/ delta' = delta

\* A record is logged.
Logged(r) ==
    /\ wal' = Append(wal, r)
    /\ IsChange(r) => ~Ended(r.xid)
    /\ IsEnd(r) => \A x \in Settles(r) : ~Ended(x)
    /\ UNCHANGED lake

\* Every step is one of them, the flush of one table, or invisible.
LEMMA StepKinds ==
    ASSUME IndInv, [Next]_vars
    PROVE  \/ UNCHANGED <<wal, lake>>
           \/ \E r \in ChangeRecord \cup EndRecord : Logged(r)
           \/ \E t \in Tables : Imaged(t)
           \/ \E t \in Tables : FlushTable(t)
<1> USE DEF source, lake
<1>1. ASSUME NEW x \in Xids, NEW t \in Tables, WriteChange(x, t)
      PROVE  \E r \in ChangeRecord \cup EndRecord : Logged(r)
  <2>1. PICK r \in [kind : {"op"}, xid : {x}, tab : {t}, chunk : ChunksFor(x, t)]
                   \cup [kind : {"chunk"}, xid : {x}, tab : {t} \cap ToastTables, chunk : {0}] :
           wal' = Append(wal, r)
    BY <1>1 DEF WriteChange
  <2>2. ChunksFor(x, t) \subseteq Nat
    BY WalIsSeq DEF ChunksFor, IndInv
  <2>3. r \in ChangeRecord /\ ~IsEnd(r) /\ r.xid = x
    BY <2>1, <2>2 DEF ChangeRecord, IsEnd
  <2>4. ~Ended(x) /\ UNCHANGED lake
    BY <1>1 DEF WriteChange
  <2>5. Logged(r)
    BY <2>1, <2>3, <2>4 DEF Logged
  <2> QED
    BY <2>3, <2>5
<1>2. ASSUME NEW x \in Xids, NEW subs \in SUBSET (Xids \ {x}), EndTransaction(x, subs)
      PROVE  \E r \in ChangeRecord \cup EndRecord : Logged(r)
  <2>1. PICK k \in {"commit", "abort"} : wal' = Append(wal, [kind |-> k, xid |-> x, subs |-> subs])
    BY <1>2 DEF EndTransaction
  <2> DEFINE r == [kind |-> k, xid |-> x, subs |-> subs]
  <2>2. r \in EndRecord
    BY DEF EndRecord
  <2>3. ~IsChange(r) /\ \A y \in Settles(r) : ~Ended(y)
    BY <1>2 DEF IsChange, Settles, EndTransaction
  <2>4. UNCHANGED lake
    BY <1>2 DEF EndTransaction
  <2>5. Logged(r)
    BY <2>1, <2>3, <2>4 DEF Logged
  <2> QED
    BY <2>2, <2>5
<1>3. ASSUME NEW t \in Tables, ResumeTable(t)
      PROVE  UNCHANGED <<wal, lake>> \/ Imaged(t)
  BY <1>3 DEF ResumeTable, ResumeFromMarks, ResumeFromSnapshot, Imaged
<1>4. ASSUME NEW t \in Tables, AttachTable(t)
      PROVE  Imaged(t)
  BY <1>4 DEF AttachTable, Imaged, IndInv, TableInv, Running
<1>5. ASSUME \/ \E t \in Tables : CreateTable(t)
             \/ RecycleWal \/ Launch \/ StartReplication \/ StartRefused \/ Crash
             \/ HandleRecord \/ Flush \/ RemapCheck \/ RemapDone \/ SendStatus
             \/ UNCHANGED vars
      PROVE  UNCHANGED <<wal, lake>>
  BY <1>5 DEF CreateTable, RecycleWal, Launch, StartReplication, StartRefused, Crash,
              HandleRecord, Flush, RemapCheck, RemapDone, SendStatus, vars
<1> QED
  BY <1>1, <1>2, <1>3, <1>4, <1>5, Zenon DEF Next, Source, Process

\* The commit watermark a flush stamps is above the one before it.
LEMMA FlushAdvances ==
    ASSUME IndInv, NEW t \in Tables, FlushTable(t)
    PROVE  /\ Running /\ t \in tables /\ UNCHANGED <<wal, base>>
           /\ maxCommit[t] \in Lsn /\ maxCommit[t] < pos /\ pos \in Nat
           /\ restart \in Lsn /\ pending[t] \in SUBSET Row
           /\ AppendDelta(t, pending[t], maxCommit[t], restart)
           /\ \A r \in pending[t] : r \in Committed(t) /\ Mark(t) < r.at /\ r.at <= maxCommit[t]
           /\ Mark(t) \in Nat /\ Mark(t) < maxCommit[t]
           /\ Mark(t)' = maxCommit[t]
           /\ \A u \in Tables \ {t} : delta'[u] = delta[u] /\ Mark(u)' = Mark(u)
<1> USE DEF source
<1>1. /\ pc = "flush" /\ t \in todo /\ AppendDelta(t, pending[t], maxCommit[t], restart)
      /\ UNCHANGED <<wal, base>>
  BY DEF FlushTable
<1>2. /\ Len(wal) \in Nat /\ DOMAIN wal = 1..Len(wal) /\ Running /\ pos \in Nat
      /\ Mark(t) \in Nat /\ TypeOK
  BY <1>1, WalIsSeq, MarkIsNat DEF IndInv, Running, TypeOK, Lsn
<1>3. /\ pending[t] # {} /\ t \in tables /\ maxCommit[t] \in 1..Len(wal) /\ maxCommit[t] < pos
      /\ restart \in 1..Len(wal)
  BY <1>1, <1>2 DEF IndInv, FlushInv, PendingInv
<1>4. \A r \in pending[t] : r \in Committed(t) /\ Mark(t) < r.at /\ r.at <= maxCommit[t] /\ r.at \in Nat
  BY <1>2, CommittedRow DEF IndInv, PendingInv, Lsn
<1>5. Mark(t) < maxCommit[t]
  BY <1>2, <1>3, <1>4
<1>6. maxCommit[t] \in Lsn /\ restart \in Lsn /\ pending[t] \in SUBSET Row
  BY <1>2, <1>3 DEF Lsn, TypeOK
<1>7. /\ \A u \in Tables \ {t} : delta'[u] = delta[u]
      /\ delta'[t] # <<>>
      /\ Len(delta'[t]) = Len(delta[t]) + 1
      /\ delta'[t][Len(delta[t]) + 1] = [rows |-> pending[t], commit |-> maxCommit[t], restart |-> restart]
  BY <1>1, <1>2, <1>6, DeltaGrows
<1>8. Mark(t)' = maxCommit[t]
  BY <1>7 DEF Mark, Last
<1>9. \A u \in Tables \ {t} : Mark(u)' = Mark(u)
  BY <1>1, <1>7 DEF Mark, Last
<1> QED
  BY <1>1, <1>2, <1>3, <1>4, <1>5, <1>6, <1>7, <1>8, <1>9
-----------------------------------------------------------------------------
\* Delta tables only grow.

LEMMA PrefixKept ==
    ASSUME NEW S, NEW s \in Seq(S), NEW e \in S
    PROVE  SubSeq(Append(s, e), 1, Len(s)) = s /\ SubSeq(s, 1, Len(s)) = s
  OBVIOUS

LEMMA DeltaPrefix ==
    ASSUME TypeOK, NEW t \in Tables, NEW rows \in SUBSET Row, NEW c \in Lsn, NEW s \in Lsn,
           AppendDelta(t, rows, c, s)
    PROVE  \A u \in Tables : SubSeq(delta'[u], 1, Len(delta[u])) = delta[u]
<1> DEFINE e == [rows |-> rows, commit |-> c, restart |-> s]
<1>1. e \in DeltaCommit
  BY DEF DeltaCommit
<1>2. \A u \in Tables : delta[u] \in Seq(DeltaCommit)
  BY DEF TypeOK
<1>3. \A u \in Tables : delta'[u] = delta[u] \/ delta'[u] = Append(delta[u], e)
  BY DEF TypeOK, AppendDelta
<1> HIDE DEF e
<1> QED
  BY <1>1, <1>2, <1>3, PrefixKept

LEMMA LakeStep ==
    ASSUME IndInv, IndInv', [Next]_vars
    PROVE  \A t \in Tables : /\ Mark(t) <= Mark(t)'
                             /\ SubSeq(delta'[t], 1, Len(delta[t])) = delta[t]
<1>1. \A u \in Tables : Mark(u) \in Nat /\ delta[u] \in Seq(DeltaCommit)
  BY MarkIsNat DEF IndInv, TypeOK
<1>2. \A u \in Tables : SubSeq(delta[u], 1, Len(delta[u])) = delta[u]
  BY <1>1
<1>3. CASE UNCHANGED lake
  <2>1. \A u \in Tables : Mark(u)' = Mark(u)
    BY <1>3 DEF lake, Mark, Last
  <2> QED
    BY <1>1, <1>2, <1>3, <2>1 DEF lake
<1>4. ASSUME NEW t \in Tables, Imaged(t)
      PROVE  \A u \in Tables : Mark(u) <= Mark(u)' /\ SubSeq(delta'[u], 1, Len(delta[u])) = delta[u]
  <2>1. /\ Mark(t)' = Len(wal) + 1
        /\ \A u \in Tables \ {t} : Mark(u)' = Mark(u)
    BY <1>4, ImageTaken DEF Imaged, IndInv
  <2>2. Mark(t) <= Len(wal) + 1
    BY <1>4, WalIsSeq DEF Imaged, Mark, IndInv, MarkInv
  <2>3. \A u \in Tables : SubSeq(delta'[u], 1, Len(delta[u])) = delta[u]
    <3>1. Cutover \in Lsn /\ {} \in SUBSET Row
      BY WalIsSeq DEF IndInv, Cutover, Lsn
    <3>2. CASE AppendDelta(t, {}, Cutover, Cutover)
      BY <3>1, <3>2, DeltaPrefix DEF IndInv
    <3> QED
      BY <1>2, <1>4, <3>2 DEF Imaged
  <2> QED
    BY <1>1, <2>1, <2>2, <2>3
<1>5. ASSUME NEW t \in Tables, FlushTable(t)
      PROVE  \A u \in Tables : Mark(u) <= Mark(u)' /\ SubSeq(delta'[u], 1, Len(delta[u])) = delta[u]
  <2>1. /\ maxCommit[t] \in Lsn /\ restart \in Lsn /\ pending[t] \in SUBSET Row
        /\ AppendDelta(t, pending[t], maxCommit[t], restart)
        /\ Mark(t) < maxCommit[t] /\ Mark(t)' = maxCommit[t]
        /\ \A u \in Tables \ {t} : Mark(u)' = Mark(u)
    BY <1>5, FlushAdvances
  <2>2. \A u \in Tables : SubSeq(delta'[u], 1, Len(delta[u])) = delta[u]
    BY <2>1, DeltaPrefix DEF IndInv
  <2> QED
    BY <1>1, <2>1, <2>2 DEF Lsn
<1> QED
  BY <1>3, <1>4, <1>5, StepKinds DEF Logged

\* Watermarks never move back and no Delta commit is ever rewritten, by any
\* step of the source, of resume_tables, attach_table or flush_all, or by a
\* crash.
THEOREM WatermarkAdvancesHolds == Spec => WatermarkAdvances
<1>1. IndInv /\ IndInv' /\ [Next]_vars =>
        [\A t \in Tables : /\ Mark(t) <= Mark(t)'
                           /\ SubSeq(delta[t]', 1, Len(delta[t])) = delta[t]]_lake
  BY LakeStep
<1> QED
  BY <1>1, Inductive, PTL DEF Spec, WatermarkAdvances

-----------------------------------------------------------------------------
\* The refinement.

LEMMA CommitRefines ==
    ASSUME IndInv, IndInv', NEW r \in ChangeRecord \cup EndRecord, Logged(r)
    PROVE  Contract!Commit
<1> DEFINE n == Len(wal) + 1
<1> USE DEF lake
<1>1. /\ Len(wal) \in Nat /\ n \in Nat
      /\ DOMAIN wal = 1..Len(wal) /\ DOMAIN wal' = 1..n
      /\ \A l : l \in DOMAIN wal' <=> l \in DOMAIN wal \/ l = n
      /\ \A l \in DOMAIN wal : wal'[l] = wal[l] /\ l < n
      /\ wal'[n] = r
      /\ \A t \in Tables : Mark(t)' = Mark(t)
      /\ UNCHANGED <<delta, base>>
  BY WalGrows DEF IndInv, Logged
<1> HIDE DEF n
<1>2. \A t : \A l \in Ops(t) : l \in Ops(t)' /\ wal'[l] = wal[l]
  BY <1>1 DEF Ops, OpOn
<1>4. /\ \A t : Committed(t) \subseteq Committed(t)'
      /\ \A t : \A q \in Committed(t)' : q \in Committed(t) \/ q.at = n
  BY CommittedGrows DEF IndInv, Logged, n
<1>6. ASSUME NEW t \in Tables, NEW q \in Committed(t)', q.at = n
      PROVE  Mark(t) < n
  <2>1. q \in [src : Ops(t)', at : Commits'] /\ wal'[q.src].xid \in Settles(wal'[q.at])
    BY <1>6 DEF Committed
  <2>2. r.kind = "commit" /\ wal'[q.src].xid \in Settles(r)
    BY <1>1, <1>6, <2>1 DEF Commits
  <2>3. q.src \in Ops(t) /\ wal'[q.src] = wal[q.src]
    BY <1>1, <2>1, <2>2 DEF Ops, OpOn
  <2>4. ~Ended(wal[q.src].xid)
    BY <2>2, <2>3 DEF Logged, IsEnd
  <2>5. ~(q.src < base[t])
    BY <2>3, <2>4 DEF IndInv, CutoverExact, Ended
  <2>6. q.src \in Nat /\ q.src < n /\ base[t] \in Nat /\ Mark(t) \in Nat
    <3>1. q.src \in DOMAIN wal
      BY <2>3 DEF Ops
    <3>2. base[t] \in Nat /\ Mark(t) \in Nat
      BY MarkIsNat DEF IndInv, TypeOK
    <3> QED
      BY <1>1, <3>1, <3>2
  <2>7. Mark(t) <= Len(wal) \/ Mark(t) = base[t]
    BY DEF IndInv, MarkInv
  <2> QED
    BY <1>1, <2>5, <2>6, <2>7 DEF n
<1>7. \A t \in Tables : \A q \in Committed(t) : Whole(q.src)' <=> Whole(q.src)
  BY <1>2 DEF Whole, Committed
<1>8. \A t \in Tables : WholeRows(Committed(t)) \subseteq WholeRows(Committed(t))'
  BY <1>4, <1>7 DEF WholeRows
<1>9. \A t \in Tables : \A q \in WholeRows(Committed(t))' \ WholeRows(Committed(t)) :
         q.at = n /\ Mark(t) < n
  BY <1>4, <1>6, <1>7 DEF WholeRows
<1>10. \A t \in Tables : WholeRows(Published(t))' = WholeRows(Published(t))
  <2>1. \A t \in Tables : Published(t)' = Published(t)
    BY <1>1 DEF Published
  <2>2. \A t \in Tables : Published(t) \subseteq Committed(t)
    BY DEF IndInv, ExactlyOnce, NoPhantom, Due
  <2> QED
    BY <1>7, <2>1, <2>2 DEF WholeRows
<1> QED
  BY <1>1, <1>8, <1>9, <1>10 DEF Contract!Commit

LEMMA ImageRefines ==
    ASSUME IndInv, IndInv', NEW t \in Tables, Imaged(t)
    PROVE  Contract!Image(t)
<1>1. /\ Mark(t)' = Len(wal) + 1
      /\ \A u \in Tables \ {t} : delta'[u] = delta[u] /\ Mark(u)' = Mark(u)
  BY ImageTaken DEF Imaged, IndInv
<1>2. wal' = wal /\ delta[t] = <<>> /\ base' = [base EXCEPT ![t] = Len(wal) + 1]
  BY DEF Imaged, Cutover
<1>3. /\ \A u : Committed(u)' = Committed(u)
      /\ \A l : Whole(l)' <=> Whole(l)
  BY <1>2, WalSame
<1>4. Published(t) = {}
  BY <1>2 DEF Published
<1>5. Published(t)' = {}
  <2>1. CASE delta' = delta
    BY <1>2, <2>1 DEF Published
  <2>2. CASE AppendDelta(t, {}, Cutover, Cutover)
    <3>1. delta'[t] = Append(<<>>, [rows |-> {}, commit |-> Cutover, restart |-> Cutover])
      BY <1>2, <2>2 DEF AppendDelta, IndInv, TypeOK
    <3>2. \A i \in DOMAIN delta'[t] : delta'[t][i].rows = {}
      BY <3>1
    <3> QED
      BY <3>2 DEF Published
  <2> QED
    BY <2>1, <2>2 DEF Imaged
<1>6. \A u \in Tables : WholeRows(Published(u))' = WholeRows(Published(u))
  BY <1>1, <1>3, <1>4, <1>5 DEF WholeRows, Published
<1>7. \A u \in Tables : WholeRows(Committed(u))' = WholeRows(Committed(u))
  BY <1>3 DEF WholeRows
<1>8. Mark(t) <= Len(wal) + 1
  BY <1>2 DEF Mark, IndInv, MarkInv
<1>9. [u \in Tables |-> Mark(u)]' = [[u \in Tables |-> Mark(u)] EXCEPT ![t] = Len(wal) + 1]
  BY <1>1
<1>10. WholeRows(Published(t)) = {}
  BY <1>4 DEF WholeRows
<1> QED
  BY <1>1, <1>2, <1>6, <1>7, <1>8, <1>9, <1>10 DEF Contract!Image

LEMMA PublishRefines ==
    ASSUME IndInv, IndInv', NEW t \in Tables, FlushTable(t)
    PROVE  Contract!Publish(t)
<1> DEFINE c == maxCommit[t]
<1>1. /\ Running /\ t \in tables /\ UNCHANGED <<wal, base>>
      /\ c \in Lsn /\ c < pos /\ pos \in Nat /\ restart \in Lsn /\ pending[t] \in SUBSET Row
      /\ AppendDelta(t, pending[t], c, restart)
      /\ \A r \in pending[t] : r \in Committed(t) /\ Mark(t) < r.at /\ r.at <= c
      /\ Mark(t) \in Nat /\ Mark(t) < c
      /\ Mark(t)' = c
      /\ \A u \in Tables \ {t} : delta'[u] = delta[u] /\ Mark(u)' = Mark(u)
  BY FlushAdvances
<1> HIDE DEF c
<1>2. /\ \A u : Committed(u)' = Committed(u)
      /\ \A l : Whole(l)' <=> Whole(l)
  BY <1>1, WalSame
<1>3. Published(t)' = Published(t) \cup pending[t]
  <2>1. /\ Len(delta[t]) \in Nat
        /\ \A i \in DOMAIN delta[t] : delta'[t][i] = delta[t][i]
        /\ DOMAIN delta[t] = 1..Len(delta[t])
        /\ DOMAIN delta'[t] = 1..(Len(delta[t]) + 1)
        /\ delta'[t][Len(delta[t]) + 1] = [rows |-> pending[t], commit |-> c, restart |-> restart]
    BY <1>1, DeltaGrows, SMTT(30) DEF IndInv
  <2>2. \A i : i \in DOMAIN delta'[t] <=> i \in DOMAIN delta[t] \/ i = Len(delta[t]) + 1
    BY <2>1
  <2>3. delta'[t][Len(delta[t]) + 1].rows = pending[t]
    BY <2>1
  <2>4. \A r : r \in Published(t)' <=> \E i \in DOMAIN delta'[t] : r \in delta'[t][i].rows
    BY DEF Published
  <2>5. \A r : r \in Published(t) <=> \E i \in DOMAIN delta[t] : r \in delta[t][i].rows
    BY DEF Published
  <2> QED
    BY <2>1, <2>2, <2>3, <2>4, <2>5, Zenon
<1>4. WholeRows(pending[t]) = {r \in WholeRows(Committed(t)) : Mark(t) < r.at /\ r.at <= c}
  <2>1. ASSUME NEW r \in Committed(t), Whole(r.src), Mark(t) < r.at, r.at <= c
        PROVE  r \in pending[t]
    <3>1. r.at < pos
      BY <1>1, <2>1, CommittedRow DEF IndInv, Lsn
    <3> QED
      BY <1>1, <2>1, <3>1, BatchComplete
  <2> QED
    BY <1>1, <2>1 DEF WholeRows
<1>5. WholeRows(Published(t))' = WholeRows(Published(t)) \cup WholeRows(pending[t])
  BY <1>2, <1>3 DEF WholeRows
<1>6. \A u \in Tables \ {t} : WholeRows(Published(u))' = WholeRows(Published(u))
  BY <1>1, <1>2 DEF WholeRows, Published
<1>7. \A u \in Tables : WholeRows(Committed(u))' = WholeRows(Committed(u))
  BY <1>2 DEF WholeRows
<1>8. [u \in Tables |-> Mark(u)]' = [[u \in Tables |-> Mark(u)] EXCEPT ![t] = c]
  BY <1>1
<1>9. [u \in Tables |-> WholeRows(Published(u))]' =
        [[u \in Tables |-> WholeRows(Published(u))] EXCEPT
            ![t] = @ \cup {r \in WholeRows(Committed(t)) : Mark(t) < r.at /\ r.at <= c}]
  BY <1>4, <1>5, <1>6
<1> QED
  BY <1>1, <1>7, <1>8, <1>9 DEF Contract!Publish, Contract!Between

LEMMA InvisibleRefines ==
    ASSUME UNCHANGED <<wal, lake>>
    PROVE  UNCHANGED Contract!vars
<1>1. UNCHANGED <<wal, delta, base>>
  BY DEF lake
<1>2. /\ \A t \in Tables : Mark(t)' = Mark(t) /\ Committed(t)' = Committed(t)
      /\ \A l : Whole(l)' <=> Whole(l)
  BY <1>1, LakeSame
<1>3. \A t \in Tables : Published(t)' = Published(t)
  BY <1>1 DEF Published
<1> QED
  BY <1>1, <1>2, <1>3 DEF Contract!vars, WholeRows

\* The transcoder keeps the promise of the lake: every step of the source and
\* of the process, crashes and replays included, is a step of LakeContract
\* under the refinement mapping or changes nothing a reader can see.
THEOREM ContractHolds == Spec => ImplementsContract
<1>1. Init => Contract!Init
  <2>1. SUFFICES ASSUME Init PROVE Contract!Init
    OBVIOUS
  <2>2. \A t \in Tables : Mark(t) = 0 /\ WholeRows(Committed(t)) = {} /\ WholeRows(Published(t)) = {}
    BY <2>1 DEF Init, Mark, WholeRows, Committed, Ops, Published
  <2> QED
    BY <2>1, <2>2 DEF Contract!Init, Init
<1>2. IndInv /\ IndInv' /\ [Next]_vars => [Contract!Next]_(Contract!vars)
  BY StepKinds, CommitRefines, ImageRefines, PublishRefines, InvisibleRefines DEF Contract!Next
<1> QED
  BY <1>1, <1>2, Inductive, PTL DEF Spec, ImplementsContract, Contract!Spec

-----------------------------------------------------------------------------
\* The slot.

\* A later LSN lies on the same page or on a later one, and so does one that
\* is not below the start of the page.
LEMMA PageMonotone ==
    ASSUME NEW l \in Lsn, NEW m \in Lsn, PageStart(l) <= m
    PROVE  PageStart(l) <= PageStart(m) /\ PageStart(l) \in Lsn /\ PageStart(m) \in Lsn
  BY PageStartIs DEF Lsn

LEMMA PageBelow ==
    ASSUME NEW l \in Lsn
    PROVE  PageStart(l) \in Lsn /\ PageStart(l) <= l
  BY PageStartIs DEF Lsn

LEMMA HeldAbove ==
    ASSUME TypeOK, NEW l \in Lsn, NEW m \in Lsn, Held(l), PageStart(l) <= m
    PROVE  Held(m)
<1>1. PageStart(l) <= PageStart(m) /\ PageStart(l) \in Nat /\ PageStart(m) \in Nat
  BY PageMonotone DEF Lsn
<1>2. PageStart(slot) \in Nat /\ floor \in Nat
  BY PageBelow DEF TypeOK, Lsn
<1> QED
  BY <1>1, <1>2 DEF Held

LEMMA ResumableIsLsn ==
    ASSUME IndInv, NEW t \in Tables
    PROVE  Resumable(t) \in Lsn /\ Resumable(t) <= Len(wal) + 1
<1>1. TypeOK /\ MarkInv /\ Len(wal) \in Nat
  BY WalIsSeq DEF IndInv
<1>2. CASE delta[t] = <<>>
  BY <1>1, <1>2 DEF Resumable, Lsn
<1>3. CASE delta[t] # <<>>
  <2>1. Last(t).restart \in Lsn
    BY <1>1, <1>3, LastIsCommit DEF DeltaCommit
  <2> QED
    BY <1>1, <1>3, <2>1 DEF Resumable, MarkInv
<1> QED
  BY <1>2, <1>3

-----------------------------------------------------------------------------
\* Steps of the source.

\* A page stays held while slot and floor stay.
LEMMA HeldOn ==
    ASSUME UNCHANGED <<slot, floor>>
    PROVE  \A l : Held(l)' <=> Held(l)
  BY DEF Held

\* What a table would be resumed from when neither log nor lake change.
LEMMA ResumableOn ==
    ASSUME UNCHANGED <<wal, delta>>
    PROVE  \A t : Resumable(t)' = Resumable(t)
  BY DEF Resumable, Last

\* What the process itself keeps while it does nothing.
LEMMA ProcessIdle ==
    ASSUME UNCHANGED <<pc, pos, tables, persisted, open, pending, lastCommit, todo, restart>>
    PROVE  /\ Running' = Running /\ Buffered' = Buffered /\ RestartLsn' = RestartLsn
           /\ \A t : SlotFlush(t) => SlotFlush(t)'
  BY DEF Running, Buffered, RestartLsn, SlotFlush

\* The source writes a record: only a table without watermark would now be
\* resumed elsewhere, and later.
LEMMA SlotWal ==
    ASSUME IndInv, IndInv', SlotInv, NEW t \in Tables, Len(wal') = Len(wal) + 1,
           UNCHANGED <<slot, floor, delta, pc, pos, tables, persisted, open, pending,
                       lastCommit, todo, restart>>
    PROVE  Held(Resumable(t))' /\ SlotResume(t)' /\ SlotRun(t)' /\ SlotFlush(t)'
<1>1. /\ Held(Resumable(t)) /\ SlotResume(t) /\ SlotRun(t) /\ SlotFlush(t) /\ TypeOK
      /\ Len(wal) \in Nat
  BY WalIsSeq DEF SlotInv, IndInv
<1>2. Resumable(t) \in Lsn
  BY ResumableIsLsn
<1>3. Resumable(t)' \in Lsn /\ Resumable(t) <= Resumable(t)'
  BY <1>1, <1>2 DEF Resumable, Last, Lsn
<1>4. PageStart(Resumable(t)) \in Nat /\ PageStart(Resumable(t)) <= Resumable(t)'
  BY <1>2, <1>3, PageBelow DEF Lsn
<1>5. PageStart(Resumable(t)) <= PageStart(Resumable(t)') /\ PageStart(Resumable(t)') \in Nat
  BY <1>2, <1>3, <1>4, PageMonotone DEF Lsn
<1>6. Held(Resumable(t))'
  BY <1>1, <1>2, <1>3, <1>4, HeldAbove DEF Held
<1>7. ASSUME NEW l \in Lsn, HeldBelow(l, t)
      PROVE  floor <= PageStart(l) /\ PageStart(slot) <= PageStart(l) /\ PageStart(l) <= PageStart(Resumable(t)')
  BY <1>5, <1>7, <1>2, PageBelow DEF HeldBelow, Held, Lsn
<1>8. SlotResume(t)'
  BY <1>1, <1>7 DEF SlotResume, HeldBelow, Held, IndInv, ResumeInv, Lsn
<1>9. SlotRun(t)'
  BY <1>1, <1>7, ProcessIdle DEF SlotRun, HeldBelow, Held, IndInv, PosInv
<1> QED
  BY <1>1, <1>6, <1>8, <1>9, ProcessIdle

\* Whatever is held survives a step that moves only floor and slot, if it
\* moves them to pages that are not above.
LEMMA SlotMoves ==
    ASSUME SlotInv, NEW t \in Tables,
           UNCHANGED <<wal, delta, pc, pos, tables, persisted, open, pending,
                       lastCommit, todo, restart>>,
           \A l : Held(l) /\ (Running => PageStart(persisted) <= PageStart(l)) => Held(l)',
           Running => PageStart(persisted) \in Nat
    PROVE  Held(Resumable(t))' /\ SlotResume(t)' /\ SlotRun(t)' /\ SlotFlush(t)'
<1>1. Held(Resumable(t)) /\ SlotResume(t) /\ SlotRun(t) /\ SlotFlush(t)
  BY DEF SlotInv
<1>2. Resumable(t)' = Resumable(t)
  BY ResumableOn
<1>3. Held(Resumable(t))'
  <2>1. \A l : (l = Resumable(t) /\ Held(l)') => Held(Resumable(t))'
    BY <1>2 DEF Held
  <2> QED
    BY <1>1, <2>1 DEF SlotRun, HeldBelow
<1>4. SlotResume(t)'
  <2>1. SUFFICES ASSUME pc = "resume", tables # {}
                 PROVE  HeldBelow(restart, t)'
    BY DEF SlotResume
  <2>2. HeldBelow(restart, t) /\ ~Running
    BY <1>1, <2>1 DEF SlotResume, Running
  <2>3. \A l : (l = restart /\ Held(l)') => Held(restart)'
    BY DEF Held
  <2> QED
    BY <1>2, <2>2, <2>3 DEF HeldBelow
<1>5. SlotRun(t)'
  <2>1. SUFFICES ASSUME Running
                 PROVE  HeldBelow(persisted, t)'
    BY <1>1, ProcessIdle DEF SlotRun
  <2>2. HeldBelow(persisted, t) /\ PageStart(persisted) <= PageStart(persisted)
    BY <1>1, <2>1 DEF SlotRun
  <2>3. \A l : (l = persisted /\ Held(l)') => Held(persisted)'
    BY DEF Held
  <2> QED
    BY <1>2, <2>2, <2>3 DEF HeldBelow
<1> QED
  BY <1>1, <1>3, <1>4, <1>5, ProcessIdle

LEMMA SlotSource ==
    ASSUME IndInv, IndInv', SlotInv, Source, NEW t \in Tables
    PROVE  Held(Resumable(t))' /\ SlotResume(t)' /\ SlotRun(t)' /\ SlotFlush(t)'
<1> USE DEF lake, buffers, round
<1>1. Running => PageStart(persisted) \in Nat
  BY PageBelow DEF IndInv, PosInv, Lsn
<1>2. ASSUME NEW x \in Xids, NEW u \in Tables, WriteChange(x, u)
      PROVE  Len(wal') = Len(wal) + 1
  BY <1>2 DEF WriteChange, IndInv, TypeOK
<1>3. ASSUME NEW x \in Xids, NEW subs \in SUBSET (Xids \ {x}), EndTransaction(x, subs)
      PROVE  Len(wal') = Len(wal) + 1
  BY <1>3 DEF EndTransaction, IndInv, TypeOK
<1>4. CASE \/ \E x \in Xids, u \in Tables : WriteChange(x, u)
           \/ \E x \in Xids : \E subs \in SUBSET (Xids \ {x}) : EndTransaction(x, subs)
  BY <1>2, <1>3, <1>4, SlotWal DEF WriteChange, EndTransaction
<1>5. CASE \E u \in Tables : CreateTable(u)
  BY <1>1, <1>5, HeldOn, SlotMoves DEF CreateTable
<1>6. CASE RecycleWal
  BY <1>1, <1>6, SlotMoves DEF RecycleWal, Held
<1> QED
  BY <1>4, <1>5, <1>6 DEF Source

-----------------------------------------------------------------------------
\* Steps of the process.

\* A status update moves the slot to the page of persisted, which every table
\* would be resumed at or above.
LEMMA SlotStatus ==
    ASSUME IndInv, SlotInv, SendStatus, NEW t \in Tables
    PROVE  Held(Resumable(t))' /\ SlotResume(t)' /\ SlotRun(t)' /\ SlotFlush(t)'
<1> USE DEF lake, buffers, round
<1>1. /\ Running /\ slot' = persisted /\ floor' = floor
      /\ UNCHANGED <<wal, delta, pc, pos, tables, persisted, open, pending, lastCommit, todo, restart>>
  BY DEF SendStatus, Running
<1>2. PageStart(persisted) \in Nat /\ floor \in Nat
  BY <1>1, PageBelow DEF IndInv, PosInv, TypeOK, Lsn
<1>3. ASSUME NEW l, Held(l), PageStart(persisted) <= PageStart(l)
      PROVE  Held(l)'
  BY <1>1, <1>3 DEF Held
<1> QED
  BY <1>1, <1>2, <1>3, SlotMoves

\* A process dies, is launched, or ends a catalog check.
LEMMA SlotQuiet ==
    ASSUME IndInv, SlotInv, Crash \/ StartRefused \/ Launch \/ RemapDone, NEW t \in Tables
    PROVE  Held(Resumable(t))' /\ SlotResume(t)' /\ SlotRun(t)' /\ SlotFlush(t)'
<1> USE DEF source, lake, buffers, round
<1>1. UNCHANGED <<wal, slot, floor, delta>>
  BY DEF Crash, StartRefused, Launch, RemapDone
<1>2. Held(Resumable(t))'
  BY <1>1, ResumableOn DEF SlotInv, Held
<1>3. CASE Crash \/ StartRefused \/ Launch
  <2>1. ~Running' /\ pc' # "flush" /\ (pc' = "down" \/ tables' = {})
    BY <1>3 DEF Crash, StartRefused, LoseMemory, Launch, Running, IndInv, IdleInv
  <2> QED
    BY <1>2, <2>1 DEF SlotResume, SlotRun, SlotFlush
<1>4. CASE RemapDone
  <2>1. /\ Running /\ pc' = "run"
        /\ UNCHANGED <<pos, tables, persisted, open, pending, lastCommit>>
    BY <1>4 DEF RemapDone, Running
  <2>2. SlotRun(t)'
    BY <1>1, <2>1, ResumableOn DEF SlotInv, SlotRun, HeldBelow, Held, Buffered
  <2> QED
    BY <1>2, <2>1, <2>2 DEF SlotResume, SlotFlush
<1> QED
  BY <1>3, <1>4

\* The only table is resumed: from where it would be, and the round of startup
\* has no other candidate.
LEMMA SlotResumed ==
    ASSUME IndInv, SlotInv, NEW t \in Tables, Tables = {t}, ResumeTable(t)
    PROVE  Held(Resumable(t))' /\ SlotResume(t)' /\ SlotRun(t)' /\ SlotFlush(t)'
<1> USE DEF source, lake, buffers
<1>1. /\ pc = "resume" /\ pc' = pc /\ UNCHANGED <<wal, slot, floor>> /\ tables = {}
  BY DEF ResumeTable, IndInv, IdleInv, TypeOK
<1>2. Len(wal) \in Nat /\ TypeOK
  BY WalIsSeq DEF IndInv
<1>3. Resumable(t)' = Resumable(t) /\ AddCandidate(Resumable(t))
  <2>1. CASE ResumeFromMarks(t)
    BY <1>1, <2>1 DEF ResumeFromMarks, Resumable, Last
  <2>2. CASE ResumeFromSnapshot(t) /\ UNCHANGED delta
    BY <1>1, <2>2 DEF ResumeFromSnapshot, Resumable, Cutover
  <2>3. CASE ResumeFromSnapshot(t) /\ AppendDelta(t, {}, Cutover, Cutover)
    <3>1. Cutover \in Lsn /\ {} \in SUBSET Row /\ delta[t] = <<>>
      BY <1>2, <2>3 DEF Cutover, Lsn, ResumeFromSnapshot
    <3>2. /\ delta'[t] # <<>> /\ Len(delta'[t]) = Len(delta[t]) + 1
          /\ delta'[t][Len(delta[t]) + 1] = [rows |-> {}, commit |-> Cutover, restart |-> Cutover]
      BY <1>2, <2>3, <3>1, DeltaGrows, ZenonT(60)
    <3> QED
      BY <1>1, <2>3, <3>1, <3>2 DEF ResumeFromSnapshot, Resumable, Last, Cutover
  <2> QED
    BY <2>1, <2>2, <2>3 DEF ResumeTable, ResumeFromSnapshot
<1>4. restart' = Resumable(t)
  BY <1>1, <1>3 DEF AddCandidate
<1>5. Held(Resumable(t)) /\ PageStart(Resumable(t)) \in Nat
  BY ResumableIsLsn, PageBelow DEF SlotInv, Lsn
<1>6. Held(Resumable(t))'
  BY <1>1, <1>3, <1>5 DEF Held
<1>7. HeldBelow(restart, t)'
  BY <1>1, <1>3, <1>4, <1>5 DEF HeldBelow, Held
<1> QED
  BY <1>1, <1>6, <1>7 DEF SlotResume, SlotRun, SlotFlush, Running

\* The stream starts on the page of the LSN the round of startup found.
LEMMA SlotStarted ==
    ASSUME IndInv, SlotInv, NEW t \in Tables, StartReplication
    PROVE  Held(Resumable(t))' /\ SlotResume(t)' /\ SlotRun(t)' /\ SlotFlush(t)'
<1> USE DEF source, lake
<1>1. /\ pc = "resume" /\ tables # {} /\ pc' = "run" /\ persisted' = restart
      /\ pos' = PageStart(restart)
      /\ UNCHANGED <<wal, slot, floor, delta, tables, open, pending>>
  BY DEF StartReplication
<1>2. restart \in Lsn /\ open = [x \in Xids |-> {}] /\ pending = [u \in Tables |-> {}]
  BY <1>1, WalIsSeq DEF IndInv, ResumeInv, IdleInv, Running, Lsn
<1>3. HeldBelow(restart, t) /\ Held(Resumable(t)) /\ PageStart(restart) \in Nat
  BY <1>1, <1>2, PageBelow DEF SlotInv, SlotResume, Lsn
<1>4. Held(Resumable(t))' /\ HeldBelow(persisted, t)'
  BY <1>1, <1>3, ResumableOn DEF Held, HeldBelow
<1>5. Buffered' = {} /\ pending'[t] = {}
  BY <1>1, <1>2 DEF Buffered
<1>6. SlotRun(t)'
  BY <1>1, <1>3, <1>4, <1>5 DEF SlotRun
<1> QED
  BY <1>1, <1>4, <1>6 DEF SlotResume, SlotFlush

\* A record is handled: what is newly buffered or committed is at pos.
LEMMA SlotHandled ==
    ASSUME IndInv, SlotInv, NEW t \in Tables, HandleRecord
    PROVE  Held(Resumable(t))' /\ SlotResume(t)' /\ SlotRun(t)' /\ SlotFlush(t)'
<1>1. /\ pc = "run" /\ Running /\ Running' /\ pos' = pos + 1 /\ pos \in Lsn /\ TypeOK
      /\ UNCHANGED <<wal, slot, floor, delta, pc, tables, persisted>>
  BY HandleCommon
<1>2. SlotRun(t) /\ PageStart(persisted) \in Nat
  BY <1>1, PageBelow DEF SlotInv, IndInv, PosInv, Lsn
<1>3. Held(Resumable(t))' /\ HeldBelow(persisted, t)'
  BY <1>1, <1>2, ResumableOn DEF SlotInv, SlotRun, Held, HeldBelow
<1>4. HandleChange(wal[pos]) \/ HandleChunk(wal[pos]) \/ HandleCommit(wal[pos]) \/ HandleAbort(wal[pos])
  BY DEF HandleRecord
<1>5. \A x \in Xids : open'[x] \subseteq open[x] \cup {pos}
  <2>1. CASE HandleChange(wal[pos]) \/ HandleChunk(wal[pos])
    BY <1>1, <2>1 DEF HandleChange, HandleChunk, TypeOK
  <2>2. CASE HandleCommit(wal[pos]) \/ HandleAbort(wal[pos])
    BY <1>1, <2>2 DEF HandleCommit, HandleAbort, DropBuffers
  <2> QED
    BY <1>4, <2>1, <2>2
<1>6. \A l \in Buffered' : PageStart(persisted) <= l
  <2>1. \A l \in Buffered' : l \in Buffered \cup {pos}
    BY <1>5 DEF Buffered
  <2> QED
    BY <1>1, <1>2, <2>1 DEF SlotRun
<1>7. lastCommit' = pos \/ UNCHANGED <<lastCommit, pending>>
  BY <1>4 DEF HandleChange, HandleChunk, HandleCommit, HandleAbort
<1>8. PageStart(persisted) <= pos + 1
  BY <1>1, <1>2 DEF SlotRun, Lsn
<1>9. SlotRun(t)'
  BY <1>1, <1>2, <1>3, <1>6, <1>7, <1>8 DEF SlotRun
<1> QED
  BY <1>1, <1>3, <1>9 DEF SlotResume, SlotFlush

\* A flush round begins; for the only table, nothing is left to attach.
LEMMA SlotBegun ==
    ASSUME IndInv, SlotInv, NEW t \in Tables, Tables = {t}, Flush \/ RemapCheck
    PROVE  Held(Resumable(t))' /\ SlotResume(t)' /\ SlotRun(t)' /\ SlotFlush(t)'
<1> USE DEF source, lake, buffers
<1>1. /\ pc = "run" /\ Running
      /\ UNCHANGED <<wal, exists, slot, floor, delta, pos, tables, persisted, open, pending, lastCommit>>
  BY DEF Flush, RemapCheck, Running
<1>2. tables = {t} /\ exists \subseteq {t}
  BY <1>1 DEF SlotInv, SlotRun, IndInv, TypeOK
<1>3. Flush
  BY <1>2 DEF RemapCheck
<1>4. pc' = "flush" /\ todo' = {t} /\ restart' = RestartLsn /\ Running'
  BY <1>2, <1>3 DEF Flush, BeginFlush, WithPending, Running
<1>5. Held(Resumable(t))' /\ SlotRun(t)'
  BY <1>1, <1>4, ResumableOn DEF SlotInv, SlotRun, Held, HeldBelow, Buffered
<1>6. RestartLsn' = RestartLsn
  BY <1>1 DEF RestartLsn, Buffered
<1> QED
  BY <1>4, <1>5, <1>6 DEF SlotResume, SlotFlush

\* The restart LSN of a round does not leave the page of the one before.
LEMMA RestartHeld ==
    ASSUME IndInv, SlotInv, NEW t \in Tables, Running, pending[t] # {}, t \in tables
    PROVE  RestartLsn \in Lsn /\ Held(RestartLsn)
<1>1. SlotRun(t) /\ TypeOK /\ persisted \in Lsn
  BY DEF SlotInv, IndInv, PosInv
<1>2. RestartLsn \in Lsn
  <2>1. RestartLsn \in 1..Len(wal)
    BY RestartBound DEF WithPending
  <2> QED
    BY <2>1, WalIsSeq DEF IndInv, Lsn
<1>3. PageStart(persisted) <= RestartLsn
  <2>1. CASE Buffered = {}
    BY <1>1, <2>1 DEF RestartLsn, SlotRun
  <2>2. CASE Buffered # {}
    <3>1. Buffered \subseteq Nat
      BY <1>1 DEF Buffered, TypeOK, Lsn
    <3> QED
      BY <1>1, <2>2, <3>1, MinIsLeast DEF RestartLsn, SlotRun
  <2> QED
    BY <2>1, <2>2
<1> QED
  BY <1>1, <1>2, <1>3, HeldAbove DEF SlotRun, HeldBelow

\* The round ends with its only table: stamped with the LSN of the round,
\* which is what the slot may now be told.
LEMMA SlotFlushed ==
    ASSUME IndInv, SlotInv, NEW t \in Tables, Tables = {t}, FlushTable(t)
    PROVE  Held(Resumable(t))' /\ SlotResume(t)' /\ SlotRun(t)' /\ SlotFlush(t)'
<1> USE DEF source
<1>1. /\ pc = "flush" /\ Running /\ todo = {t} /\ restart = RestartLsn /\ t \in todo
  BY DEF FlushTable, SlotInv, SlotFlush, Running
<1>2. /\ pc' = cont /\ persisted' = restart
      /\ pending' = [pending EXCEPT ![t] = {}]
      /\ AppendDelta(t, pending[t], maxCommit[t], restart)
      /\ UNCHANGED <<wal, slot, floor, pos, tables, open, lastCommit>>
  BY <1>1 DEF FlushTable
<1>3. pending[t] # {} /\ TypeOK /\ SlotRun(t)
  BY <1>1 DEF IndInv, FlushInv, SlotInv
<1>4. t \in tables /\ maxCommit[t] \in Lsn
  <2>1. maxCommit[t] \in DOMAIN wal
    BY <1>3 DEF IndInv, PendingInv
  <2> QED
    BY <1>3, <2>1, WalIsSeq DEF IndInv, PendingInv, Lsn
<1>5. RestartLsn \in Lsn /\ Held(RestartLsn)
  BY <1>1, <1>3, <1>4, RestartHeld
<1>6. RestartLsn < pos /\ \A l \in Buffered : RestartLsn <= l
  <2>1. RestartLsn < pos /\ \A x \in Xids : \A l \in open[x] : RestartLsn <= l
    BY <1>1, <1>3, <1>4, RestartBound DEF WithPending
  <2> QED
    BY <2>1 DEF Buffered
<1>7. PageStart(restart) \in Nat /\ PageStart(restart) <= pos /\ \A l \in Buffered : PageStart(restart) <= l
  <2>1. PageStart(restart) \in Nat /\ PageStart(restart) <= restart /\ restart \in Nat
    BY <1>1, <1>5, PageBelow DEF Lsn
  <2>2. pos \in Nat /\ Buffered \subseteq Nat
    BY <1>3 DEF Buffered, TypeOK, Lsn
  <2> QED
    BY <1>1, <1>6, <2>1, <2>2
<1>8. Resumable(t)' = restart
  <2>1. pending[t] \in SUBSET Row
    BY <1>3 DEF TypeOK
  <2>2. /\ delta'[t] # <<>> /\ Len(delta'[t]) = Len(delta[t]) + 1
        /\ delta'[t][Len(delta[t]) + 1] = [rows |-> pending[t], commit |-> maxCommit[t], restart |-> restart]
    BY <1>1, <1>2, <1>3, <1>4, <1>5, <2>1, DeltaGrows
  <2> QED
    BY <2>2 DEF Resumable, Last
<1>9. Held(Resumable(t))' /\ HeldBelow(persisted, t)'
  BY <1>1, <1>2, <1>5, <1>7, <1>8 DEF Held, HeldBelow
<1>10. Buffered' = Buffered /\ pending'[t] = {} /\ tables' # {} /\ pc' \in {"run", "attach"}
  BY <1>2, <1>3, <1>4 DEF Buffered, TypeOK
<1>11. SlotRun(t)'
  BY <1>2, <1>7, <1>9, <1>10 DEF SlotRun
<1> QED
  BY <1>9, <1>10, <1>11 DEF SlotResume, SlotFlush

-----------------------------------------------------------------------------
LEMMA SlotInit ==
    ASSUME Init
    PROVE  SlotInv
<1>1. \A t \in Tables : Resumable(t) = 1
  BY DEF Init, Resumable
<1>2. PageStart(1) = 1
  BY PageStartIs DEF Lsn
<1>3. pc = "down" /\ floor = 1 /\ slot = 1
  BY DEF Init
<1> QED
  BY <1>1, <1>2, <1>3 DEF SlotInv, Held, SlotResume, SlotRun, SlotFlush, Running

LEMMA SlotNext ==
    ASSUME IndInv, IndInv', SlotInv, [Next]_vars, NEW t \in Tables, Tables = {t}
    PROVE  Held(Resumable(t))' /\ SlotResume(t)' /\ SlotRun(t)' /\ SlotFlush(t)'
<1>1. CASE Source
  BY <1>1, SlotSource
<1>2. CASE SendStatus
  BY <1>2, SlotStatus
<1>3. CASE Crash \/ StartRefused \/ Launch \/ RemapDone
  BY <1>3, SlotQuiet
<1>4. CASE \E u \in Tables : ResumeTable(u)
  BY <1>4, SlotResumed
<1>5. CASE StartReplication
  BY <1>5, SlotStarted
<1>6. CASE HandleRecord
  BY <1>6, SlotHandled
<1>7. CASE Flush \/ RemapCheck
  BY <1>7, SlotBegun
<1>8. CASE \E u \in Tables : FlushTable(u)
  BY <1>8, SlotFlushed
<1>9. CASE \E u \in Tables : AttachTable(u)
  BY <1>9 DEF AttachTable, SlotInv, SlotRun, Running, IndInv, TypeOK
<1>10. CASE UNCHANGED vars
  <2>1. /\ UNCHANGED <<slot, floor>>
        /\ UNCHANGED <<wal, delta, pc, pos, tables, persisted, open, pending, lastCommit, todo, restart>>
    BY <1>10 DEF vars, source, lake, buffers, round
  <2>2. Running => PageStart(persisted) \in Nat
    BY PageBelow DEF IndInv, PosInv, Lsn
  <2> QED
    BY <2>1, <2>2, HeldOn, SlotMoves
<1> QED
  BY <1>1, <1>2, <1>3, <1>4, <1>5, <1>6, <1>7, <1>8, <1>9, <1>10 DEF Next, Process

\* With one table the promise at send_status holds: the slot keeps the WAL the
\* table would be resumed from, whatever crashes and replays come between two
\* flush rounds.  With two it does not (the run slot_idle).
THEOREM SlotRetainsHolds ==
    ASSUME NEW t, Tables = {t}
    PROVE  Spec => []SlotRetains
<1>1. Init => SlotInv
  BY SlotInit
<1>2. IndInv /\ IndInv' /\ SlotInv /\ [Next]_vars => SlotInv'
  BY SlotNext DEF SlotInv
<1>3. IndInv /\ SlotInv => SlotRetains
  <2>1. SUFFICES ASSUME IndInv, SlotInv, NEW u \in Tables, delta[u] # <<>>
                 PROVE  floor <= Last(u).restart
    BY DEF SlotRetains
  <2>2. Resumable(u) = Last(u).restart /\ Resumable(u) \in Lsn /\ Held(Resumable(u))
    BY <2>1, ResumableIsLsn DEF Resumable, SlotInv
  <2>3. PageStart(Resumable(u)) \in Nat /\ PageStart(Resumable(u)) <= Resumable(u) /\ floor \in Nat
    BY <2>1, <2>2, PageBelow DEF Lsn, IndInv, TypeOK
  <2> QED
    BY <2>2, <2>3 DEF Held, Lsn
<1> QED
  BY <1>1, <1>2, <1>3, Inductive, PTL DEF Spec
=============================================================================
