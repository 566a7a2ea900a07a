--------------------------- MODULE FreshReadProofs ---------------------------
(***************************************************************************)
(* Proofs about module FreshRead, for any log, cap, retention and clock.   *)
(***************************************************************************)
EXTENDS FreshRead, FunctionTheorems, FiniteSetTheorems, TLAPS

-----------------------------------------------------------------------------
\* What Vec::retain keeps, and in which order.

\* Ranks count the indices kept: they grow with the index.
LEMMA RankIs ==
    ASSUME NEW n \in Nat, NEW K \in SUBSET (1..n)
    PROVE  /\ IsFiniteSet(K) /\ Cardinality(K) \in Nat
           /\ \A k \in K : Rank(K, k) \in 1..Cardinality(K)
           /\ \A k, m \in K : k < m => Rank(K, k) < Rank(K, m)
           /\ K \subseteq Int
<1> DEFINE Below(k) == {j \in K : j <= k}
<1>1. IsFiniteSet(K) /\ Cardinality(K) \in Nat /\ K \subseteq Int
  <2>1. IsFiniteSet(1..n) /\ 1..n \subseteq Int
    BY FS_Interval
  <2>2. IsFiniteSet(K)
    BY <2>1, FS_Subset
  <2> QED
    BY <2>1, <2>2, FS_CardinalityType
<1>2. \A k : /\ Below(k) \in SUBSET K /\ IsFiniteSet(Below(k)) /\ Rank(K, k) = Cardinality(Below(k))
             /\ Rank(K, k) \in Nat /\ Rank(K, k) <= Cardinality(K)
  BY <1>1, FS_Subset, FS_CardinalityType DEF Rank
<1>3. \A k \in K : k \in Below(k)
  OBVIOUS
<1>4. ASSUME NEW k \in K PROVE Rank(K, k) # 0
  BY <1>2, <1>3, FS_EmptySet
<1>5. ASSUME NEW k \in K, NEW m \in K, k < m
      PROVE  Rank(K, k) < Rank(K, m)
  <2>1. k \in Int /\ m \in Int /\ \A j \in K : j \in Int
    BY <1>1
  <2>2. Below(k) \in SUBSET Below(m)
    <3>1. \A j \in K : j <= k => j <= m
      BY <1>5, <2>1
    <3> QED
      BY <3>1
  <2>3. m \in Below(m) /\ m \notin Below(k)
    BY <1>5, <2>1
  <2> HIDE DEF Below
  <2>4. Cardinality(Below(k)) <= Cardinality(Below(m)) /\ Cardinality(Below(m)) # Cardinality(Below(k))
    BY <1>2, <2>2, <2>3, FS_Subset
  <2> QED
    BY <1>2, <2>4
<1>6. ASSUME NEW k \in K PROVE Rank(K, k) \in 1..Cardinality(K)
  <2>1. Rank(K, k) \in Nat /\ Rank(K, k) <= Cardinality(K) /\ Rank(K, k) # 0
    BY <1>2, <1>4, Zenon
  <2> QED
    BY <1>1, <2>1
<1> QED
  BY <1>1, <1>5, <1>6

\* Nth enumerates the indices kept, in their order.
LEMMA NthIs ==
    ASSUME NEW n \in Nat, NEW K \in SUBSET (1..n)
    PROVE  /\ Cardinality(K) \in Nat
           /\ \A i \in 1..Cardinality(K) : Nth(K, i) \in K
           /\ \A i, j \in 1..Cardinality(K) : i < j => Nth(K, i) < Nth(K, j)
           /\ \A k \in K : \E i \in 1..Cardinality(K) : Nth(K, i) = k
<1> DEFINE c == Cardinality(K)
           f == [k \in K |-> Rank(K, k)]
<1>1. /\ IsFiniteSet(K) /\ c \in Nat /\ K \subseteq Int
      /\ \A k \in K : Rank(K, k) \in 1..c
      /\ \A k, m \in K : k < m => Rank(K, k) < Rank(K, m)
  BY RankIs
<1> HIDE DEF c
<1>2. \A k, m \in K : Rank(K, k) = Rank(K, m) => k = m
  <2>1. SUFFICES ASSUME NEW k \in K, NEW m \in K, k # m
                 PROVE  Rank(K, k) # Rank(K, m)
    OBVIOUS
  <2>2. k < m \/ m < k
    BY <1>1, <2>1
  <2>3. Rank(K, k) \in Int /\ Rank(K, m) \in Int
    BY <1>1
  <2> QED
    BY <1>1, <2>2, <2>3
<1>3. IsFiniteSet(1..c) /\ Cardinality(1..c) = c
  BY <1>1, FS_Interval
<1>4. f \in Injection(K, 1..c)
  BY <1>1, <1>2, Fun_IsInj
<1>5. f \in Surjection(K, 1..c)
  BY <1>3, <1>4, FS_Injection DEF c
<1>6. \A i \in 1..c : \E k \in K : Rank(K, k) = i
  <2> HIDE DEF f
  <2>1. \A i \in 1..c : \E k \in K : f[k] = i
    BY <1>5, Fun_SurjectionProperties
  <2>2. \A k \in K : f[k] = Rank(K, k)
    BY DEF f
  <2> QED
    BY <2>1, <2>2
<1>7. \A i \in 1..c : Nth(K, i) \in K /\ Rank(K, Nth(K, i)) = i
  BY <1>6 DEF Nth
<1>8. ASSUME NEW i \in 1..c, NEW j \in 1..c, i < j
      PROVE  Nth(K, i) < Nth(K, j)
  <2>1. Nth(K, i) \in K /\ Nth(K, j) \in K /\ Rank(K, Nth(K, i)) = i /\ Rank(K, Nth(K, j)) = j
    BY <1>7
  <2>2. ~(Nth(K, j) < Nth(K, i)) /\ Nth(K, i) # Nth(K, j)
    <3>1. ~(j < i) /\ i # j
      BY <1>1, <1>8
    <3> QED
      BY <1>1, <2>1, <3>1
  <2>3. Nth(K, i) \in Int /\ Nth(K, j) \in Int
    BY <1>1, <2>1
  <2> QED
    BY <2>2, <2>3
<1>9. \A k \in K : Nth(K, Rank(K, k)) = k
  BY <1>1, <1>2, <1>7
<1> QED
  BY <1>1, <1>7, <1>8, <1>9 DEF c

LEMMA RetainedIs ==
    ASSUME NEW S, NEW bs \in Seq(S), NEW K \in SUBSET DOMAIN bs
    PROVE  /\ Retained(bs, K) \in Seq(S)
           /\ Len(Retained(bs, K)) \in Nat /\ DOMAIN Retained(bs, K) = 1..Len(Retained(bs, K))
           /\ \A i \in DOMAIN Retained(bs, K) : Nth(K, i) \in K /\ Retained(bs, K)[i] = bs[Nth(K, i)]
           /\ \A i, j \in DOMAIN Retained(bs, K) : i < j => Nth(K, i) < Nth(K, j)
           /\ \A k \in K : \E i \in DOMAIN Retained(bs, K) : Nth(K, i) = k
<1>1. Len(bs) \in Nat /\ DOMAIN bs = 1..Len(bs) /\ K \in SUBSET (1..Len(bs))
  OBVIOUS
<1>2. /\ Cardinality(K) \in Nat
      /\ \A i \in 1..Cardinality(K) : Nth(K, i) \in K
      /\ \A i, j \in 1..Cardinality(K) : i < j => Nth(K, i) < Nth(K, j)
      /\ \A k \in K : \E i \in 1..Cardinality(K) : Nth(K, i) = k
  BY <1>1, NthIs
<1>3. /\ DOMAIN Retained(bs, K) = 1..Cardinality(K)
      /\ \A i \in 1..Cardinality(K) : Retained(bs, K)[i] = bs[Nth(K, i)] /\ bs[Nth(K, i)] \in S
  BY <1>1, <1>2 DEF Retained
<1>4. Retained(bs, K) \in Seq(S) /\ Len(Retained(bs, K)) = Cardinality(K)
  BY <1>2, <1>3 DEF Retained
<1> QED
  BY <1>2, <1>3, <1>4

-----------------------------------------------------------------------------
\* What each operation on the tail keeps.

LEMMA Bounds == {MaxLsn, MaxChunk, MaxTime, Retain, Cap, MaxCrashes} \subseteq Nat
  BY FreshReadAssumption

LEMMA BatchFields ==
    ASSUME NEW b \in TailBatch
    PROVE  b.lsn \in Lsns /\ b.schema \in 0..MaxLsn /\ b.at \in Never..MaxTime
  BY DEF TailBatch

LEMMA EntryIsBatch ==
    ASSUME NEW bs \in Seq(TailBatch), NEW i \in DOMAIN bs
    PROVE  bs[i] \in TailBatch
  OBVIOUS

\* Dropping batches leaves the tail oldest first.
LEMMA RetainedSorted ==
    ASSUME NEW bs \in Seq(TailBatch), Sorted(bs), NEW K \in SUBSET DOMAIN bs
    PROVE  Sorted(Retained(bs, K))
<1>1. /\ \A i \in DOMAIN Retained(bs, K) : Nth(K, i) \in K /\ Retained(bs, K)[i] = bs[Nth(K, i)]
      /\ \A i, j \in DOMAIN Retained(bs, K) : i < j => Nth(K, i) < Nth(K, j)
  BY RetainedIs
<1> QED
  BY <1>1 DEF Sorted

\* mark_flushed starts the clock of every batch and drops none that is within
\* its retention.
LEMMA MarkFlushedIs ==
    ASSUME NEW bs \in Seq(TailBatch), Sorted(bs), now \in 0..MaxTime
    PROVE  /\ mark_flushed(bs) \in Seq(TailBatch) /\ Sorted(mark_flushed(bs))
           /\ \A i \in DOMAIN mark_flushed(bs) : \E k \in DOMAIN bs : mark_flushed(bs)[i] = Clocked(bs[k])
           /\ \A k \in DOMAIN bs : now - Clocked(bs[k]).at < Retain =>
                 \E i \in DOMAIN mark_flushed(bs) : mark_flushed(bs)[i] = Clocked(bs[k])
<1> DEFINE ms == [i \in DOMAIN bs |-> Clocked(bs[i])]
           K == {i \in DOMAIN bs : now - Clocked(bs[i]).at < Retain}
<1>1. \A k \in DOMAIN bs : Clocked(bs[k]) \in TailBatch /\ Clocked(bs[k]).lsn = bs[k].lsn
  <2>1. ASSUME NEW b \in TailBatch
        PROVE  Clocked(b) \in TailBatch /\ Clocked(b).lsn = b.lsn
    <3>1. now \in Never..MaxTime
      BY Bounds DEF Never
    <3>2. ASSUME NEW a \in Never..MaxTime
          PROVE  [b EXCEPT !.at = a] \in TailBatch /\ [b EXCEPT !.at = a].lsn = b.lsn
      BY DEF TailBatch
    <3>3. Clocked(b) = [b EXCEPT !.at = IF b.at = Never THEN now ELSE b.at]
      BY DEF Clocked, TailBatch
    <3> QED
      BY <3>1, <3>2, <3>3, BatchFields
  <2> QED
    BY <2>1
<1>2. ms \in Seq(TailBatch) /\ DOMAIN ms = DOMAIN bs /\ \A k \in DOMAIN bs : ms[k] = Clocked(bs[k])
  BY <1>1
<1>3. Sorted(ms)
  BY <1>1, <1>2 DEF Sorted
<1>4. mark_flushed(bs) = Retained(ms, K) /\ K \in SUBSET DOMAIN bs
  BY DEF mark_flushed
<1>5. \A k \in DOMAIN bs : now - Clocked(bs[k]).at < Retain => k \in K
  OBVIOUS
<1> HIDE DEF ms, K
<1> DEFINE rs == Retained(ms, K)
<1>6. rs \in Seq(TailBatch) /\ Sorted(rs)
  BY <1>2, <1>3, <1>4, RetainedIs, RetainedSorted
<1>7. /\ \A i \in DOMAIN rs : Nth(K, i) \in K /\ rs[i] = ms[Nth(K, i)]
      /\ \A k \in K : \E i \in DOMAIN rs : Nth(K, i) = k
  BY <1>2, <1>4, RetainedIs
<1> HIDE DEF rs
<1>8. \A i \in DOMAIN rs : \E k \in DOMAIN bs : rs[i] = Clocked(bs[k])
  BY <1>2, <1>4, <1>7
<1>9. \A k \in K : \E i \in DOMAIN rs : rs[i] = Clocked(bs[k])
  BY <1>2, <1>4, <1>7
<1>10. mark_flushed(bs) = rs
  BY <1>4 DEF rs
<1> QED
  BY <1>5, <1>6, <1>8, <1>9, <1>10

\* enforce_cap never evicts a batch that is not clocked, and what follows one
\* afterwards followed it before.
LEMMA EnforceCapIs ==
    ASSUME NEW bs \in Seq(TailBatch), Sorted(bs)
    PROVE  /\ enforce_cap(bs) \in Seq(TailBatch) /\ Sorted(enforce_cap(bs))
           /\ \A i \in DOMAIN enforce_cap(bs) : \E k \in DOMAIN bs : enforce_cap(bs)[i] = bs[k]
           /\ \A k \in DOMAIN bs : bs[k].at = Never =>
                 \E i \in DOMAIN enforce_cap(bs) :
                    /\ enforce_cap(bs)[i] = bs[k]
                    /\ \A j \in i..Len(enforce_cap(bs)) : \E m \in k..Len(bs) : enforce_cap(bs)[j] = bs[m]
<1>1. PICK K \in SUBSET DOMAIN bs :
        /\ \A k \in DOMAIN bs : bs[k].at = Never => k \in K
        /\ enforce_cap(bs) = bs \/ enforce_cap(bs) = Retained(bs, K)
  <2> DEFINE excess == Len(bs) - Cap
             flushedUpTo(i) == Cardinality({j \in 1..i : bs[j].at # Never})
             kept == {i \in DOMAIN bs : bs[i].at = Never \/ flushedUpTo(i) > excess}
  <2>1. enforce_cap(bs) = IF excess <= 0 THEN bs ELSE Retained(bs, kept)
    BY DEF enforce_cap
  <2>2. kept \in SUBSET DOMAIN bs /\ \A k \in DOMAIN bs : bs[k].at = Never => k \in kept
    OBVIOUS
  <2> HIDE DEF excess, kept
  <2> QED
    BY <2>1, <2>2
<1>2. Len(bs) \in Nat /\ DOMAIN bs = 1..Len(bs)
  OBVIOUS
<1>3. CASE enforce_cap(bs) = bs
  BY <1>2, <1>3
<1>4. CASE enforce_cap(bs) = Retained(bs, K)
  <2> DEFINE rs == Retained(bs, K)
  <2>1. rs \in Seq(TailBatch) /\ Sorted(rs)
    BY RetainedIs, RetainedSorted
  <2>2. /\ Len(rs) \in Nat /\ DOMAIN rs = 1..Len(rs)
        /\ \A i \in DOMAIN rs : Nth(K, i) \in K /\ rs[i] = bs[Nth(K, i)]
        /\ \A i, j \in DOMAIN rs : i < j => Nth(K, i) < Nth(K, j)
        /\ \A k \in K : \E i \in DOMAIN rs : Nth(K, i) = k
    BY RetainedIs
  <2> HIDE DEF rs
  <2>3. \A i \in DOMAIN rs : \E k \in DOMAIN bs : rs[i] = bs[k]
    BY <2>2
  <2>4. ASSUME NEW k \in DOMAIN bs, bs[k].at = Never
        PROVE  \E i \in DOMAIN rs :
                  rs[i] = bs[k] /\ \A j \in i..Len(rs) : \E m \in k..Len(bs) : rs[j] = bs[m]
    <3>1. PICK i \in DOMAIN rs : Nth(K, i) = k
      BY <1>1, <2>2, <2>4
    <3>2. ASSUME NEW j \in i..Len(rs)
          PROVE  \E m \in k..Len(bs) : rs[j] = bs[m]
      <4>1. j \in DOMAIN rs /\ (j = i \/ i < j)
        BY <2>2
      <4>2. Nth(K, j) \in 1..Len(bs) /\ rs[j] = bs[Nth(K, j)] /\ (Nth(K, j) = k \/ k < Nth(K, j))
        BY <1>2, <2>2, <3>1, <4>1
      <4>3. Nth(K, j) \in k..Len(bs)
        BY <1>2, <4>2
      <4> QED
        BY <4>2, <4>3
    <3> QED
      BY <2>2, <3>1, <3>2
  <2>5. enforce_cap(bs) = rs
    BY <1>4 DEF rs
  <2> QED
    BY <2>1, <2>3, <2>4, <2>5
<1> QED
  BY <1>1, <1>3, <1>4

\* The handler serves every batch of the newest schema.
LEMMA ServedIs ==
    ASSUME NEW bs \in Seq(TailBatch)
    PROVE  /\ TailLsns(Served(bs)) \subseteq Lsns
           /\ \A k \in DOMAIN bs : bs[k].schema = bs[Len(bs)].schema => bs[k].lsn \in TailLsns(Served(bs))
<1> DEFINE K == {i \in DOMAIN bs : bs[i].schema = bs[Len(bs)].schema}
           rs == Retained(bs, K)
<1>1. K \in SUBSET DOMAIN bs /\ \A k \in DOMAIN bs : bs[k].schema = bs[Len(bs)].schema => k \in K
  OBVIOUS
<1> HIDE DEF K
<1>2. /\ rs \in Seq(TailBatch)
      /\ \A i \in DOMAIN rs : rs[i] = bs[Nth(K, i)]
      /\ \A k \in K : \E i \in DOMAIN rs : Nth(K, i) = k
  BY <1>1, RetainedIs
<1>3. Served(bs) = rs
  BY DEF Served, K
<1> HIDE DEF rs
<1>4. \A i \in DOMAIN rs : rs[i].lsn \in Lsns
  BY <1>2, EntryIsBatch, BatchFields
<1>5. \A k \in K : \E i \in DOMAIN rs : rs[i] = bs[k]
  BY <1>2
<1> QED
  BY <1>1, <1>3, <1>4, <1>5 DEF TailLsns

-----------------------------------------------------------------------------
\* Steps that touch neither the tail nor Delta.

LEMMA Positions ==
    ASSUME Inv
    PROVE  /\ Len(wal) \in Nat /\ DOMAIN wal = 1..Len(wal) /\ Len(wal) <= MaxLsn
           /\ Len(todo) \in Nat /\ DOMAIN todo = 1..Len(todo)
           /\ Len(tail) \in Nat /\ DOMAIN tail = 1..Len(tail)
           /\ handled \in Nat /\ handled <= Len(wal) /\ now \in Nat /\ schema \in Nat
           /\ MaxLsn \in Nat /\ MaxTime \in Nat /\ Retain \in Nat
           /\ client.start \in Nat /\ client.stop \in Nat /\ client.min \in Nat
<1>1. /\ wal \in Seq({"row", "ddl"}) /\ todo \in Seq(Lsns) /\ tail \in Seq(TailBatch)
      /\ handled \in 0..MaxLsn /\ now \in 0..MaxTime /\ schema \in 0..MaxLsn /\ client \in ClientState
  BY DEF Inv, TypeOK
<1>2. Len(wal) <= MaxLsn /\ handled + Len(todo) <= Len(wal)
  BY DEF Inv, ChunkInv
<1>3. MaxLsn \in Nat /\ MaxTime \in Nat /\ Retain \in Nat
  BY Bounds
<1>4. client.start \in 0..MaxTime /\ client.stop \in 0..MaxTime /\ client.min \in 0..MaxLsn
  BY <1>1 DEF ClientState
<1> QED
  BY <1>1, <1>2, <1>3, <1>4

LEMMA WriteStep ==
    ASSUME Inv, NEW kind \in {"row", "ddl"}, Write(kind)
    PROVE  Inv'
<1> USE DEF engine
<1>1. /\ Len(wal) < MaxLsn /\ wal' = Append(wal, kind)
      /\ UNCHANGED <<now, todo, busy, walEnd, handled, remapAt, schema, pending, marking, lake, tail,
                     applied, client, crashes>>
  BY DEF Write
<1>2. Len(wal) \in Nat /\ handled \in Nat /\ handled <= Len(wal) /\ MaxLsn \in Nat
  BY Positions
<1>3. wal' \in Seq({"row", "ddl"}) /\ Len(wal') = Len(wal) + 1 /\ \A m \in 1..Len(wal) : wal'[m] = wal[m]
  BY <1>1 DEF Inv, TypeOK
<1>4. ASSUME NEW l \in Int, l <= Len(wal)
      PROVE  CommitsUpTo(l)' = CommitsUpTo(l)
  BY <1>2, <1>3, <1>4 DEF CommitsUpTo
<1>5. TypeOK'
  BY <1>1, <1>3 DEF Inv, TypeOK
<1>6. ChunkInv'
  <2>1. walEnd \in Int /\ Len(todo) \in Int /\ walEnd <= Len(wal) /\ handled + Len(todo) <= Len(wal)
    BY Positions DEF Inv, TypeOK, ChunkInv
  <2> QED
    BY <1>1, <1>2, <1>3, <2>1 DEF Inv, ChunkInv
<1>7. LakeInv'
  <2>1. \A l \in lake : l \in Int
    BY DEF Inv, TypeOK, Lsns
  <2> QED
    BY <1>1, <1>2, <1>3, <1>4, <2>1 DEF Inv, LakeInv
<1>8. TailInv'
  BY <1>1, <1>2, <1>4 DEF Inv, TailInv, Awaiting
<1>9. SchemaInv' /\ ClientInv' /\ NoGap'
  BY <1>1 DEF Inv, SchemaInv, ClientInv, InTime, Undisturbed, Kept, NoGap
<1> QED
  BY <1>5, <1>6, <1>7, <1>8, <1>9 DEF Inv

LEMMA TickStep ==
    ASSUME Inv, Tick
    PROVE  Inv'
<1> USE DEF engine
<1>1. /\ now < MaxTime /\ now' = now + 1
      /\ UNCHANGED <<wal, todo, busy, walEnd, handled, remapAt, schema, pending, marking, lake, tail,
                     applied, client, crashes>>
  BY DEF Tick
<1>2. now \in Nat /\ MaxTime \in Nat /\ client.start \in Nat /\ Retain \in Nat
  BY Positions
<1>3. TypeOK'
  BY <1>1, <1>2 DEF Inv, TypeOK
<1>4. ChunkInv' /\ SchemaInv' /\ LakeInv' /\ TailInv' /\ NoGap'
  BY <1>1 DEF Inv, ChunkInv, SchemaInv, LakeInv, TailInv, Awaiting, NoGap, CommitsUpTo
<1>5. client.start <= now => client.start <= now'
  BY <1>1, <1>2
<1>6. InTime' => InTime
  BY <1>1, <1>2 DEF InTime
<1>7. ClientInv'
  <2>1. (\A l : Kept(l)' <=> Kept(l)) /\ Undisturbed' = Undisturbed
    BY <1>1 DEF Kept, Undisturbed
  <2> QED
    BY <1>1, <1>5, <1>6, <2>1 DEF Inv, ClientInv
<1> QED
  BY <1>3, <1>4, <1>7 DEF Inv

\* The positions move: a chunk arrives, a keepalive, or a chunk is done.
LEMMA PositionsStep ==
    ASSUME Inv, UNCHANGED <<wal, now, handled, remapAt, schema, pending, marking, lake, tail, client, crashes>>,
           todo' \in Seq(Lsns), busy' \in BOOLEAN,
           walEnd' \in 0..Len(wal), applied' \in 0..MaxLsn,
           handled + Len(todo') <= Len(wal), \A i \in DOMAIN todo' : todo'[i] = handled + i,
           todo' = todo \/ ~marking
    PROVE  Inv'
<1>1. Len(wal) \in Nat /\ Len(wal) <= MaxLsn /\ MaxLsn \in Nat
  BY Positions
<1>2. TypeOK'
  BY <1>1 DEF Inv, TypeOK
<1>3. ChunkInv'
  BY <1>1 DEF Inv, ChunkInv
<1>4. SchemaInv' /\ LakeInv' /\ TailInv' /\ NoGap' /\ ClientInv'
  BY DEF Inv, SchemaInv, LakeInv, TailInv, Awaiting, NoGap, CommitsUpTo, ClientInv, InTime, Undisturbed, Kept
<1> QED
  BY <1>2, <1>3, <1>4 DEF Inv

LEMMA PositionActions ==
    ASSUME Inv, (\E end \in Lsns : Receive(end)) \/ Keepalive \/ SetApplied
    PROVE  Inv'
<1> USE DEF source, engine
<1>1. /\ Len(wal) \in Nat /\ Len(wal) <= MaxLsn /\ MaxLsn \in Nat /\ handled \in Nat /\ handled <= Len(wal)
      /\ MaxChunk \in Nat \ {0}
  BY Positions, FreshReadAssumption
<1>2. /\ walEnd \in 0..Len(wal) /\ walEnd \in 0..MaxLsn /\ applied \in 0..MaxLsn /\ todo \in Seq(Lsns)
      /\ handled + Len(todo) <= Len(wal) /\ \A i \in DOMAIN todo : todo[i] = handled + i
      /\ busy \in BOOLEAN
  BY <1>1 DEF Inv, TypeOK, ChunkInv
<1>3. ASSUME NEW end \in Lsns, Receive(end)
      PROVE  Inv'
  <2>1. PICK last : last = IF end - handled > MaxChunk THEN handled + MaxChunk ELSE end
    OBVIOUS
  <2>2. /\ ~marking /\ handled < end /\ end <= Len(wal)
        /\ busy' = TRUE /\ todo' = [i \in 1..(last - handled) |-> handled + i]
        /\ walEnd' = IF end > walEnd THEN end ELSE walEnd
        /\ UNCHANGED <<wal, now, handled, remapAt, schema, pending, marking, lake, tail, applied, client, crashes>>
    BY <1>3, <2>1 DEF Receive, Idle
  <2>3. end \in Int /\ last \in Int /\ handled < last /\ last <= Len(wal)
    BY <1>1, <2>1, <2>2 DEF Lsns
  <2>4. todo' \in Seq(Lsns) /\ Len(todo') = last - handled /\ \A i \in DOMAIN todo' : todo'[i] = handled + i
    <3>1. last - handled \in Nat /\ \A i \in 1..(last - handled) : handled + i \in Lsns
      BY <1>1, <2>3 DEF Lsns
    <3> QED
      BY <2>2, <3>1
  <2>5. walEnd' \in 0..Len(wal) /\ handled + Len(todo') <= Len(wal)
    BY <1>1, <1>2, <2>2, <2>3, <2>4
  <2> QED
    BY <1>2, <2>2, <2>4, <2>5, PositionsStep
<1>4. ASSUME Keepalive
      PROVE  Inv'
  <2>1. /\ walEnd' = (IF handled > walEnd THEN handled ELSE walEnd) /\ applied' = walEnd'
        /\ UNCHANGED <<wal, now, todo, busy, handled, remapAt, schema, pending, marking, lake, tail, client, crashes>>
    BY <1>4 DEF Keepalive
  <2>2. walEnd' \in 0..Len(wal) /\ walEnd' \in 0..MaxLsn
    BY <1>1, <1>2, <2>1
  <2> QED
    BY <1>2, <2>1, <2>2, PositionsStep
<1>5. ASSUME SetApplied
      PROVE  Inv'
  <2>1. /\ busy' = FALSE /\ applied' = walEnd
        /\ UNCHANGED <<wal, now, todo, walEnd, handled, remapAt, schema, pending, marking, lake, tail, client, crashes>>
    BY <1>5 DEF SetApplied
  <2> QED
    BY <1>2, <2>1, PositionsStep
<1> QED
  BY <1>3, <1>4, <1>5

\* A catalog check counts a DDL record that was handled since the last one.
LEMMA RemapStep ==
    ASSUME Inv, Remap
    PROVE  Inv'
<1> USE DEF source
<1>1. /\ remapAt /\ pending = {} /\ remapAt' = FALSE /\ schema' = schema + 1
      /\ UNCHANGED <<wal, now, todo, busy, walEnd, handled, pending, marking, lake, tail, applied, client, crashes>>
  BY DEF Remap
<1>2. schema \in Nat /\ handled \in Nat /\ schema < handled /\ handled \in 0..MaxLsn /\ MaxLsn \in Nat
  BY <1>1, Positions DEF Inv, SchemaInv, TypeOK
<1>3. TypeOK'
  <2>1. schema' \in 0..MaxLsn
    BY <1>1, <1>2
  <2> QED
    BY <1>1, <2>1 DEF Inv, TypeOK
<1>4. SchemaInv'
  BY <1>1, <1>2 DEF SchemaInv
<1>5. ChunkInv' /\ LakeInv' /\ ClientInv' /\ NoGap'
  BY <1>1 DEF Inv, ChunkInv, LakeInv, CommitsUpTo, ClientInv, InTime, Undisturbed, Kept, NoGap
<1>6. TailInv'
  BY <1>1 DEF Inv, TailInv, CommitsUpTo
<1> QED
  BY <1>3, <1>4, <1>5, <1>6 DEF Inv

-----------------------------------------------------------------------------
\* Flushing.

\* What is pending is all that Delta lacks of the commits handled.
LEMMA FlushAppendStep ==
    ASSUME Inv, FlushAppend
    PROVE  Inv'
<1> USE DEF source
<1>1. /\ todo = <<>> /\ lake' = lake \cup pending /\ pending' = {} /\ marking' = TRUE
      /\ UNCHANGED <<wal, now, todo, busy, walEnd, handled, remapAt, schema, tail, applied, client, crashes>>
  BY DEF FlushAppend
<1>2. handled \in Nat /\ handled <= Len(wal) /\ Len(wal) \in Nat
  BY Positions
<1>3. TypeOK'
  BY <1>1 DEF Inv, TypeOK
<1>4. ChunkInv' /\ SchemaInv' /\ NoGap'
  BY <1>1 DEF Inv, ChunkInv, SchemaInv, NoGap
<1>5. LakeInv'
  <2>1. SUFFICES ASSUME NEW l \in lake \cup pending
                 PROVE  l <= Len(wal) /\ CommitsUpTo(l) \subseteq lake \cup pending
    BY <1>1 DEF LakeInv, CommitsUpTo
  <2>2. CASE l \in lake
    BY <2>2 DEF Inv, LakeInv
  <2>3. CASE l \in pending
    <3>1. l \in Int /\ l <= handled
      BY <2>3 DEF Inv, TypeOK, TailInv, Lsns
    <3>2. CommitsUpTo(l) \subseteq CommitsUpTo(handled)
      BY <1>2, <3>1 DEF CommitsUpTo
    <3> QED
      BY <1>2, <3>1, <3>2 DEF Inv, TailInv
  <2> QED
    BY <2>2, <2>3
<1>6. TailInv'
  BY <1>1 DEF Inv, TailInv, CommitsUpTo
<1>7. ClientInv'
  BY <1>1 DEF Inv, ClientInv, InTime, Undisturbed, Kept
<1> QED
  BY <1>3, <1>4, <1>5, <1>6, <1>7 DEF Inv

\* An eviction is noted for a client between its reads, and for nobody else.
LEMMA EvictingIs ==
    ASSUME Inv, NEW bs, client' = Evicting(bs)
    PROVE  /\ client' \in ClientState
           /\ client'.pc = client.pc /\ client'.first = client.first
           /\ client'.start = client.start /\ client'.stop = client.stop
           /\ client'.must = client.must /\ client'.got = client.got
           /\ client'.filtered = client.filtered /\ client'.restarted = client.restarted
           /\ Undisturbed' => Undisturbed
           /\ client.pc = "between" /\ Undisturbed' => enforce_cap(bs) = bs
           /\ client.pc # "between" => client' = client
<1> DEFINE e == client.evicted \/ (client.pc = "between" /\ enforce_cap(bs) # bs)
<1>1. client \in ClientState /\ client.evicted \in BOOLEAN
  BY DEF Inv, TypeOK, ClientState
<1>2. client' = [client EXCEPT !.evicted = e]
  BY DEF Evicting
<1>3. e \in BOOLEAN /\ (client.evicted => e)
      /\ (client.pc = "between" /\ ~e => enforce_cap(bs) = bs)
      /\ (client.pc # "between" => e = client.evicted)
  BY <1>1, Zenon
<1> HIDE DEF e
<1>4. /\ client' \in ClientState /\ client'.evicted = e
      /\ client'.pc = client.pc /\ client'.first = client.first
      /\ client'.start = client.start /\ client'.stop = client.stop
      /\ client'.must = client.must /\ client'.got = client.got
      /\ client'.filtered = client.filtered /\ client'.restarted = client.restarted
  BY <1>1, <1>2, <1>3 DEF ClientState
<1>5. client.pc # "between" => client' = client
  BY <1>1, <1>2, <1>3 DEF ClientState
<1>6. (Undisturbed' => Undisturbed) /\ (client.pc = "between" /\ Undisturbed' => enforce_cap(bs) = bs)
  BY <1>3, <1>4, Zenon DEF Undisturbed
<1> QED
  BY <1>4, <1>5, <1>6

\* The tail learns of a flush: everything it holds is in Delta by now.
LEMMA FlushMarkStep ==
    ASSUME Inv, FlushMark
    PROVE  Inv'
<1> USE DEF source
<1> DEFINE ms == mark_flushed(tail)
<1>1. /\ marking /\ marking' = FALSE /\ tail' = enforce_cap(ms) /\ client' = Evicting(ms)
      /\ UNCHANGED <<wal, now, todo, busy, walEnd, handled, remapAt, schema, pending, lake, applied, crashes>>
  BY DEF FlushMark
<1>2. pending = {} /\ tail \in Seq(TailBatch) /\ Sorted(tail) /\ now \in 0..MaxTime
  BY <1>1 DEF Inv, ChunkInv, TypeOK
<1>3. /\ ms \in Seq(TailBatch) /\ Sorted(ms)
      /\ \A i \in DOMAIN ms : \E k \in DOMAIN tail : ms[i] = Clocked(tail[k])
      /\ \A k \in DOMAIN tail : now - Clocked(tail[k]).at < Retain => \E i \in DOMAIN ms : ms[i] = Clocked(tail[k])
  BY <1>2, MarkFlushedIs
<1> HIDE DEF ms
<1>4. /\ tail' \in Seq(TailBatch) /\ Sorted(tail)'
      /\ \A i \in DOMAIN tail' : \E k \in DOMAIN ms : tail'[i] = ms[k]
  BY <1>1, <1>3, EnforceCapIs DEF Sorted
<1>5. \A k \in DOMAIN tail : /\ tail[k] \in TailBatch /\ Clocked(tail[k]).lsn = tail[k].lsn
                             /\ Clocked(tail[k]).at = IF tail[k].at = Never THEN now ELSE tail[k].at
  BY <1>2, EntryIsBatch DEF Clocked, TailBatch
<1>6. /\ client' \in ClientState /\ client'.pc = client.pc /\ client'.first = client.first
      /\ client'.start = client.start /\ client'.stop = client.stop
      /\ client'.must = client.must /\ client'.got = client.got
      /\ Undisturbed' => Undisturbed
      /\ client.pc = "between" /\ Undisturbed' => tail' = ms
      /\ client.pc # "between" => client' = client
  BY <1>1, EvictingIs
<1>7. TypeOK'
  BY <1>1, <1>4, <1>6 DEF Inv, TypeOK
<1>8. ChunkInv' /\ SchemaInv' /\ LakeInv'
  BY <1>1 DEF Inv, ChunkInv, SchemaInv, LakeInv, CommitsUpTo
<1>9. TailInv'
  BY <1>1, <1>2, <1>3, <1>4, <1>5, SMTT(30) DEF Inv, TailInv, CommitsUpTo
<1>10. NoGap'
  BY <1>6 DEF Inv, NoGap
<1>11. ClientInv'
  <2>1. SUFFICES ASSUME client.pc = "between", client.first = "delta", InTime, Undisturbed',
                        NEW l \in client.must \ client.got
                 PROVE  Kept(l)'
    BY <1>1, <1>6 DEF Inv, ClientInv, InTime
  <2>2. PICK k \in DOMAIN tail : tail[k].lsn = l /\ (tail[k].at = Never \/ tail[k].at >= client.start)
    BY <1>6, <2>1 DEF Inv, ClientInv, Kept
  <2>3. client.start \in Int /\ now \in Int /\ client.start <= now /\ Retain \in Int /\ tail[k].at \in Int
    BY <1>5, <2>1, Positions, BatchFields DEF Inv, ClientInv, Never
  <2>4. Clocked(tail[k]).at \in Int /\ Clocked(tail[k]).at >= client.start
    BY <1>5, <2>2, <2>3
  <2>5. now - Clocked(tail[k]).at < Retain
    BY <2>1, <2>3, <2>4 DEF InTime
  <2>6. PICK i \in DOMAIN ms : ms[i] = Clocked(tail[k])
    BY <1>3, <2>5
  <2> QED
    BY <1>5, <1>6, <2>1, <2>2, <2>4, <2>6 DEF Kept
<1> QED
  BY <1>7, <1>8, <1>9, <1>10, <1>11 DEF Inv

-----------------------------------------------------------------------------
\* A record is handled.

\* What handling a record of either kind does to the chunk.
LEMMA HandledCommon ==
    ASSUME Inv, HandleRecord
    PROVE  /\ todo[1] = handled + 1 /\ handled' = handled + 1 /\ handled + 1 \in Lsns /\ handled + 1 <= Len(wal)
           /\ handled' \in 0..MaxLsn /\ remapAt' \in BOOLEAN
           /\ todo' \in Seq(Lsns) /\ ~marking
           /\ UNCHANGED <<wal, now, busy, walEnd, schema, marking, lake, applied, crashes>>
           /\ ChunkInv' /\ SchemaInv' /\ LakeInv'
           /\ CommitsUpTo(handled)' \subseteq CommitsUpTo(handled) \cup
                 (IF wal[handled + 1] = "row" THEN {handled + 1} ELSE {})
<1> USE DEF source
<1>1. /\ todo # <<>> /\ todo' = Tail(todo) /\ handled' = todo[1]
      /\ remapAt' = (remapAt \/ wal[todo[1]] = "ddl")
      /\ UNCHANGED <<wal, now, busy, walEnd, schema, marking, lake, applied, crashes>>
  BY DEF HandleRecord
<1>2. /\ todo \in Seq(Lsns) /\ Len(todo) \in Nat /\ DOMAIN todo = 1..Len(todo)
      /\ Len(wal) \in Nat /\ Len(wal) <= MaxLsn /\ handled \in Nat /\ MaxLsn \in Nat
      /\ handled + Len(todo) <= Len(wal) /\ \A i \in DOMAIN todo : todo[i] = handled + i
  BY Positions DEF Inv, TypeOK, ChunkInv
<1>3. Len(todo) >= 1
  BY <1>1, <1>2
<1>4. /\ todo' \in Seq(Lsns) /\ Len(todo') = Len(todo) - 1 /\ DOMAIN todo' = 1..(Len(todo) - 1)
      /\ \A i \in 1..(Len(todo) - 1) : todo'[i] = todo[i + 1]
  BY <1>1, <1>2
<1>5. todo[1] = handled + 1 /\ handled + 1 \in Lsns /\ handled + 1 <= Len(wal) /\ handled + 1 \in 0..MaxLsn
  BY <1>2, <1>3 DEF Lsns
<1>6. ~marking
  BY <1>1 DEF Inv, ChunkInv
<1>7. ChunkInv'
  <2>1. ASSUME NEW i \in DOMAIN todo' PROVE todo'[i] = handled' + i
    <3>1. i \in Int /\ i + 1 \in DOMAIN todo /\ todo'[i] = todo[i + 1]
      BY <1>2, <1>4
    <3>2. todo[i + 1] = handled + (i + 1)
      BY <1>2, <3>1
    <3> QED
      BY <1>1, <1>2, <1>5, <3>1, <3>2
  <2>2. handled' + Len(todo') <= Len(wal)
    BY <1>1, <1>2, <1>4, <1>5
  <2> QED
    BY <1>1, <1>6, <2>1, <2>2 DEF Inv, ChunkInv
<1>8. SchemaInv'
  <2>1. schema \in Nat /\ schema <= handled
    BY <1>2, Positions DEF Inv, SchemaInv
  <2> QED
    BY <1>1, <1>2, <1>5, <2>1 DEF SchemaInv
<1>9. LakeInv'
  BY <1>1 DEF Inv, LakeInv, CommitsUpTo
<1>10. CommitsUpTo(handled)' \subseteq CommitsUpTo(handled) \cup
          (IF wal[handled + 1] = "row" THEN {handled + 1} ELSE {})
  BY <1>1, <1>2, <1>5 DEF CommitsUpTo
<1>11. remapAt' \in BOOLEAN
  BY <1>1, Zenon DEF Inv, TypeOK
<1> QED
  BY <1>1, <1>4, <1>5, <1>6, <1>7, <1>8, <1>9, <1>10, <1>11

\* A record that is no new row leaves the tail alone.
LEMMA HandledOther ==
    ASSUME Inv, HandleRecord, ~(wal[handled + 1] = "row" /\ handled + 1 \notin lake)
    PROVE  Inv'
<1>1. /\ todo[1] = handled + 1 /\ handled' = handled + 1
      /\ handled' \in 0..MaxLsn /\ remapAt' \in BOOLEAN
      /\ todo' \in Seq(Lsns)
      /\ UNCHANGED <<wal, now, busy, walEnd, schema, marking, lake, applied, crashes>>
      /\ ChunkInv' /\ SchemaInv' /\ LakeInv'
      /\ CommitsUpTo(handled)' \subseteq CommitsUpTo(handled) \cup
            (IF wal[handled + 1] = "row" THEN {handled + 1} ELSE {})
  BY HandledCommon
<1>2. UNCHANGED <<pending, tail, client>>
  BY <1>1 DEF HandleRecord
<1>3. TypeOK'
  BY <1>1, <1>2 DEF Inv, TypeOK
<1>4. TailInv'
  <2>1. handled \in Int /\ \A i \in DOMAIN tail : tail[i].lsn \in Int
    BY Positions, EntryIsBatch, BatchFields DEF Inv, TypeOK, Lsns
  <2>2. CommitsUpTo(handled)' \subseteq lake \cup pending
    BY <1>1 DEF Inv, TailInv
  <2>3. \A i \in DOMAIN tail : tail[i].lsn <= handled'
    BY <1>1, <2>1 DEF Inv, TailInv
  <2>4. \A l \in pending : l <= handled' /\ Awaiting(l)'
    <3>1. \A l \in pending : l \in Int
      BY DEF Inv, TypeOK, Lsns
    <3>2. \A l \in pending : l <= handled'
      BY <1>1, <2>1, <3>1 DEF Inv, TailInv
    <3> QED
      BY <1>1, <1>2, <3>2 DEF Inv, TailInv, Awaiting
  <2> QED
    BY <1>1, <1>2, <2>2, <2>3, <2>4 DEF Inv, TailInv
<1>5. ClientInv' /\ NoGap'
  BY <1>1, <1>2 DEF Inv, ClientInv, InTime, Undisturbed, Kept, NoGap
<1> QED
  BY <1>1, <1>3, <1>4, <1>5 DEF Inv

\* A new row is pending and at the end of the tail, whatever is evicted.
LEMMA HandledRow ==
    ASSUME Inv, HandleRecord, wal[handled + 1] = "row", handled + 1 \notin lake
    PROVE  Inv'
<1> DEFINE l == handled + 1
           bs == push(tail, Batch(l))
<1>1. /\ todo[1] = l /\ handled' = l /\ l \in Lsns
      /\ handled' \in 0..MaxLsn /\ remapAt' \in BOOLEAN
      /\ todo' \in Seq(Lsns)
      /\ UNCHANGED <<wal, now, busy, walEnd, schema, marking, lake, applied, crashes>>
      /\ ChunkInv' /\ SchemaInv' /\ LakeInv'
      /\ CommitsUpTo(handled)' \subseteq CommitsUpTo(handled) \cup {l}
  BY HandledCommon
<1>2. pending' = pending \cup {l} /\ tail' = enforce_cap(bs) /\ client' = Evicting(bs)
  BY <1>1 DEF HandleRecord
<1>3. /\ tail \in Seq(TailBatch) /\ Sorted(tail) /\ Len(tail) \in Nat /\ DOMAIN tail = 1..Len(tail)
      /\ handled \in Nat
  BY Positions DEF Inv, TypeOK
<1>4. Batch(l) \in TailBatch /\ Batch(l).lsn = l /\ Batch(l).at = Never /\ Batch(l).schema = schema
  <2>1. Never \in Never..MaxTime
    BY Bounds DEF Never
  <2> QED
    BY <1>1, <2>1 DEF Batch, TailBatch, Inv, TypeOK
<1>5. /\ bs \in Seq(TailBatch) /\ Len(bs) = Len(tail) + 1 /\ DOMAIN bs = 1..(Len(tail) + 1)
      /\ bs[Len(tail) + 1] = Batch(l) /\ \A i \in DOMAIN tail : bs[i] = tail[i]
  BY <1>3, <1>4 DEF push
<1>6. \A i \in DOMAIN tail : tail[i].lsn \in Int /\ tail[i].lsn <= handled /\ tail[i].lsn < l
  <2>1. \A i \in DOMAIN tail : tail[i].lsn \in Int /\ tail[i].lsn <= handled
    BY <1>3, EntryIsBatch, BatchFields DEF Inv, TailInv, Lsns
  <2> QED
    BY <1>3, <2>1
<1> HIDE DEF l, bs
<1>7. Sorted(bs)
  <2>1. SUFFICES ASSUME NEW i \in DOMAIN bs, NEW j \in DOMAIN bs, i < j
                 PROVE  bs[i].lsn < bs[j].lsn
    BY DEF Sorted
  <2>2. i \in DOMAIN tail
    BY <1>3, <1>5, <2>1
  <2>3. CASE j \in DOMAIN tail
    BY <1>3, <1>5, <2>1, <2>2, <2>3 DEF Sorted
  <2>4. CASE j = Len(tail) + 1
    BY <1>4, <1>5, <1>6, <2>2, <2>4
  <2> QED
    BY <1>3, <1>5, <2>3, <2>4
<1>8. /\ tail' \in Seq(TailBatch) /\ Sorted(tail)'
      /\ \A i \in DOMAIN tail' : \E k \in DOMAIN bs : tail'[i] = bs[k]
      /\ \A k \in DOMAIN bs : bs[k].at = Never =>
            \E i \in DOMAIN tail' :
               /\ tail'[i] = bs[k]
               /\ \A j \in i..Len(tail') : \E m \in k..Len(bs) : tail'[j] = bs[m]
  <2> DEFINE es == enforce_cap(bs)
  <2>1. /\ es \in Seq(TailBatch) /\ Sorted(es)
        /\ \A i \in DOMAIN es : \E k \in DOMAIN bs : es[i] = bs[k]
        /\ \A k \in DOMAIN bs : bs[k].at = Never =>
              \E i \in DOMAIN es :
                 /\ es[i] = bs[k]
                 /\ \A j \in i..Len(es) : \E m \in k..Len(bs) : es[j] = bs[m]
    BY <1>5, <1>7, EnforceCapIs
  <2>2. tail' = es
    BY <1>2
  <2> HIDE DEF es
  <2>3. Sorted(tail)'
    BY <2>1, <2>2 DEF Sorted
  <2> QED
    BY <2>1, <2>2, <2>3
<1>9. /\ client' \in ClientState /\ client'.pc = client.pc /\ client'.first = client.first
      /\ client'.start = client.start /\ client'.stop = client.stop
      /\ client'.must = client.must /\ client'.got = client.got
      /\ Undisturbed' => Undisturbed
      /\ client.pc = "between" /\ Undisturbed' => tail' = bs
      /\ client.pc # "between" => client' = client
  BY <1>2, EvictingIs
<1>10. TypeOK'
  BY <1>1, <1>2, <1>8, <1>9 DEF Inv, TypeOK
<1>11. TailInv'
  <2>1. CommitsUpTo(handled)' \subseteq lake' \cup pending'
    BY <1>1, <1>2 DEF Inv, TailInv
  <2>2. \A k \in DOMAIN bs : bs[k].lsn <= l /\ bs[k].lsn \in lake \cup pending'
    <3>1. SUFFICES ASSUME NEW k \in DOMAIN bs
                   PROVE  bs[k].lsn <= l /\ bs[k].lsn \in lake \cup pending'
      OBVIOUS
    <3>2. CASE k \in DOMAIN tail
      <4>1. tail[k].lsn <= l
        BY <1>3, <1>6, <3>2 DEF l
      <4> QED
        BY <1>2, <1>5, <3>2, <4>1 DEF Inv, TailInv
    <3>3. CASE k = Len(tail) + 1
      BY <1>1, <1>2, <1>4, <1>5, <3>3 DEF Lsns
    <3> QED
      BY <1>3, <1>5, <3>2, <3>3
  <2>3. \A i \in DOMAIN tail' : tail'[i].lsn <= handled' /\ tail'[i].lsn \in lake' \cup pending'
    BY <1>1, <1>8, <2>2
  <2>4. ASSUME NEW x \in pending'
        PROVE  \E k \in DOMAIN bs : /\ bs[k].lsn = x /\ bs[k].at = Never
                                    /\ \A m \in k..Len(bs) : bs[m].schema = schema
    <3>1. CASE x = l
      <4>1. \A m \in (Len(tail) + 1)..Len(bs) : m = Len(tail) + 1
        BY <1>3, <1>5
      <4> QED
        BY <1>3, <1>4, <1>5, <3>1, <4>1
    <3>2. CASE x \in pending
      <4>1. PICK k \in DOMAIN tail : /\ tail[k].lsn = x /\ tail[k].at = Never
                                     /\ \A m \in k..Len(tail) : tail[m].schema = schema
        BY <3>2 DEF Inv, TailInv, Awaiting
      <4>2. ASSUME NEW m \in k..Len(bs) PROVE bs[m].schema = schema
        <5>1. CASE m = Len(tail) + 1
          BY <1>4, <1>5, <5>1
        <5>2. CASE m # Len(tail) + 1
          <6>1. m \in k..Len(tail) /\ m \in DOMAIN tail
            BY <1>3, <1>5, <5>2
          <6> QED
            BY <1>5, <4>1, <6>1
        <5> QED
          BY <5>1, <5>2
      <4>3. k \in DOMAIN bs /\ bs[k] = tail[k]
        BY <1>3, <1>5
      <4> QED
        BY <4>1, <4>2, <4>3
    <3> QED
      BY <1>2, <3>1, <3>2
  <2>5. ASSUME NEW x \in pending'
        PROVE  Awaiting(x)'
    <3>1. PICK k \in DOMAIN bs : /\ bs[k].lsn = x /\ bs[k].at = Never
                                 /\ \A m \in k..Len(bs) : bs[m].schema = schema
      BY <2>4
    <3>2. PICK i \in DOMAIN tail' :
             /\ tail'[i] = bs[k]
             /\ \A j \in i..Len(tail') : \E m \in k..Len(bs) : tail'[j] = bs[m]
      BY <1>8, <3>1
    <3>3. \A j \in i..Len(tail') : tail'[j].schema = schema
      BY <3>1, <3>2
    <3> QED
      BY <1>1, <3>1, <3>2, <3>3 DEF Awaiting
  <2>6. ASSUME NEW x \in pending' PROVE x <= handled'
    <3>1. CASE x = l
      BY <1>1, <3>1 DEF Lsns
    <3>2. CASE x \in pending
      <4>1. x <= handled /\ x \in Int
        BY <3>2 DEF Inv, TailInv, TypeOK, Lsns
      <4> QED
        BY <1>1, <1>3, <4>1 DEF l
    <3> QED
      BY <1>2, <3>1, <3>2
  <2> QED
    BY <2>1, <2>3, <2>5, <2>6 DEF TailInv
<1>12. NoGap'
  BY <1>9 DEF Inv, NoGap
<1>13. ClientInv'
  <2>1. SUFFICES ASSUME client.pc = "between", client.first = "delta", InTime, Undisturbed',
                        NEW x \in client.must \ client.got
                 PROVE  Kept(x)'
    BY <1>1, <1>9 DEF Inv, ClientInv, InTime
  <2>2. PICK k \in DOMAIN tail : tail[k].lsn = x /\ (tail[k].at = Never \/ tail[k].at >= client.start)
    BY <1>9, <2>1 DEF Inv, ClientInv, Kept
  <2>3. k \in DOMAIN bs /\ bs[k] = tail[k]
    BY <1>3, <1>5
  <2> QED
    BY <1>9, <2>1, <2>2, <2>3 DEF Kept
<1> QED
  BY <1>1, <1>10, <1>11, <1>12, <1>13 DEF Inv

-----------------------------------------------------------------------------
\* A restart, and the client.

\* A restart forgets the tail, but resumes where Delta has every commit.
LEMMA CrashStep ==
    ASSUME Inv, NEW resume \in 0..MaxLsn, Crash(resume)
    PROVE  Inv'
<1> USE DEF source
<1>1. /\ todo' = <<>> /\ busy' = FALSE /\ walEnd' = resume /\ handled' = resume
      /\ remapAt' = FALSE /\ marking' = FALSE /\ pending' = {} /\ tail' = <<>> /\ applied' = 0
      /\ schema' = Cardinality({l \in 1..resume : wal[l] = "ddl"})
      /\ UNCHANGED <<wal, now, lake>> /\ crashes' = crashes + 1
  BY DEF Crash
<1>2. /\ Len(wal) \in Nat /\ Len(wal) <= MaxLsn /\ MaxLsn \in Nat /\ resume \in Nat
  BY Positions
<1>3. resume <= Len(wal) /\ CommitsUpTo(resume) \subseteq lake
  <2>1. CASE resume = 0
    BY <1>2, <2>1 DEF CommitsUpTo
  <2>2. CASE \E l \in lake : resume <= l
    <3>1. PICK l \in lake : resume <= l
      BY <2>2
    <3>2. l \in Int /\ l <= Len(wal) /\ CommitsUpTo(l) \subseteq lake
      BY DEF Inv, TypeOK, LakeInv, Lsns
    <3> QED
      BY <1>2, <3>1, <3>2 DEF CommitsUpTo
  <2> QED
    BY <2>1, <2>2 DEF Crash
<1>4. schema' \in Nat /\ schema' <= resume
  <2> DEFINE D == {l \in 1..resume : wal[l] = "ddl"}
  <2>1. IsFiniteSet(1..resume) /\ Cardinality(1..resume) = resume
    BY <1>2, FS_Interval
  <2>2. D \in SUBSET (1..resume) /\ schema' = Cardinality(D)
    BY <1>1
  <2> HIDE DEF D
  <2>3. IsFiniteSet(D) /\ Cardinality(D) <= resume
    BY <2>1, <2>2, FS_Subset
  <2> QED
    BY <2>2, <2>3, FS_CardinalityType
<1>5. /\ client' \in ClientState
      /\ client'.pc = client.pc /\ client'.first = client.first /\ client'.start = client.start
      /\ client'.must = client.must /\ client'.got = client.got
      /\ client.pc = "between" => ~Undisturbed'
      /\ client.pc = "done" => client' = client
  <2>1. client \in ClientState
    BY DEF Inv, TypeOK
  <2>2. CASE client.pc \in {"wait", "between"}
    <3>1. client' = [client EXCEPT !.restarted = TRUE]
      BY <2>2 DEF Crash
    <3>2. /\ client' \in ClientState /\ client'.restarted = TRUE
          /\ client'.pc = client.pc /\ client'.first = client.first /\ client'.start = client.start
          /\ client'.must = client.must /\ client'.got = client.got
      BY <2>1, <3>1 DEF ClientState
    <3> QED
      BY <2>2, <3>2 DEF Undisturbed
  <2>3. CASE client.pc \notin {"wait", "between"}
    BY <2>1, <2>3 DEF Crash
  <2> QED
    BY <2>2, <2>3
<1>6. TypeOK'
  <2>1. tail' \in Seq(TailBatch) /\ Sorted(tail)' /\ todo' \in Seq(Lsns)
    BY <1>1 DEF Sorted
  <2>2. schema' \in 0..MaxLsn /\ crashes' \in Nat /\ 0 \in 0..MaxLsn
    BY <1>1, <1>2, <1>4 DEF Inv, TypeOK
  <2> QED
    BY <1>1, <1>5, <2>1, <2>2 DEF Inv, TypeOK
<1>7. ChunkInv'
  BY <1>1, <1>2, <1>3 DEF ChunkInv
<1>8. SchemaInv'
  BY <1>1, <1>2, <1>4 DEF SchemaInv
<1>9. LakeInv'
  BY <1>1 DEF Inv, LakeInv, CommitsUpTo
<1>10. TailInv'
  BY <1>1, <1>3 DEF TailInv, CommitsUpTo
<1>11. ClientInv'
  BY <1>1, <1>5 DEF Inv, ClientInv
<1>12. NoGap'
  BY <1>5 DEF Inv, NoGap
<1> QED
  BY <1>6, <1>7, <1>8, <1>9, <1>10, <1>11, <1>12 DEF Inv

\* Only the client moves.
LEMMA ClientOnly ==
    ASSUME Inv, UNCHANGED <<wal, now, todo, busy, walEnd, handled, remapAt, schema, pending, marking,
                            lake, tail, applied, crashes>>,
           client' \in ClientState, ClientInv', NoGap'
    PROVE  Inv'
<1>1. TypeOK'
  BY DEF Inv, TypeOK
<1>2. ChunkInv' /\ SchemaInv' /\ LakeInv' /\ TailInv'
  BY DEF Inv, ChunkInv, SchemaInv, LakeInv, TailInv, Awaiting, CommitsUpTo
<1> QED
  BY <1>1, <1>2 DEF Inv

\* When a read begins, Delta and the served tail have every commit handled,
\* and what Delta lacks is not clocked yet.
LEMMA ReadFirstStep ==
    ASSUME Inv, NEW side \in {"tail", "delta"}, ReadFirst(side)
    PROVE  Inv'
<1> USE DEF source, engine
<1> DEFINE must == CommitsUpTo(handled)
           got == IF side = "tail" THEN ReadTail ELSE lake
<1>1. /\ client' = [client EXCEPT !.pc = "between", !.first = side, !.start = now, !.must = must, !.got = got]
      /\ UNCHANGED <<wal, now, todo, busy, walEnd, handled, remapAt, schema, pending, marking,
                     lake, tail, applied, crashes>>
  BY DEF ReadFirst
<1>2. /\ tail \in Seq(TailBatch) /\ client \in ClientState /\ now \in 0..MaxTime /\ lake \subseteq Lsns
      /\ Len(tail) \in Nat /\ DOMAIN tail = 1..Len(tail) /\ now \in Nat
  BY Positions DEF Inv, TypeOK
<1>3. must \subseteq Lsns /\ got \subseteq Lsns
  <2>1. must \subseteq Lsns
    BY Positions DEF CommitsUpTo, Lsns
  <2>2. ReadTail \subseteq Lsns
    BY <1>2, ServedIs DEF ReadTail
  <2> QED
    BY <1>2, <2>1, <2>2
<1>4. \A l \in must \ lake : Awaiting(l)
  BY DEF Inv, TailInv
<1>5. \A l \in must \ lake : l \in ReadTail
  <2>1. SUFFICES ASSUME NEW l, Awaiting(l)
                 PROVE  l \in ReadTail
    BY <1>4
  <2>2. PICK i \in DOMAIN tail : tail[i].lsn = l /\ \A j \in i..Len(tail) : tail[j].schema = schema
    BY <2>1 DEF Awaiting
  <2>3. i \in i..Len(tail) /\ Len(tail) \in i..Len(tail)
    BY <1>2
  <2>4. tail[i].schema = tail[Len(tail)].schema
    BY <2>2, <2>3
  <2> QED
    BY <1>2, <2>2, <2>4, ServedIs DEF ReadTail
<1> HIDE DEF must, got
<1>6. /\ client' \in ClientState /\ client'.pc = "between" /\ client'.first = side /\ client'.start = now
      /\ client'.must = must /\ client'.got = got
  BY <1>1, <1>2, <1>3 DEF ClientState
<1>7. ClientInv'
  <2>1. side = "tail" => must \subseteq got \cup lake
    BY <1>5 DEF got
  <2>2. side = "delta" => \A l \in must \ got : Kept(l)'
    BY <1>1, <1>4 DEF got, Awaiting, Kept
  <2>3. client'.start <= now'
    BY <1>1, <1>2, <1>6
  <2> QED
    BY <1>1, <1>6, <2>1, <2>2, <2>3 DEF ClientInv
<1>8. NoGap'
  BY <1>6 DEF NoGap
<1> QED
  BY <1>1, <1>6, <1>7, <1>8, ClientOnly

LEMMA ReadSecondStep ==
    ASSUME Inv, ReadSecond
    PROVE  Inv'
<1> USE DEF source, engine
<1> DEFINE f == (client.first = "delta" /\ Filtered)
           second == IF client.first = "tail" THEN lake ELSE ReadTail
<1>1. /\ client.pc = "between"
      /\ client' = [client EXCEPT !.pc = "done", !.stop = now, !.filtered = f, !.got = client.got \cup second]
      /\ UNCHANGED <<wal, now, todo, busy, walEnd, handled, remapAt, schema, pending, marking,
                     lake, tail, applied, crashes>>
  BY DEF ReadSecond
<1>2. tail \in Seq(TailBatch) /\ client \in ClientState /\ now \in 0..MaxTime /\ lake \subseteq Lsns
  BY DEF Inv, TypeOK
<1>3. f \in BOOLEAN
  OBVIOUS
<1>4. second \subseteq Lsns
  BY <1>2, ServedIs DEF ReadTail
<1>5. client.first = "tail" => client.must \subseteq client.got \cup second
  BY <1>1 DEF Inv, ClientInv
<1>6. client.first = "delta" /\ ~f /\ InTime /\ Undisturbed => client.must \subseteq client.got \cup second
  <2>1. SUFFICES ASSUME client.first = "delta", ~f, InTime, Undisturbed, NEW l \in client.must \ client.got
                 PROVE  l \in TailLsns(Served(tail))
    BY DEF ReadTail
  <2>2. Served(tail) = tail
    BY <2>1 DEF Filtered
  <2>3. Kept(l)
    BY <1>1, <2>1 DEF Inv, ClientInv
  <2> QED
    BY <2>2, <2>3 DEF Kept, TailLsns
<1> HIDE DEF f, second
<1>7. /\ client' \in ClientState /\ client'.pc = "done" /\ client'.stop = now /\ client'.filtered = f
      /\ client'.got = client.got \cup second /\ client'.must = client.must /\ client'.first = client.first
      /\ client'.start = client.start /\ client'.evicted = client.evicted /\ client'.restarted = client.restarted
  <2>1. client.got \cup second \subseteq Lsns
    BY <1>2, <1>4 DEF ClientState
  <2> QED
    BY <1>1, <1>2, <1>3, <2>1 DEF ClientState
<1>8. ClientInv'
  BY <1>7 DEF ClientInv
<1>9. NoGap'
  <2>1. SUFFICES ASSUME client.first = "delta" => now - client.start < Retain /\ ~client.evicted /\ ~f /\ ~client.restarted
                 PROVE  client.must \subseteq client.got \cup second
    BY <1>7 DEF NoGap
  <2>2. client.first \in {"tail", "delta"}
    BY <1>2 DEF ClientState
  <2> QED
    BY <1>5, <1>6, <2>1, <2>2 DEF InTime, Undisturbed
<1> QED
  BY <1>1, <1>7, <1>8, <1>9, ClientOnly

LEMMA AskSteps ==
    ASSUME Inv, (\E l \in 0..MaxLsn : Ask(l)) \/ TimedOut
    PROVE  Inv'
<1> USE DEF source, engine
<1>1. client' \in ClientState /\ client'.pc \in {"wait", "408"}
  <2>1. CASE \E l \in 0..MaxLsn : Ask(l)
    <3>1. PICK l \in 0..MaxLsn : client' = [NoRead EXCEPT !.pc = "wait", !.min = l]
      BY <2>1 DEF Ask
    <3>2. 0 \in 0..MaxLsn /\ 0 \in 0..MaxTime
      BY Bounds
    <3> QED
      BY <3>1, <3>2 DEF NoRead, ClientState
  <2>2. CASE TimedOut
    BY <2>2 DEF TimedOut, Inv, TypeOK, ClientState
  <2> QED
    BY <2>1, <2>2
<1>2. UNCHANGED <<wal, now, todo, busy, walEnd, handled, remapAt, schema, pending, marking,
                  lake, tail, applied, crashes>>
  BY DEF Ask, TimedOut
<1>3. ClientInv' /\ NoGap'
  BY <1>1 DEF ClientInv, NoGap
<1> QED
  BY <1>1, <1>2, <1>3, ClientOnly

-----------------------------------------------------------------------------
LEMMA InvInit == Init => Inv
<1> SUFFICES ASSUME Init PROVE Inv
  OBVIOUS
<1>1. MaxLsn \in Nat /\ MaxTime \in Nat
  BY Bounds
<1>2. NoRead \in ClientState /\ NoRead.pc = "idle"
  BY <1>1 DEF NoRead, ClientState
<1>3. TypeOK
  <2>1. 0 \in 0..MaxLsn /\ 0 \in 0..MaxTime
    BY <1>1
  <2>2. tail \in Seq(TailBatch) /\ Sorted(tail) /\ todo \in Seq(Lsns) /\ wal \in Seq({"row", "ddl"})
    BY DEF Init, Sorted
  <2> QED
    BY <1>2, <2>1, <2>2 DEF Init, TypeOK
<1>4. ChunkInv /\ SchemaInv /\ LakeInv
  BY <1>1 DEF Init, ChunkInv, SchemaInv, LakeInv
<1>5. TailInv
  BY DEF Init, TailInv, CommitsUpTo
<1>6. ClientInv /\ NoGap
  BY <1>2 DEF Init, ClientInv, NoGap
<1> QED
  BY <1>3, <1>4, <1>5, <1>6 DEF Inv

LEMMA InvNext == Inv /\ [Next]_vars => Inv'
<1> SUFFICES ASSUME Inv, [Next]_vars PROVE Inv'
  OBVIOUS
<1>1. CASE \E kind \in {"row", "ddl"} : Write(kind)
  BY <1>1, WriteStep
<1>2. CASE Tick
  BY <1>2, TickStep
<1>3. CASE (\E end \in Lsns : Receive(end)) \/ Keepalive \/ SetApplied
  BY <1>3, PositionActions
<1>4. CASE HandleRecord
  BY <1>4, HandledRow, HandledOther
<1>5. CASE FlushAppend
  BY <1>5, FlushAppendStep
<1>6. CASE FlushMark
  BY <1>6, FlushMarkStep
<1>7. CASE Remap
  BY <1>7, RemapStep
<1>8. CASE \E l \in 0..MaxLsn : Crash(l)
  BY <1>8, CrashStep
<1>9. CASE (\E l \in 0..MaxLsn : Ask(l)) \/ TimedOut
  BY <1>9, AskSteps
<1>10. CASE \E side \in {"tail", "delta"} : ReadFirst(side)
  BY <1>10, ReadFirstStep
<1>11. CASE ReadSecond
  BY <1>11, ReadSecondStep
<1>12. CASE UNCHANGED vars
  <2>1. UNCHANGED <<wal, now, todo, busy, walEnd, handled, remapAt, schema, pending, marking,
                    lake, tail, applied, client, crashes>>
    BY <1>12 DEF vars, source, engine
  <2>2. client \in ClientState /\ ClientInv' /\ NoGap'
    BY <2>1 DEF Inv, TypeOK, ClientInv, InTime, Undisturbed, Kept, NoGap
  <2> QED
    BY <2>1, <2>2, ClientOnly
<1> QED
  BY <1>1, <1>2, <1>3, <1>4, <1>5, <1>6, <1>7, <1>8, <1>9, <1>10, <1>11, <1>12, Zenon DEF Next

\* The invariant the properties are read off.
LEMMA FreshReadInv == Spec => []Inv
  BY InvInit, InvNext, PTL DEF Spec

-----------------------------------------------------------------------------
\* The theorems.

\* Every variable keeps its type; push, mark_flushed and enforce_cap keep the
\* tail oldest first, each commit once.
THEOREM TypeCorrect == Spec => []TypeOK
<1>1. Inv => TypeOK
  BY DEF Inv
<1> QED
  BY <1>1, FreshReadInv, PTL

\* Whatever the cap: a commit handled is in Delta or in the tail, and a pending
\* one in the tail.
THEOREM NeverLostHolds == Spec => []NeverLost
<1>1. Inv => NeverLost
  <2>1. SUFFICES ASSUME Inv PROVE NeverLost
    OBVIOUS
  <2>2. pending \subseteq TailLsns(tail)
    BY <2>1 DEF Inv, TailInv, Awaiting, TailLsns
  <2> QED
    BY <2>1, <2>2 DEF NeverLost, Inv, TailInv
<1> QED
  BY <1>1, FreshReadInv, PTL

\* A merged read has every commit handled when it began, in whichever order it
\* reads the two sides, under the conditions NoGap states.
THEOREM NoGapHolds == Spec => []NoGap
<1>1. Inv => NoGap
  BY DEF Inv
<1> QED
  BY <1>1, FreshReadInv, PTL
=============================================================================
