--------------------------- MODULE WalRecordProofs ---------------------------
(***************************************************************************)
(* parse_record inverts what Postgres assembles: for every well-formed     *)
(* record, of any number and size of blocks, parsing its bytes gives back  *)
(* its blocks, their page images and its main data.                        *)
(***************************************************************************)
EXTENDS WalRecord, WellFoundedInduction, TLAPS

\* Induction over Nat for a set.
LEMMA Inductive ==
    ASSUME NEW S, 0 \in S, \A n \in Nat : n \in S => n + 1 \in S
    PROVE  \A n \in Nat : n \in S
<1> DEFINE D == {n \in Nat : n \notin S}
<1>1. SUFFICES ASSUME D # {} PROVE FALSE
  OBVIOUS
<1>2. PICK d \in D : \A n \in D : <<n, d>> \notin OpToRel(<, Nat)
  BY <1>1, WFMin, NatLessThanWellFounded, Zenon
<1>3. \A n \in D : ~(n < d)
  BY <1>2, Zenon DEF OpToRel
<1>4. d \in Nat /\ d # 0
  OBVIOUS
<1>5. d - 1 \in Nat /\ d - 1 < d /\ (d - 1) + 1 = d
  BY <1>4
<1>6. d - 1 \in S
  BY <1>3, <1>5
<1> QED
  BY <1>5, <1>6

-----------------------------------------------------------------------------
\* Sequences of tokens.

\* A member of any set of sequences is a sequence of its own elements.
LEMMA SeqIs ==
    ASSUME NEW S, NEW s \in Seq(S)
    PROVE  IsSeq(s)
<1>1. Len(s) \in Nat /\ DOMAIN s = 1 .. Len(s) /\ s = [k \in 1 .. Len(s) |-> s[k]]
  OBVIOUS
<1> DEFINE T == {s[k] : k \in DOMAIN s}
<1>2. \A k \in 1 .. Len(s) : s[k] \in T
  BY <1>1
<1> HIDE DEF T
<1>3. [k \in 1 .. Len(s) |-> s[k]] \in Seq(T)
  BY <1>1, <1>2
<1> QED
  BY <1>1, <1>3 DEF IsSeq, T

\* Its length and domain.
LEMMA SeqLen ==
    ASSUME NEW s, IsSeq(s)
    PROVE  Len(s) \in Nat /\ DOMAIN s = 1 .. Len(s) /\ s = [k \in 1 .. Len(s) |-> s[k]]
<1>1. PICK S : s \in Seq(S)
  BY DEF IsSeq
<1> QED
  BY <1>1

\* Sequences with the same elements are equal.
LEMMA SeqEq ==
    ASSUME NEW s, NEW t, IsSeq(s), IsSeq(t), Len(s) = Len(t), \A k \in 1 .. Len(s) : s[k] = t[k]
    PROVE  s = t
<1>1. s = [k \in 1 .. Len(s) |-> s[k]] /\ t = [k \in 1 .. Len(t) |-> t[k]]
  BY SeqLen, Zenon
<1> QED
  BY <1>1

\* Two sequences are in the same set of sequences.
LEMMA SeqTogether ==
    ASSUME NEW s, NEW t, IsSeq(s), IsSeq(t)
    PROVE  \E S : s \in Seq(S) /\ t \in Seq(S)
<1>1. PICK S : s \in Seq(S)
  BY DEF IsSeq
<1>2. PICK T : t \in Seq(T)
  BY DEF IsSeq
<1>3. s \in Seq(S \cup T) /\ t \in Seq(S \cup T)
  BY <1>1, <1>2
<1> QED
  BY <1>3

\* A concatenation is one after the other.
LEMMA Concat ==
    ASSUME NEW s, NEW t, IsSeq(s), IsSeq(t)
    PROVE  /\ IsSeq(s \o t) /\ Len(s \o t) = Len(s) + Len(t)
           /\ \A k \in 1 .. Len(s) : (s \o t)[k] = s[k]
           /\ \A k \in 1 .. Len(t) : (s \o t)[Len(s) + k] = t[k]
<1>1. PICK S : s \in Seq(S) /\ t \in Seq(S)
  BY SeqTogether
<1>2. s \o t \in Seq(S)
  BY <1>1
<1>3. IsSeq(s \o t)
  BY <1>2, SeqIs
<1>4. /\ Len(s \o t) = Len(s) + Len(t)
      /\ \A k \in 1 .. Len(s) : (s \o t)[k] = s[k]
  BY <1>1
<1>5. ASSUME NEW k \in 1 .. Len(t) PROVE (s \o t)[Len(s) + k] = t[k]
  BY <1>1
<1> QED
  BY <1>3, <1>4, <1>5

\* A function on 1 .. n is a sequence.
LEMMA FunSeq ==
    ASSUME NEW n \in Nat, NEW f, f = [k \in 1 .. n |-> f[k]]
    PROVE  IsSeq(f) /\ Len(f) = n
<1> DEFINE T == {f[k] : k \in 1 .. n}
<1>1. \A k \in 1 .. n : f[k] \in T
  OBVIOUS
<1> HIDE DEF T
<1>2. f \in [1 .. n -> T]
  BY <1>1
<1>3. f \in Seq(T)
  BY <1>2
<1>4. Len(f) = n
  BY <1>2
<1> QED
  BY <1>3, <1>4, SeqIs

\* A part of a sequence.
LEMMA Part ==
    ASSUME NEW s, IsSeq(s), NEW i \in Nat, NEW j \in Nat, 1 <= i, i <= j + 1, j <= Len(s)
    PROVE  /\ IsSeq(SubSeq(s, i, j)) /\ Len(SubSeq(s, i, j)) = j + 1 - i
           /\ \A k \in 1 .. j + 1 - i : SubSeq(s, i, j)[k] = s[i - 1 + k]
<1>1. PICK S : s \in Seq(S)
  BY DEF IsSeq
<1>2. \A k \in i .. j : k \in 1 .. Len(s) /\ s[k] \in S
  BY <1>1
<1>3. SubSeq(s, i, j) \in Seq(S)
  BY <1>1
<1>4. Len(SubSeq(s, i, j)) = j + 1 - i
  BY <1>1
<1>5. \A k \in 1 .. j + 1 - i : SubSeq(s, i, j)[k] = s[i - 1 + k]
  BY <1>1
<1> QED
  BY <1>3, <1>4, <1>5, SeqIs

\* s stands in rec from position at on.
Lies(rec, at, s) ==
    /\ IsSeq(s) /\ at \in Nat /\ at + Len(s) <= Len(rec)
    /\ \A k \in 1 .. Len(s) : rec[at + k] = s[k]

\* So do the two halves of what stands there.
LEMMA LiesParts ==
    ASSUME NEW rec, NEW at, NEW s, NEW t, IsSeq(rec), IsSeq(s), IsSeq(t), Lies(rec, at, s \o t)
    PROVE  Lies(rec, at, s) /\ Lies(rec, at + Len(s), t)
<1>1. /\ Len(s \o t) = Len(s) + Len(t)
      /\ \A k \in 1 .. Len(s) : (s \o t)[k] = s[k]
      /\ \A k \in 1 .. Len(t) : (s \o t)[Len(s) + k] = t[k]
  BY Concat
<1>2. Len(s) \in Nat /\ Len(t) \in Nat /\ Len(rec) \in Nat /\ at \in Nat
  BY SeqLen DEF Lies
<1>3. \A k \in 1 .. Len(s) + Len(t) : rec[at + k] = (s \o t)[k]
  BY <1>1 DEF Lies
<1>4. at + (Len(s) + Len(t)) <= Len(rec)
  BY <1>1 DEF Lies
<1>5. ASSUME NEW k \in 1 .. Len(s) PROVE rec[at + k] = s[k]
  BY <1>1, <1>2, <1>3
<1>6. ASSUME NEW k \in 1 .. Len(t) PROVE rec[(at + Len(s)) + k] = t[k]
  <2>1. Len(s) + k \in 1 .. Len(s) + Len(t) /\ (at + Len(s)) + k = at + (Len(s) + k)
    BY <1>2
  <2>2. rec[at + (Len(s) + k)] = (s \o t)[Len(s) + k]
    BY <1>3, <2>1
  <2> QED
    BY <1>1, <2>1, <2>2
<1> QED
  BY <1>2, <1>4, <1>5, <1>6 DEF Lies

\* What stands there is cut out again.
LEMMA LiesCut ==
    ASSUME NEW rec, NEW at, NEW s, IsSeq(rec), Lies(rec, at, s)
    PROVE  SubSeq(rec, at + 1, at + Len(s)) = s
<1>1. /\ IsSeq(s) /\ at \in Nat /\ at + Len(s) <= Len(rec)
      /\ \A k \in 1 .. Len(s) : rec[at + k] = s[k]
  BY DEF Lies
<1>2. Len(s) \in Nat
  BY <1>1, SeqLen
<1>3. PICK t : t = SubSeq(rec, at + 1, at + Len(s))
  OBVIOUS
<1>4. IsSeq(t) /\ Len(t) = Len(s) /\ \A k \in 1 .. Len(s) : t[k] = rec[at + k]
  <2>1. Len(rec) \in Nat
    BY SeqLen
  <2>2. /\ at + 1 \in Nat /\ at + Len(s) \in Nat /\ 1 <= at + 1 /\ at + 1 <= (at + Len(s)) + 1
        /\ (at + Len(s)) + 1 - (at + 1) = Len(s)
    BY <1>1, <1>2
  <2>3. /\ IsSeq(t) /\ Len(t) = (at + Len(s)) + 1 - (at + 1)
        /\ \A k \in 1 .. (at + Len(s)) + 1 - (at + 1) : t[k] = rec[(at + 1) - 1 + k]
    BY <1>1, <1>3, <2>2, Part
  <2> QED
    BY <1>1, <1>2, <2>2, <2>3
<1> QED
  BY <1>1, <1>3, <1>4, SeqEq

\* Joining the sequences G[1], G[2], ...: what stands before each of them.
Parts(G, n) == \A k \in 1 .. n : IsSeq(G[k])
Joins(J, G, n) ==
    J = [k \in 0 .. n |-> IF k = 0 THEN <<>> ELSE J[k - 1] \o G[k]]

\* There is a function that joins.
LEMMA JoinExists ==
    ASSUME NEW n \in Nat, NEW G
    PROVE  \E J : Joins(J, G, n)
<1> DEFINE S == {m \in Nat : \E J : Joins(J, G, m)}
<1>1. 0 \in S
  <2>1. Joins([k \in 0 .. 0 |-> <<>>], G, 0)
    BY DEF Joins
  <2> QED
    BY <2>1
<1>2. ASSUME NEW m \in Nat, m \in S PROVE m + 1 \in S
  <2>1. PICK J : Joins(J, G, m)
    BY <1>2
  <2>2. PICK e : e = J[m] \o G[m + 1]
    OBVIOUS
  <2> DEFINE h == [k \in 0 .. m + 1 |-> IF k = m + 1 THEN e ELSE J[k]]
  <2>3. ASSUME NEW k \in 0 .. m + 1
        PROVE  h[k] = IF k = 0 THEN <<>> ELSE h[k - 1] \o G[k]
    <3>1. CASE k = m + 1
      <4>1. k # 0 /\ k - 1 = m /\ k - 1 \in 0 .. m + 1 /\ k - 1 # m + 1
        BY <3>1
      <4>2. h[k - 1] = J[m] /\ h[k] = e
        BY <3>1, <4>1
      <4> QED
        BY <2>2, <3>1, <4>1, <4>2
    <3>2. CASE k # m + 1
      <4>1. k \in 0 .. m
        BY <3>2
      <4>2. h[k] = J[k] /\ J[k] = IF k = 0 THEN <<>> ELSE J[k - 1] \o G[k]
        BY <2>1, <3>2, <4>1 DEF Joins
      <4>3. k # 0 => h[k - 1] = J[k - 1]
        BY <4>1
      <4> QED
        BY <4>2, <4>3
    <3> QED
      BY <3>1, <3>2
  <2>4. Joins(h, G, m + 1)
    BY <2>3 DEF Joins
  <2> HIDE DEF h
  <2>5. (m + 1 \in Nat) /\ \E J2 : Joins(J2, G, m + 1)
    BY <2>4
  <2> QED
    BY <2>5
<1> HIDE DEF S
<1>3. n \in S
  BY <1>1, <1>2, Inductive
<1> QED
  BY <1>3 DEF S

\* The parts of a joined sequence.
LEMMA JoinIs ==
    ASSUME NEW n \in Nat, NEW G, Parts(G, n), NEW J, Joins(J, G, n)
    PROVE  /\ J[0] = <<>> /\ Len(J[0]) = 0
           /\ \A k \in 0 .. n : IsSeq(J[k]) /\ Len(J[k]) \in Nat
           /\ \A k \in 1 .. n : J[k] = J[k - 1] \o G[k] /\ Len(J[k]) = Len(J[k - 1]) + Len(G[k])
<1>1. J[0] = <<>>
  BY DEF Joins
<1>2. \A k \in 1 .. n : J[k] = J[k - 1] \o G[k]
  BY DEF Joins
<1> USE DEF Parts
<1> DEFINE S == {m \in Nat : m <= n => IsSeq(J[m])}
<1>3. 0 \in S
  <2>1. <<>> \in Seq({})
    OBVIOUS
  <2>2. IsSeq(<<>>)
    BY <2>1, SeqIs
  <2> QED
    BY <1>1, <2>2
<1>4. ASSUME NEW m \in Nat, m \in S PROVE m + 1 \in S
  <2> SUFFICES ASSUME m + 1 <= n PROVE IsSeq(J[m + 1])
    OBVIOUS
  <2>1. IsSeq(J[m]) /\ m + 1 \in 1 .. n /\ (m + 1) - 1 = m
    BY <1>4
  <2>2. J[m + 1] = J[m] \o G[m + 1] /\ IsSeq(G[m + 1])
    BY <1>2, <2>1
  <2> QED
    BY <2>1, <2>2, Concat
<1>5. \A m \in Nat : m \in S
  <2> HIDE DEF S
  <2> QED
    BY <1>3, <1>4, Inductive
<1>6. \A k \in 0 .. n : IsSeq(J[k]) /\ Len(J[k]) \in Nat
  BY <1>5, SeqLen
<1>7. ASSUME NEW k \in 1 .. n PROVE Len(J[k]) = Len(J[k - 1]) + Len(G[k])
  <2>1. IsSeq(J[k - 1]) /\ IsSeq(G[k]) /\ J[k] = J[k - 1] \o G[k]
    <3>1. k - 1 \in 0 .. n
      OBVIOUS
    <3> QED
      BY <1>2, <1>6, <3>1, Zenon
  <2> QED
    BY <2>1, Concat
<1> QED
  BY <1>1, <1>2, <1>6, <1>7

\* Each part stands where the ones before it end.
LEMMA JoinLies ==
    ASSUME NEW n \in Nat, NEW G, Parts(G, n), NEW J, Joins(J, G, n),
           NEW rec, NEW at, IsSeq(rec), Lies(rec, at, J[n])
    PROVE  \A k \in 1 .. n : Lies(rec, at + Len(J[k - 1]), G[k])
<1>1. /\ \A k \in 0 .. n : IsSeq(J[k]) /\ Len(J[k]) \in Nat
      /\ \A k \in 1 .. n : J[k] = J[k - 1] \o G[k]
  <2>1. /\ J[0] = <<>> /\ Len(J[0]) = 0
        /\ \A k \in 0 .. n : IsSeq(J[k]) /\ Len(J[k]) \in Nat
        /\ \A k \in 1 .. n : J[k] = J[k - 1] \o G[k] /\ Len(J[k]) = Len(J[k - 1]) + Len(G[k])
    BY JoinIs, Zenon
  <2> QED
    BY <2>1, Zenon
<1> USE DEF Parts
<1> DEFINE S == {m \in Nat : m <= n => Lies(rec, at, J[n - m])}
<1>2. 0 \in S
  OBVIOUS
<1>3. ASSUME NEW m \in Nat, m \in S PROVE m + 1 \in S
  <2> SUFFICES ASSUME m + 1 <= n PROVE Lies(rec, at, J[n - (m + 1)])
    OBVIOUS
  <2>1. PICK k \in 1 .. n : k = n - m /\ k - 1 = n - (m + 1) /\ k - 1 \in 0 .. n
    OBVIOUS
  <2>2. Lies(rec, at, J[k])
    BY <1>3, <2>1
  <2>3. Lies(rec, at, J[k - 1] \o G[k]) /\ IsSeq(J[k - 1]) /\ IsSeq(G[k])
    BY <1>1, <2>1, <2>2
  <2> QED
    BY <2>1, <2>3, LiesParts
<1>4. \A m \in Nat : m \in S
  <2> HIDE DEF S
  <2> QED
    BY <1>2, <1>3, Inductive
<1>5. ASSUME NEW k \in 1 .. n PROVE Lies(rec, at + Len(J[k - 1]), G[k])
  <2>1. n - k \in Nat /\ n - k <= n /\ n - (n - k) = k
    OBVIOUS
  <2>2. Lies(rec, at, J[k])
    BY <1>4, <2>1
  <2>3. Lies(rec, at, J[k - 1] \o G[k]) /\ IsSeq(J[k - 1]) /\ IsSeq(G[k])
    <3>1. k - 1 \in 0 .. n
      OBVIOUS
    <3> QED
      BY <1>1, <2>2, <3>1, Zenon
  <2> QED
    BY <2>3, LiesParts
<1> QED
  BY <1>5

-----------------------------------------------------------------------------
\* Page images.

\* The page without its hole.
LEMMA BodyIs ==
    ASSUME NEW img, IsImage(img), BlckSz \in Nat
    PROVE  /\ IsSeq(Body(img)) /\ Len(Body(img)) = BlckSz - img.hole
           /\ \A k \in 1 .. img.off : Body(img)[k] = img.page[k]
           /\ \A k \in img.off + 1 .. BlckSz - img.hole : Body(img)[k] = img.page[k + img.hole]
<1>1. PICK p, o, h : p = img.page /\ o = img.off /\ h = img.hole
  OBVIOUS
<1>2. IsSeq(p) /\ Len(p) = BlckSz /\ o \in Nat /\ h \in Nat /\ o + h <= BlckSz
  BY <1>1 DEF IsImage
<1>3. PICK n \in Nat : n = BlckSz - (o + h) /\ (o + h) + n = BlckSz /\ o + n = BlckSz - h
  BY <1>2
<1>4. PICK s, t : s = SubSeq(p, 1, o) /\ t = SubSeq(p, o + h + 1, BlckSz)
  OBVIOUS
<1>5. IsSeq(s) /\ Len(s) = o /\ \A k \in 1 .. o : s[k] = p[k]
  BY <1>2, <1>4, Part
<1>6. IsSeq(t) /\ Len(t) = n /\ \A k \in 1 .. n : t[k] = p[(o + h) + k]
  BY <1>2, <1>3, <1>4, Part
<1>7. Body(img) = s \o t
  BY <1>1, <1>4 DEF Body
<1>8. /\ IsSeq(s \o t) /\ Len(s \o t) = Len(s) + Len(t)
      /\ \A k \in 1 .. Len(s) : (s \o t)[k] = s[k]
      /\ \A k \in 1 .. Len(t) : (s \o t)[Len(s) + k] = t[k]
  BY <1>5, <1>6, Concat
<1>9. \A k \in 1 .. o : (s \o t)[k] = p[k]
  BY <1>5, <1>8
<1>10. ASSUME NEW k \in o + 1 .. BlckSz - h PROVE (s \o t)[k] = p[k + h]
  <2>1. PICK j \in 1 .. n : j = k - o /\ o + j = k /\ (o + h) + j = k + h
    BY <1>2, <1>3
  <2>2. (s \o t)[o + j] = t[j] /\ t[j] = p[(o + h) + j]
    BY <1>5, <1>6, <1>8
  <2> QED
    BY <2>1, <2>2
<1> QED
  BY <1>1, <1>3, <1>5, <1>6, <1>7, <1>8, <1>9, <1>10

\* restore() puts the hole back where it was.
LEMMA RestoreIs ==
    ASSUME NEW img, IsImage(img), BlckSz \in Nat
    PROVE  Restore(Body(img), img.off, img.hole) = img.page
<1>1. PICK p, o, h, b : p = img.page /\ o = img.off /\ h = img.hole /\ b = Body(img)
  OBVIOUS
<1>2. /\ IsSeq(p) /\ Len(p) = BlckSz /\ o \in Nat /\ h \in Nat /\ o + h <= BlckSz
      /\ \A c \in o + 1 .. o + h : p[c] = Zero
  BY <1>1 DEF IsImage
<1>3. /\ IsSeq(b) /\ Len(b) = BlckSz - h
      /\ \A k \in 1 .. o : b[k] = p[k]
      /\ \A k \in o + 1 .. BlckSz - h : b[k] = p[k + h]
  BY <1>1, BodyIs
<1>4. PICK n \in Nat : n = BlckSz - (o + h) /\ o + n = Len(b) /\ o + n = BlckSz - h
  BY <1>2, <1>3
<1>5. PICK s, z, t : s = SubSeq(b, 1, o) /\ z = [k \in 1 .. h |-> Zero] /\ t = SubSeq(b, o + 1, Len(b))
  OBVIOUS
<1>6. IsSeq(s) /\ Len(s) = o /\ \A k \in 1 .. o : s[k] = b[k]
  BY <1>2, <1>3, <1>4, <1>5, Part
<1>7. IsSeq(z) /\ Len(z) = h /\ \A k \in 1 .. h : z[k] = Zero
  <2>1. \A k \in 1 .. h : z[k] = Zero
    BY <1>5
  <2>2. z = [k \in 1 .. h |-> z[k]]
    BY <1>5
  <2> QED
    BY <1>2, <2>1, <2>2, FunSeq
<1>8. IsSeq(t) /\ Len(t) = n /\ \A k \in 1 .. n : t[k] = b[o + k]
  BY <1>2, <1>3, <1>4, <1>5, Part
<1>9. Restore(b, o, h) = s \o z \o t
  <2>1. Len(b) + h = BlckSz /\ ~(o + h > BlckSz)
    BY <1>2, <1>3
  <2> QED
    BY <1>5, <2>1 DEF Restore
<1>10. PICK u : u = s \o z
  OBVIOUS
<1>11. /\ IsSeq(u) /\ Len(u) = o + h
       /\ \A k \in 1 .. o : u[k] = s[k]
       /\ \A k \in 1 .. h : u[o + k] = z[k]
  <2>1. /\ IsSeq(s \o z) /\ Len(s \o z) = Len(s) + Len(z)
        /\ \A k \in 1 .. Len(s) : (s \o z)[k] = s[k]
        /\ \A k \in 1 .. Len(z) : (s \o z)[Len(s) + k] = z[k]
    BY <1>6, <1>7, Concat
  <2> QED
    BY <1>6, <1>7, <1>10, <2>1
<1>12. PICK v : v = u \o t
  OBVIOUS
<1>13. /\ IsSeq(v) /\ Len(v) = (o + h) + n
       /\ \A k \in 1 .. o + h : v[k] = u[k]
       /\ \A k \in 1 .. n : v[(o + h) + k] = t[k]
  <2>1. /\ IsSeq(u \o t) /\ Len(u \o t) = Len(u) + Len(t)
        /\ \A k \in 1 .. Len(u) : (u \o t)[k] = u[k]
        /\ \A k \in 1 .. Len(t) : (u \o t)[Len(u) + k] = t[k]
    BY <1>8, <1>11, Concat
  <2> QED
    BY <1>8, <1>11, <1>12, <2>1
<1>14. ASSUME NEW k \in 1 .. BlckSz PROVE v[k] = p[k]
  <2>1. CASE k <= o
    <3>1. k \in 1 .. o /\ k \in 1 .. o + h
      BY <1>2, <2>1
    <3> QED
      BY <1>3, <1>6, <1>11, <1>13, <3>1
  <2>2. CASE o < k /\ k <= o + h
    <3>1. PICK j \in 1 .. h : j = k - o /\ o + j = k
      BY <1>2, <2>2
    <3>2. k \in 1 .. o + h /\ k \in o + 1 .. o + h
      BY <1>2, <2>2
    <3>3. v[k] = u[o + j] /\ u[o + j] = z[j] /\ z[j] = Zero /\ p[k] = Zero
      BY <1>2, <1>7, <1>11, <1>13, <3>1, <3>2
    <3> QED
      BY <3>3
  <2>3. CASE o + h < k
    <3>1. PICK j \in 1 .. n : j = k - (o + h) /\ (o + h) + j = k
      BY <1>2, <1>4, <2>3
    <3>2. o + j \in o + 1 .. BlckSz - h /\ (o + j) + h = k
      BY <1>2, <1>4, <3>1
    <3>3. v[k] = t[j] /\ t[j] = b[o + j] /\ b[o + j] = p[k]
      BY <1>3, <1>8, <1>13, <3>1, <3>2
    <3> QED
      BY <3>3
  <2> QED
    BY <1>2, <2>1, <2>2, <2>3
<1>15. v = p
  <2>1. Len(v) = BlckSz
    BY <1>2, <1>4, <1>13
  <2> QED
    BY <1>2, <1>13, <1>14, <2>1, SeqEq
<1> QED
  BY <1>1, <1>9, <1>10, <1>12, <1>15

-----------------------------------------------------------------------------
\* Block headers and payloads.

\* The empty sequence and a single token.
LEMMA Single == /\ IsSeq(<<>>) /\ Len(<<>>) = 0
                /\ \A x : IsSeq(<<x>>) /\ Len(<<x>>) = 1 /\ <<x>>[1] = x
<1>1. IsSeq(<<>>) /\ Len(<<>>) = 0
  <2>1. <<>> \in Seq({})
    OBVIOUS
  <2> QED
    BY <2>1, SeqIs
<1>2. ASSUME NEW x PROVE IsSeq(<<x>>) /\ Len(<<x>>) = 1 /\ <<x>>[1] = x
  <2>1. <<x>> \in Seq({x})
    OBVIOUS
  <2> QED
    BY <2>1, SeqIs
<1> QED
  BY <1>1, <1>2

ImgLen(b) == IF b.image = Null THEN 0 ELSE Len(ImageData(b.image))

\* What the data section holds of an image.
LEMMA ImageDataIs ==
    ASSUME NEW img, IsImage(img)
    PROVE  /\ IsSeq(ImageData(img)) /\ Len(ImageData(img)) \in Nat
           /\ img.packed => ImageData(img)[1][2] = Body(img) /\ Len(ImageData(img)) = 1
           /\ ~img.packed => ImageData(img) = Body(img) /\ Len(ImageData(img)) = BlckSz - img.hole
<1> USE WalRecordAssumption
<1>1. IsSeq(Body(img)) /\ Len(Body(img)) = BlckSz - img.hole
  BY BodyIs
<1>2. img.packed \in BOOLEAN
  BY DEF IsImage
<1>3. CASE img.packed
  <2>1. PICK x : x = <<"packed", Body(img)>>
    OBVIOUS
  <2>2. x[2] = Body(img)
    BY <2>1
  <2>3. ImageData(img) = <<x>>
    BY <1>3, <2>1 DEF ImageData
  <2>4. IsSeq(<<x>>) /\ Len(<<x>>) = 1 /\ <<x>>[1] = x
    BY Single, Zenon
  <2> QED
    BY <1>3, <2>2, <2>3, <2>4
<1>4. CASE ~img.packed
  <2>1. ImageData(img) = Body(img)
    BY <1>4 DEF ImageData
  <2> QED
    BY <1>1, <1>4, <2>1, SeqLen
<1> QED
  BY <1>2, <1>3, <1>4

\* The payload of a block: its image, then its data.
LEMMA PayloadIs ==
    ASSUME NEW b, IsBlock(b)
    PROVE  /\ IsSeq(BlockPayload(b)) /\ ImgLen(b) \in Nat /\ Len(b.data) \in Nat
           /\ Len(BlockPayload(b)) = ImgLen(b) + Len(b.data)
           /\ \E s : /\ IsSeq(s) /\ Len(s) = ImgLen(b) /\ BlockPayload(b) = s \o b.data
                     /\ b.image # Null => s = ImageData(b.image)
<1>1. IsSeq(b.data) /\ (b.image # Null => IsImage(b.image))
  BY DEF IsBlock
<1>2. PICK s : s = IF b.image = Null THEN <<>> ELSE ImageData(b.image)
  OBVIOUS
<1>3. IsSeq(s) /\ Len(s) = ImgLen(b) /\ ImgLen(b) \in Nat
  <2>1. CASE b.image = Null
    BY <1>2, <2>1, Single DEF ImgLen
  <2>2. CASE b.image # Null
    <3>1. IsSeq(ImageData(b.image)) /\ Len(ImageData(b.image)) \in Nat
      BY <1>1, <2>2, ImageDataIs
    <3> QED
      BY <1>2, <2>2, <3>1 DEF ImgLen
  <2> QED
    BY <2>1, <2>2
<1>4. BlockPayload(b) = s \o b.data
  BY <1>2 DEF BlockPayload
<1>5. IsSeq(s \o b.data) /\ Len(s \o b.data) = Len(s) + Len(b.data)
  BY <1>1, <1>3, Concat
<1>6. Len(b.data) \in Nat
  BY <1>1, SeqLen
<1> QED
  BY <1>2, <1>3, <1>4, <1>5, <1>6

\* The tokens of a block header and where the optional ones stand.
BlockToken(b) == <<"block", b.id, b.image # Null, b.data # <<>>, b.same, Len(b.data)>>
ImageToken(img) == <<"imghdr", Len(ImageData(img)), img.off, img.hole > 0, img.packed>>
Explicit(b) == b.image # Null /\ b.image.packed /\ b.image.hole > 0
NImage(b) == IF b.image # Null THEN 1 ELSE 0
NHole(b) == IF Explicit(b) THEN 1 ELSE 0
NRel(b) == IF b.same THEN 0 ELSE 1

LEMMA HeaderIs ==
    ASSUME NEW b, IsBlock(b)
    PROVE  /\ IsSeq(BlockHeader(b)) /\ Len(BlockHeader(b)) = NImage(b) + NHole(b) + NRel(b) + 2
           /\ BlockHeader(b)[1] = BlockToken(b)
           /\ b.image # Null => BlockHeader(b)[2] = ImageToken(b.image)
           /\ Explicit(b) => BlockHeader(b)[3] = <<"hole", b.image.hole>>
           /\ ~b.same => BlockHeader(b)[NImage(b) + NHole(b) + 2] = <<"rel", b.rel>>
           /\ BlockHeader(b)[NImage(b) + NHole(b) + NRel(b) + 2] = <<"blkno", b.blkno>>
<1>1. PICK tb, ti, th, tr, tk : /\ tb = BlockToken(b) /\ ti = ImageToken(b.image)
                                /\ th = <<"hole", b.image.hole>>
                                /\ tr = <<"rel", b.rel>> /\ tk = <<"blkno", b.blkno>>
  OBVIOUS
<1>2. PICK C : C = IF Explicit(b) THEN <<th>> ELSE <<>>
  OBVIOUS
<1>3. PICK B : B = IF b.image = Null THEN <<>> ELSE <<ti>> \o C
  OBVIOUS
<1>4. PICK D : D = IF b.same THEN <<>> ELSE <<tr>>
  OBVIOUS
<1>5. BlockHeader(b) = ((<<tb>> \o B) \o D) \o <<tk>>
  <2>1. b.image # Null => C = IF b.image.packed /\ b.image.hole > 0 THEN <<th>> ELSE <<>>
    BY <1>2 DEF Explicit
  <2>2. B = IF b.image = Null THEN <<>>
            ELSE <<ti>> \o (IF b.image.packed /\ b.image.hole > 0 THEN <<th>> ELSE <<>>)
    BY <1>3, <2>1
  <2> QED
    BY <1>1, <1>4, <2>2 DEF BlockHeader, BlockToken, ImageToken
<1>6. PICK i, e, q \in {0, 1} : i = NImage(b) /\ e = NHole(b) /\ q = NRel(b)
  BY DEF NImage, NHole, NRel
<1>7. IsSeq(C) /\ Len(C) = e /\ (Explicit(b) => C[1] = th)
  BY <1>2, <1>6, Single DEF NHole
<1>8. IsSeq(D) /\ Len(D) = q /\ (~b.same => D[1] = tr)
  BY <1>4, <1>6, Single DEF NRel
<1>9. /\ IsSeq(B) /\ Len(B) = i + e
      /\ b.image # Null => B[1] = ti
      /\ Explicit(b) => B[2] = th
  <2>1. CASE b.image = Null
    BY <1>3, <1>6, <2>1, Single DEF NImage, NHole, Explicit
  <2>2. CASE b.image # Null
    <3>1. IsSeq(<<ti>>) /\ Len(<<ti>>) = 1 /\ <<ti>>[1] = ti
      BY Single, Zenon
    <3>2. PICK u : u = <<ti>>
      OBVIOUS
    <3>3. /\ IsSeq(u \o C) /\ Len(u \o C) = Len(u) + Len(C)
          /\ \A k \in 1 .. Len(u) : (u \o C)[k] = u[k]
          /\ \A k \in 1 .. Len(C) : (u \o C)[Len(u) + k] = C[k]
      BY <1>7, <3>1, <3>2, Concat
    <3>4. B = u \o C /\ i = 1 /\ Len(u) = 1 /\ u[1] = ti
      BY <1>3, <1>6, <2>2, <3>1, <3>2 DEF NImage
    <3>5. Explicit(b) => e = 1
      BY <1>6 DEF NHole
    <3> QED
      BY <1>6, <1>7, <2>2, <3>3, <3>4, <3>5
  <2> QED
    BY <2>1, <2>2
<1>10. PICK u, v : u = <<tb>> /\ v = <<tk>>
  OBVIOUS
<1>11. /\ IsSeq(u) /\ Len(u) = 1 /\ u[1] = tb
       /\ IsSeq(v) /\ Len(v) = 1 /\ v[1] = tk
  BY <1>10, Single
<1>12. PICK x : x = u \o B
  OBVIOUS
<1>13. /\ IsSeq(x) /\ Len(x) = 1 + (i + e)
       /\ x[1] = tb
       /\ b.image # Null => x[2] = ti
       /\ Explicit(b) => x[3] = th
  <2>1. /\ IsSeq(u \o B) /\ Len(u \o B) = Len(u) + Len(B)
        /\ \A k \in 1 .. Len(u) : (u \o B)[k] = u[k]
        /\ \A k \in 1 .. Len(B) : (u \o B)[Len(u) + k] = B[k]
    <3>1. IsSeq(u) /\ IsSeq(B)
      BY <1>9, <1>11
    <3> QED
      BY <3>1, Concat
  <2>2. IsSeq(x) /\ Len(x) = 1 + (i + e) /\ x[1] = u[1] /\ \A k \in 1 .. i + e : x[1 + k] = B[k]
    BY <1>6, <1>9, <1>11, <1>12, <2>1
  <2>3. /\ b.image # Null => i = 1
        /\ Explicit(b) => i = 1 /\ e = 1
    BY <1>6 DEF NImage, NHole, Explicit
  <2>4. b.image # Null => x[2] = ti
    BY <1>6, <1>9, <2>2, <2>3
  <2>5. Explicit(b) => x[3] = th
    BY <1>6, <1>9, <2>2, <2>3
  <2> QED
    BY <1>11, <2>2, <2>4, <2>5
<1>14. PICK y : y = x \o D
  OBVIOUS
<1>15. /\ IsSeq(y) /\ Len(y) = 1 + (i + e) + q
       /\ \A k \in 1 .. 1 + (i + e) : y[k] = x[k]
       /\ ~b.same => y[1 + (i + e) + 1] = tr
  <2>1. /\ IsSeq(x \o D) /\ Len(x \o D) = Len(x) + Len(D)
        /\ \A k \in 1 .. Len(x) : (x \o D)[k] = x[k]
        /\ \A k \in 1 .. Len(D) : (x \o D)[Len(x) + k] = D[k]
    BY <1>8, <1>13, Concat
  <2>2. ~b.same => q = 1
    BY <1>6 DEF NRel
  <2> QED
    BY <1>6, <1>8, <1>13, <1>14, <2>1, <2>2
<1>16. PICK z : z = y \o v
  OBVIOUS
<1>17. /\ IsSeq(z) /\ Len(z) = 1 + (i + e) + q + 1
       /\ \A k \in 1 .. 1 + (i + e) + q : z[k] = y[k]
       /\ z[1 + (i + e) + q + 1] = tk
  <2>1. /\ IsSeq(y \o v) /\ Len(y \o v) = Len(y) + Len(v)
        /\ \A k \in 1 .. Len(y) : (y \o v)[k] = y[k]
        /\ \A k \in 1 .. Len(v) : (y \o v)[Len(y) + k] = v[k]
    <3>1. IsSeq(y) /\ IsSeq(v)
      BY <1>11, <1>15
    <3> QED
      BY <3>1, Concat
  <2> QED
    BY <1>6, <1>11, <1>15, <1>16, <2>1
<1>18. BlockHeader(b) = z
  BY <1>5, <1>10, <1>12, <1>14, <1>16
<1>19. z[1] = tb
  <2>1. 1 \in 1 .. 1 + (i + e) + q /\ 1 \in 1 .. 1 + (i + e)
    BY <1>6
  <2>2. z[1] = y[1] /\ y[1] = x[1]
    BY <1>15, <1>17, <2>1
  <2> QED
    BY <1>13, <2>2
<1>20. b.image # Null => z[2] = ti
  <2>1. b.image # Null => i = 1
    BY <1>6 DEF NImage
  <2> QED
    BY <1>6, <1>13, <1>15, <1>17, <2>1
<1>21. Explicit(b) => z[3] = th
  <2>1. Explicit(b) => i = 1 /\ e = 1
    BY <1>6 DEF NImage, NHole, Explicit
  <2> QED
    BY <1>6, <1>13, <1>15, <1>17, <2>1
<1>22. ~b.same => z[i + e + 2] = tr
  <2>1. ~b.same => q = 1
    BY <1>6 DEF NRel
  <2>2. 1 + (i + e) + 1 = i + e + 2
    BY <1>6
  <2>3. ~b.same => i + e + 2 \in 1 .. 1 + (i + e) + q
    BY <1>6, <2>1
  <2>4. ~b.same => z[i + e + 2] = y[i + e + 2]
    BY <1>17, <2>3
  <2>5. ~b.same => y[i + e + 2] = tr
    BY <1>15, <2>2
  <2> QED
    BY <2>4, <2>5
<1>23. z[i + e + q + 2] = tk /\ Len(z) = i + e + q + 2
  <2>1. 1 + (i + e) + q + 1 = i + e + q + 2
    BY <1>6
  <2> QED
    BY <1>17, <2>1
<1> QED
  BY <1>1, <1>6, <1>17, <1>18, <1>19, <1>20, <1>21, <1>22, <1>23

\* What the header of a block says.
Parsed(b) ==
    [id |-> b.id, rel |-> b.rel, blkno |-> b.blkno,
     hasImage |-> b.image # Null, imageLen |-> ImgLen(b),
     off |-> IF b.image # Null THEN b.image.off ELSE 0,
     hole |-> IF b.image # Null THEN b.image.hole ELSE 0,
     packed |-> b.image # Null /\ b.image.packed,
     dataLen |-> Len(b.data)]

State(o, B, m, t, p) == [off |-> o, blocks |-> B, main |-> m, total |-> t, rel |-> p]

\* The hole an image header announces, in either form.
LEMMA HoleIs ==
    ASSUME NEW img, IsImage(img)
    PROVE  /\ ~(img.hole > 0) => img.hole = 0
           /\ img.hole > 0 /\ ~img.packed => BlckSz - Len(ImageData(img)) = img.hole
<1> USE WalRecordAssumption
<1>1. img.hole \in Nat
  BY DEF IsImage
<1>2. ~img.packed => Len(ImageData(img)) = BlckSz - img.hole
  BY ImageDataIs
<1> QED
  BY <1>1, <1>2

\* One round of the header loop on a block header reads what was written.
LEMMA TakeIs ==
    ASSUME NEW rec, IsSeq(rec), NEW b, IsBlock(b),
           NEW o \in Nat, NEW B, NEW m, NEW t \in Nat, NEW p,
           Lies(rec, o, BlockHeader(b)), b.same => p = b.rel
    PROVE  TakeItem(rec, State(o, B, m, t, p))
             = State(o + Len(BlockHeader(b)), Append(B, Parsed(b)), m,
                     t + Len(BlockPayload(b)), b.rel)
<1>1. PICK i, e, q \in {0, 1} : i = NImage(b) /\ e = NHole(b) /\ q = NRel(b)
  BY DEF NImage, NHole, NRel
<1>2. PICK hd : hd = BlockHeader(b)
  OBVIOUS
<1>3. /\ Len(hd) = i + e + q + 2
      /\ hd[1] = BlockToken(b)
      /\ b.image # Null => hd[2] = ImageToken(b.image)
      /\ Explicit(b) => hd[3] = <<"hole", b.image.hole>>
      /\ ~b.same => hd[i + e + 2] = <<"rel", b.rel>>
      /\ hd[i + e + q + 2] = <<"blkno", b.blkno>>
  BY <1>1, <1>2, HeaderIs
<1>4. \A k \in 1 .. Len(hd) : rec[o + k] = hd[k]
  BY <1>2 DEF Lies
<1>5. /\ b.image # Null => i = 1
      /\ b.image = Null => i = 0
      /\ Explicit(b) => i = 1 /\ e = 1
      /\ ~Explicit(b) => e = 0
      /\ b.same => q = 0
      /\ ~b.same => q = 1
  BY <1>1 DEF NImage, NHole, NRel, Explicit
<1>6. rec[o + 1] = BlockToken(b)
  <2>1. 1 \in 1 .. Len(hd)
    BY <1>1, <1>3
  <2> QED
    BY <1>3, <1>4, <2>1
<1>7. b.image # Null => rec[o + 2] = ImageToken(b.image)
  <2>1. b.image # Null => 2 \in 1 .. Len(hd)
    BY <1>1, <1>3, <1>5
  <2> QED
    BY <1>3, <1>4, <2>1
<1>8. Explicit(b) => rec[o + 3] = <<"hole", b.image.hole>>
  <2>1. Explicit(b) => 3 \in 1 .. Len(hd)
    BY <1>1, <1>3, <1>5
  <2> QED
    BY <1>3, <1>4, <2>1
<1>9. ~b.same => rec[o + (i + e + 2)] = <<"rel", b.rel>>
  <2>1. PICK k : k = i + e + 2
    OBVIOUS
  <2>2. ~b.same => k \in 1 .. Len(hd)
    BY <1>1, <1>3, <1>5, <2>1
  <2>3. ~b.same => hd[k] = <<"rel", b.rel>>
    BY <1>3, <2>1
  <2> QED
    BY <1>4, <2>1, <2>2, <2>3
<1>10. rec[o + (i + e + q + 2)] = <<"blkno", b.blkno>>
  <2>1. i + e + q + 2 \in 1 .. Len(hd)
    BY <1>1, <1>3
  <2> QED
    BY <1>3, <1>4, <2>1
<1>11. PICK w : w = BlockToken(b)
  OBVIOUS
<1>12. /\ w[1] = "block" /\ w[2] = b.id /\ w[3] = (b.image # Null) /\ w[4] = (b.data # <<>>)
       /\ w[5] = b.same /\ w[6] = Len(b.data)
  BY <1>11 DEF BlockToken
<1>13. PICK g : g = ImageToken(b.image)
  OBVIOUS
<1>14. /\ g[2] = Len(ImageData(b.image)) /\ g[3] = b.image.off
       /\ g[4] = (b.image.hole > 0) /\ g[5] = b.image.packed
  BY <1>13 DEF ImageToken
<1>15. b.same \in BOOLEAN /\ IsSeq(b.data) /\ (b.image # Null => IsImage(b.image))
  BY DEF IsBlock
<1>16. b.image # Null => b.image.packed \in BOOLEAN /\ b.image.hole \in Nat
  BY <1>15 DEF IsImage
<1>17. (IF w[4] THEN w[6] ELSE 0) = Len(b.data)
  BY <1>12, Single
<1>18. (IF w[3] THEN g[2] ELSE 0) = ImgLen(b)
  BY <1>12, <1>14 DEF ImgLen
<1>19. Len(BlockPayload(b)) = ImgLen(b) + Len(b.data) /\ ImgLen(b) \in Nat /\ Len(b.data) \in Nat
  BY PayloadIs
<1> DEFINE s == State(o, B, m, t, p)
<1>20. s.off = o /\ s.blocks = B /\ s.main = m /\ s.total = t /\ s.rel = p
  BY DEF State
<1> HIDE DEF s
<1>21. TakeItem(rec, s) = TakeBlock(rec, s)
  <2>1. rec[s.off + 1][1] = "block"
    BY <1>6, <1>11, <1>12, <1>20
  <2> QED
    BY <2>1 DEF TakeItem
<1> DEFINE img == IF w[3] THEN g ELSE Null
           explicit == w[3] /\ img[4] /\ img[5]
           afterImg == o + 1 + (IF w[3] THEN 1 ELSE 0) + (IF explicit THEN 1 ELSE 0)
           hole == IF ~w[3] \/ ~img[4] THEN 0
                   ELSE IF explicit THEN rec[o + 3][2] ELSE BlckSz - img[2]
           rel == IF w[5] THEN p ELSE rec[afterImg + 1][2]
           afterRel == afterImg + (IF w[5] THEN 0 ELSE 1)
<1>22. TakeBlock(rec, s)
         = [off |-> afterRel + 1,
            blocks |-> Append(B,
                [id |-> w[2], rel |-> rel, blkno |-> rec[afterRel + 1][2],
                 hasImage |-> w[3], imageLen |-> IF w[3] THEN img[2] ELSE 0,
                 off |-> IF w[3] THEN img[3] ELSE 0, hole |-> hole,
                 packed |-> w[3] /\ img[5],
                 dataLen |-> IF w[4] THEN w[6] ELSE 0]),
            main |-> m,
            total |-> t + (IF w[3] THEN img[2] ELSE 0) + (IF w[4] THEN w[6] ELSE 0),
            rel |-> rel]
  <2>1. rec[s.off + 1] = w /\ (w[3] => rec[s.off + 2] = g)
    BY <1>6, <1>7, <1>11, <1>12, <1>13, <1>20
  <2>2. img = IF w[3] THEN rec[s.off + 2] ELSE Null
    BY <2>1
  <2> HIDE DEF img
  <2> QED
    BY <1>20, <2>1, <2>2 DEF TakeBlock
<1>23. explicit = Explicit(b)
  BY <1>12, <1>14, <1>16 DEF Explicit
<1>24. afterImg = o + 1 + i + e
  <2>1. (IF w[3] THEN 1 ELSE 0) = i
    BY <1>5, <1>12
  <2>2. (IF explicit THEN 1 ELSE 0) = e
    BY <1>5, <1>23
  <2> QED
    BY <2>1, <2>2
<1>25. afterRel = o + 1 + i + e + q
  <2>1. (IF w[5] THEN 0 ELSE 1) = q
    BY <1>5, <1>12, <1>15
  <2> HIDE DEF afterImg
  <2> QED
    BY <1>24, <2>1
<1>26. rel = b.rel
  <2>1. CASE b.same
    BY <1>12, <2>1
  <2>2. CASE ~b.same
    <3> HIDE DEF afterImg
    <3>1. afterImg + 1 = o + (i + e + 2)
      BY <1>1, <1>24
    <3>2. PICK x : x = <<"rel", b.rel>>
      OBVIOUS
    <3>3. x[2] = b.rel
      BY <3>2
    <3>4. rec[afterImg + 1] = x
      BY <1>9, <2>2, <3>1, <3>2
    <3> QED
      BY <1>12, <2>2, <3>3, <3>4
  <2> QED
    BY <1>15, <2>1, <2>2
<1>27. rec[afterRel + 1][2] = b.blkno /\ afterRel + 1 = o + Len(hd)
  <2> HIDE DEF afterRel
  <2>1. afterRel + 1 = o + (i + e + q + 2)
    BY <1>1, <1>25
  <2>2. PICK x : x = <<"blkno", b.blkno>>
    OBVIOUS
  <2>3. x[2] = b.blkno
    BY <2>2
  <2> QED
    BY <1>3, <1>10, <2>1, <2>2, <2>3
<1>28. hole = IF b.image # Null THEN b.image.hole ELSE 0
  <2>1. CASE b.image = Null
    BY <1>12, <2>1
  <2>2. CASE b.image # Null
    <3>1. /\ ~(b.image.hole > 0) => b.image.hole = 0
          /\ b.image.hole > 0 /\ ~b.image.packed => BlckSz - Len(ImageData(b.image)) = b.image.hole
      BY <1>15, <2>2, HoleIs
    <3>2. img = g /\ w[3]
      BY <1>12, <2>2
    <3>3. CASE Explicit(b)
      <4>1. PICK x : x = <<"hole", b.image.hole>>
        OBVIOUS
      <4>2. x[2] = b.image.hole
        BY <4>1
      <4>3. rec[o + 3][2] = b.image.hole
        BY <1>8, <3>3, <4>1, <4>2
      <4>4. g[4]
        BY <1>14, <3>3 DEF Explicit
      <4> HIDE DEF img, explicit
      <4> QED
        BY <1>23, <2>2, <3>2, <3>3, <4>3, <4>4
    <3>4. CASE ~Explicit(b)
      <4>1. CASE ~(b.image.hole > 0)
        <5>1. ~g[4]
          BY <1>14, <4>1
        <5> HIDE DEF img, explicit
        <5> QED
          BY <2>2, <3>1, <3>2, <4>1, <5>1
      <4>2. CASE b.image.hole > 0
        <5>1. ~b.image.packed
          BY <2>2, <3>4, <4>2 DEF Explicit
        <5>2. g[4] /\ BlckSz - g[2] = b.image.hole
          BY <1>14, <3>1, <4>2, <5>1
        <5> HIDE DEF img, explicit
        <5> QED
          BY <1>23, <2>2, <3>2, <3>4, <5>2
      <4> QED
        BY <4>1, <4>2
    <3> QED
      BY <3>3, <3>4
  <2> QED
    BY <2>1, <2>2
<1>29. /\ (IF w[3] THEN img[2] ELSE 0) = ImgLen(b)
       /\ (IF w[3] THEN img[3] ELSE 0) = (IF b.image # Null THEN b.image.off ELSE 0)
       /\ (w[3] /\ img[5]) = (b.image # Null /\ b.image.packed)
  BY <1>12, <1>14, <1>18
<1> HIDE DEF img, explicit, afterImg, hole, rel, afterRel
<1>30. TakeBlock(rec, s) = [off |-> o + Len(hd), blocks |-> Append(B, Parsed(b)), main |-> m,
                            total |-> t + ImgLen(b) + Len(b.data), rel |-> b.rel]
  BY <1>12, <1>17, <1>22, <1>26, <1>27, <1>28, <1>29 DEF Parsed
<1>31. t + ImgLen(b) + Len(b.data) = t + Len(BlockPayload(b))
  BY <1>19
<1> QED
  BY <1>2, <1>21, <1>30, <1>31 DEF s, State

-----------------------------------------------------------------------------
\* A whole record.

Headed(r) == [k \in 1 .. Len(r.blocks) |-> BlockHeader(r.blocks[k])]
Loaded(r) == [k \in 1 .. Len(r.blocks) |-> BlockPayload(r.blocks[k])]

\* Join over the block headers, and over the payloads, as a function of the
\* number of blocks.
LEMMA JoinHeaders ==
    ASSUME NEW r, IsSeq(r.blocks)
    PROVE  \E J : Joins(J, Headed(r), Len(r.blocks)) /\ Join(BlockHeader, r.blocks) = J[Len(r.blocks)]
<1> DEFINE s == r.blocks
           n == Len(s)
           G == Headed(r)
           Fits(J) == J = [k \in 0 .. n |-> IF k = 0 THEN <<>> ELSE J[k - 1] \o BlockHeader(s[k])]
<1>1. n \in Nat
  BY SeqLen
<1>2. PICK J : Joins(J, G, n)
  BY <1>1, JoinExists
<1>3. \A k \in 1 .. n : G[k] = BlockHeader(s[k])
  BY DEF Headed
<1>4. ASSUME NEW I PROVE Fits(I) <=> Joins(I, G, n)
  <2> HIDE DEF G, n, s
  <2>1. \A k \in 0 .. n : (IF k = 0 THEN <<>> ELSE I[k - 1] \o BlockHeader(s[k]))
                        = (IF k = 0 THEN <<>> ELSE I[k - 1] \o G[k])
    <3> SUFFICES ASSUME NEW k \in 0 .. n
                 PROVE  (IF k = 0 THEN <<>> ELSE I[k - 1] \o BlockHeader(s[k]))
                        = (IF k = 0 THEN <<>> ELSE I[k - 1] \o G[k])
      OBVIOUS
    <3>1. CASE k = 0
      BY <3>1
    <3>2. CASE k # 0
      <4>1. k \in 1 .. n
        BY <1>1, <3>2
      <4> QED
        BY <1>3, <3>2, <4>1
    <3> QED
      BY <3>1, <3>2
  <2> QED
    BY <2>1 DEF Joins
<1>5. Fits(J)
  BY <1>2, <1>4
<1>6. Join(BlockHeader, s) = (CHOOSE I : Fits(I))[n]
  BY DEF Join
<1>7. PICK I : I = CHOOSE I2 : Fits(I2)
  OBVIOUS
<1>8. Fits(I)
  <2> HIDE DEF Fits
  <2> QED
    BY <1>5, <1>7
<1>9. Joins(I, G, n)
  BY <1>4, <1>8
<1>10. Join(BlockHeader, s) = I[n]
  BY <1>6, <1>7
<1> QED
  BY <1>9, <1>10

\* The same for the payloads.
LEMMA JoinPayloads ==
    ASSUME NEW r, IsSeq(r.blocks)
    PROVE  \E J : Joins(J, Loaded(r), Len(r.blocks)) /\ Join(BlockPayload, r.blocks) = J[Len(r.blocks)]
<1> DEFINE s == r.blocks
           n == Len(s)
           G == Loaded(r)
           Fits(J) == J = [k \in 0 .. n |-> IF k = 0 THEN <<>> ELSE J[k - 1] \o BlockPayload(s[k])]
<1>1. n \in Nat
  BY SeqLen
<1>2. PICK J : Joins(J, G, n)
  BY <1>1, JoinExists
<1>3. \A k \in 1 .. n : G[k] = BlockPayload(s[k])
  BY DEF Loaded
<1>4. ASSUME NEW I PROVE Fits(I) <=> Joins(I, G, n)
  <2> HIDE DEF G, n, s
  <2>1. \A k \in 0 .. n : (IF k = 0 THEN <<>> ELSE I[k - 1] \o BlockPayload(s[k]))
                        = (IF k = 0 THEN <<>> ELSE I[k - 1] \o G[k])
    <3> SUFFICES ASSUME NEW k \in 0 .. n
                 PROVE  (IF k = 0 THEN <<>> ELSE I[k - 1] \o BlockPayload(s[k]))
                        = (IF k = 0 THEN <<>> ELSE I[k - 1] \o G[k])
      OBVIOUS
    <3>1. CASE k = 0
      BY <3>1
    <3>2. CASE k # 0
      <4>1. k \in 1 .. n
        BY <1>1, <3>2
      <4> QED
        BY <1>3, <3>2, <4>1
    <3> QED
      BY <3>1, <3>2
  <2> QED
    BY <2>1 DEF Joins
<1>5. Fits(J)
  BY <1>2, <1>4
<1>6. Join(BlockPayload, s) = (CHOOSE I : Fits(I))[n]
  BY DEF Join
<1>7. PICK I : I = CHOOSE I2 : Fits(I2)
  OBVIOUS
<1>8. Fits(I)
  <2> HIDE DEF Fits
  <2> QED
    BY <1>5, <1>7
<1>9. Joins(I, G, n)
  BY <1>4, <1>8
<1>10. Join(BlockPayload, s) = I[n]
  BY <1>6, <1>7
<1> QED
  BY <1>9, <1>10

\* What a well-formed record consists of, as sequences.
LEMMA RecordParts ==
    ASSUME NEW r, WellFormed(r)
    PROVE  /\ IsSeq(r.blocks) /\ IsSeq(r.extras) /\ IsSeq(r.main)
           /\ Len(r.blocks) \in Nat /\ Len(r.extras) \in Nat /\ Len(r.main) \in Nat
           /\ \A k \in 1 .. Len(r.blocks) : IsBlock(r.blocks[k])
           /\ Parts(Headed(r), Len(r.blocks)) /\ Parts(Loaded(r), Len(r.blocks))
<1>1. IsSeq(r.blocks) /\ IsSeq(r.extras) /\ IsSeq(r.main)
  BY SeqIs DEF WellFormed
<1>2. /\ Len(r.blocks) \in Nat /\ Len(r.extras) \in Nat /\ Len(r.main) \in Nat
      /\ DOMAIN r.blocks = 1 .. Len(r.blocks)
  BY <1>1, SeqLen
<1>3. \A k \in 1 .. Len(r.blocks) : IsBlock(r.blocks[k])
  BY <1>2 DEF WellFormed
<1>4. \A k \in 1 .. Len(r.blocks) : IsSeq(BlockHeader(r.blocks[k])) /\ IsSeq(BlockPayload(r.blocks[k]))
  BY <1>3, HeaderIs, PayloadIs
<1>5. Parts(Headed(r), Len(r.blocks)) /\ Parts(Loaded(r), Len(r.blocks))
  BY <1>4 DEF Parts, Headed, Loaded
<1> QED
  BY <1>1, <1>2, <1>3, <1>5

\* Where the parts of a record stand: JH and JP join its headers and payloads.
NMain(r) == IF r.main = <<>> THEN 0 ELSE 1
ExtrasAt(r, JH) == RecHdr + Len(JH[Len(r.blocks)])
DataAt(r, JH) == ExtrasAt(r, JH) + Len(r.extras) + NMain(r)
MainAt(r, JH, JP) == DataAt(r, JH) + Len(JP[Len(r.blocks)])

Laid(r, rec, JH, JP) ==
    /\ IsSeq(rec) /\ rec[RecHdr] = <<"fixed", r.id>>
    /\ Joins(JH, Headed(r), Len(r.blocks)) /\ Joins(JP, Loaded(r), Len(r.blocks))
    /\ Lies(rec, RecHdr, JH[Len(r.blocks)])
    /\ Lies(rec, ExtrasAt(r, JH), r.extras)
    /\ r.main # <<>> => rec[ExtrasAt(r, JH) + Len(r.extras) + 1] = <<"main", Len(r.main)>>
    /\ Lies(rec, DataAt(r, JH), JP[Len(r.blocks)])
    /\ Lies(rec, MainAt(r, JH, JP), r.main)
    /\ Len(rec) = MainAt(r, JH, JP) + Len(r.main)

\* What follows the fixed header is a sequence.
LEMMA ContentIs ==
    ASSUME NEW r, WellFormed(r)
    PROVE  IsSeq(Content(r))
<1>1. /\ IsSeq(r.blocks) /\ IsSeq(r.extras) /\ IsSeq(r.main) /\ Len(r.blocks) \in Nat
      /\ Parts(Headed(r), Len(r.blocks)) /\ Parts(Loaded(r), Len(r.blocks))
  BY RecordParts
<1>2. PICK JH : Joins(JH, Headed(r), Len(r.blocks)) /\ Join(BlockHeader, r.blocks) = JH[Len(r.blocks)]
  BY <1>1, JoinHeaders
<1>3. PICK JP : Joins(JP, Loaded(r), Len(r.blocks)) /\ Join(BlockPayload, r.blocks) = JP[Len(r.blocks)]
  BY <1>1, JoinPayloads
<1>4. PICK n : n = Len(r.blocks)
  OBVIOUS
<1>5. PICK h, p, x, d : h = JH[n] /\ p = JP[n] /\ x = r.extras /\ d = r.main
  OBVIOUS
<1>6. n \in 0 .. n
  BY <1>1, <1>4
<1>7. IsSeq(h)
  <2>1. \A k \in 0 .. n : IsSeq(JH[k]) /\ Len(JH[k]) \in Nat
    BY <1>1, <1>2, <1>4, JoinIs
  <2> QED
    BY <1>5, <1>6, <2>1
<1>8. IsSeq(p)
  <2>1. \A k \in 0 .. n : IsSeq(JP[k]) /\ Len(JP[k]) \in Nat
    BY <1>1, <1>3, <1>4, JoinIs
  <2> QED
    BY <1>5, <1>6, <2>1
<1>9. PICK w : w = <<"main", Len(r.main)>>
  OBVIOUS
<1>10. PICK m : m = IF d = <<>> THEN <<>> ELSE <<w>>
  OBVIOUS
<1>11. IsSeq(m)
  BY <1>10, Single
<1>12. Content(r) = (((h \o x) \o m) \o p) \o d
  BY <1>2, <1>3, <1>4, <1>5, <1>9, <1>10 DEF Content
<1>13. PICK a, b, c, e : a = h \o x /\ b = a \o m /\ c = b \o p /\ e = c \o d
  OBVIOUS
<1>14. IsSeq(a)
  BY <1>1, <1>5, <1>7, <1>13, Concat
<1>15. IsSeq(b)
  BY <1>11, <1>13, <1>14, Concat
<1>16. IsSeq(c)
  BY <1>8, <1>13, <1>15, Concat
<1>17. IsSeq(e)
  BY <1>1, <1>5, <1>13, <1>16, Concat
<1> QED
  BY <1>12, <1>13, <1>17

\* So the server lays a record out.
LEMMA RecordLaid ==
    ASSUME NEW r, WellFormed(r)
    PROVE  \E JH, JP : Laid(r, Encode(r), JH, JP)
<1> USE WalRecordAssumption
<1>1. /\ IsSeq(r.blocks) /\ IsSeq(r.extras) /\ IsSeq(r.main)
      /\ Len(r.blocks) \in Nat /\ Len(r.extras) \in Nat /\ Len(r.main) \in Nat
      /\ Parts(Headed(r), Len(r.blocks)) /\ Parts(Loaded(r), Len(r.blocks))
  BY RecordParts
<1>2. PICK JH : Joins(JH, Headed(r), Len(r.blocks)) /\ Join(BlockHeader, r.blocks) = JH[Len(r.blocks)]
  BY <1>1, JoinHeaders
<1>3. PICK JP : Joins(JP, Loaded(r), Len(r.blocks)) /\ Join(BlockPayload, r.blocks) = JP[Len(r.blocks)]
  BY <1>1, JoinPayloads
<1>4. PICK n : n = Len(r.blocks)
  OBVIOUS
<1>5. PICK h, p, x, d : h = JH[n] /\ p = JP[n] /\ x = r.extras /\ d = r.main
  OBVIOUS
<1>6. IsSeq(h) /\ Len(h) \in Nat
  <2>1. \A k \in 0 .. n : IsSeq(JH[k]) /\ Len(JH[k]) \in Nat
    BY <1>1, <1>2, <1>4, JoinIs
  <2>2. n \in 0 .. n
    BY <1>1, <1>4
  <2> QED
    BY <1>5, <2>1, <2>2
<1>7. IsSeq(p) /\ Len(p) \in Nat
  <2>1. \A k \in 0 .. n : IsSeq(JP[k]) /\ Len(JP[k]) \in Nat
    BY <1>1, <1>3, <1>4, JoinIs
  <2>2. n \in 0 .. n
    BY <1>1, <1>4
  <2> QED
    BY <1>5, <2>1, <2>2
<1>8. PICK w : w = <<"main", Len(r.main)>>
  OBVIOUS
<1>9. PICK m : m = IF d = <<>> THEN <<>> ELSE <<w>>
  OBVIOUS
<1>10. IsSeq(m) /\ Len(m) = NMain(r) /\ (r.main # <<>> => m[1] = w) /\ NMain(r) \in {0, 1}
  BY <1>5, <1>9, Single DEF NMain
<1>11. Content(r) = (((h \o x) \o m) \o p) \o d
  BY <1>2, <1>3, <1>4, <1>5, <1>8, <1>9 DEF Content
<1> DEFINE tok(k) == IF k <= LenField THEN <<"len", TotLen(r), k>> ELSE <<"fixed", r.id>>
<1>12. PICK f : f = [k \in 1 .. RecHdr |-> tok(k)]
  OBVIOUS
<1>13. Encode(r) = f \o ((((h \o x) \o m) \o p) \o d)
  BY <1>11, <1>12 DEF Encode
<1>14. f[RecHdr] = <<"fixed", r.id>> /\ RecHdr \in 1 .. RecHdr
  <2>1. RecHdr \in 1 .. RecHdr /\ ~(RecHdr <= LenField)
    OBVIOUS
  <2> QED
    BY <1>12, <2>1
<1> HIDE DEF tok
<1>15. IsSeq(f) /\ Len(f) = RecHdr
  <2>1. f = [k \in 1 .. RecHdr |-> f[k]]
    BY <1>12
  <2> QED
    BY <2>1, FunSeq
<1>16. PICK a, b, c, e, rec : /\ a = h \o x /\ b = a \o m /\ c = b \o p /\ e = c \o d
                              /\ rec = f \o e
  OBVIOUS
<1>17. IsSeq(a) /\ Len(a) = Len(h) + Len(x)
  BY <1>1, <1>5, <1>6, <1>16, Concat
<1>18. IsSeq(b) /\ Len(b) = Len(a) + Len(m)
  BY <1>10, <1>16, <1>17, Concat
<1>19. IsSeq(c) /\ Len(c) = Len(b) + Len(p)
  BY <1>7, <1>16, <1>18, Concat
<1>20. IsSeq(e) /\ Len(e) = Len(c) + Len(d)
  BY <1>1, <1>5, <1>16, <1>19, Concat
<1>21. IsSeq(rec) /\ Len(rec) = RecHdr + Len(e) /\ rec[RecHdr] = f[RecHdr]
  <2>1. /\ IsSeq(f \o e) /\ Len(f \o e) = Len(f) + Len(e)
        /\ \A k \in 1 .. Len(f) : (f \o e)[k] = f[k]
    BY <1>15, <1>20, Concat
  <2> QED
    BY <1>14, <1>15, <1>16, <2>1
<1>22. Lies(rec, 0, f \o e)
  <2>1. Len(rec) \in Nat
    BY <1>21, SeqLen
  <2>2. 0 + Len(rec) <= Len(rec) /\ \A k \in 1 .. Len(rec) : 0 + k = k
    BY <2>1
  <2>3. Lies(rec, 0, rec)
    BY <1>21, <2>2 DEF Lies
  <2> QED
    BY <1>16, <2>3
<1>23. Lies(rec, RecHdr, c \o d)
  <2>1. Lies(rec, 0 + Len(f), e)
    BY <1>15, <1>20, <1>21, <1>22, LiesParts
  <2>2. 0 + Len(f) = RecHdr
    BY <1>15
  <2> QED
    BY <1>16, <2>1, <2>2
<1>24. Lies(rec, RecHdr, b \o p) /\ Lies(rec, RecHdr + Len(c), d)
  <2>1. Lies(rec, RecHdr, c) /\ Lies(rec, RecHdr + Len(c), d)
    BY <1>1, <1>5, <1>19, <1>21, <1>23, LiesParts
  <2> QED
    BY <1>16, <2>1
<1>25. Lies(rec, RecHdr, a \o m) /\ Lies(rec, RecHdr + Len(b), p)
  <2>1. Lies(rec, RecHdr, b) /\ Lies(rec, RecHdr + Len(b), p)
    BY <1>7, <1>18, <1>21, <1>24, LiesParts
  <2> QED
    BY <1>16, <2>1
<1>26. Lies(rec, RecHdr, h \o x) /\ Lies(rec, RecHdr + Len(a), m)
  <2>1. Lies(rec, RecHdr, a) /\ Lies(rec, RecHdr + Len(a), m)
    BY <1>10, <1>17, <1>21, <1>25, LiesParts
  <2> QED
    BY <1>16, <2>1
<1>27. Lies(rec, RecHdr, h) /\ Lies(rec, RecHdr + Len(h), x)
  BY <1>1, <1>5, <1>6, <1>21, <1>26, LiesParts
<1>35. PICK lh, lx, lm, lp, ld \in Nat :
         lh = Len(h) /\ lx = Len(x) /\ lm = Len(m) /\ lp = Len(p) /\ ld = Len(d)
  BY <1>1, <1>5, <1>6, <1>7, <1>10
<1>36. /\ Len(a) = lh + lx /\ Len(b) = lh + lx + lm /\ Len(c) = lh + lx + lm + lp
       /\ Len(rec) = RecHdr + (lh + lx + lm + lp + ld)
  BY <1>17, <1>18, <1>19, <1>20, <1>21, <1>35
<1>28. ExtrasAt(r, JH) = RecHdr + Len(h)
  BY <1>4, <1>5 DEF ExtrasAt
<1>29. DataAt(r, JH) = RecHdr + Len(b)
  <2>1. RecHdr + Len(h) + Len(x) + Len(m) = RecHdr + Len(b)
    BY <1>35, <1>36
  <2> QED
    BY <1>5, <1>10, <1>28, <2>1 DEF DataAt
<1>30. MainAt(r, JH, JP) = RecHdr + Len(c)
  <2>1. RecHdr + Len(b) + Len(p) = RecHdr + Len(c)
    BY <1>35, <1>36
  <2> QED
    BY <1>4, <1>5, <1>29, <2>1 DEF MainAt
<1>31. r.main # <<>> => rec[ExtrasAt(r, JH) + Len(r.extras) + 1] = <<"main", Len(r.main)>>
  <2> SUFFICES ASSUME r.main # <<>>
               PROVE  rec[ExtrasAt(r, JH) + Len(r.extras) + 1] = <<"main", Len(r.main)>>
    OBVIOUS
  <2>1. Len(m) = 1 /\ m[1] = w
    BY <1>10 DEF NMain
  <2>2. rec[(RecHdr + Len(a)) + 1] = m[1]
    BY <1>26, <2>1 DEF Lies
  <2>3. PICK i, j : i = (RecHdr + Len(a)) + 1 /\ j = ExtrasAt(r, JH) + Len(r.extras) + 1
    OBVIOUS
  <2>4. Len(r.extras) = lx /\ ExtrasAt(r, JH) = RecHdr + lh
    BY <1>5, <1>28, <1>35, Zenon
  <2>5. i = (RecHdr + (lh + lx)) + 1 /\ j = (RecHdr + lh) + lx + 1
    BY <1>36, <2>3, <2>4, Zenon
  <2>6. i = j
    BY <1>35, <2>5
  <2> QED
    BY <1>8, <2>1, <2>2, <2>3, <2>6, Zenon
<1>32. Len(rec) = MainAt(r, JH, JP) + Len(r.main)
  <2>1. PICK i : i = MainAt(r, JH, JP) + Len(r.main)
    OBVIOUS
  <2>2. Len(r.main) = ld /\ MainAt(r, JH, JP) = RecHdr + (lh + lx + lm + lp)
    BY <1>5, <1>30, <1>35, <1>36, Zenon
  <2>3. i = (RecHdr + (lh + lx + lm + lp)) + ld
    BY <2>1, <2>2, Zenon
  <2>4. (RecHdr + (lh + lx + lm + lp)) + ld = RecHdr + (lh + lx + lm + lp + ld)
    BY <1>35
  <2> QED
    BY <1>36, <2>1, <2>3, <2>4, Zenon
<1>33. Encode(r) = rec
  BY <1>13, <1>16
<1>34. Laid(r, rec, JH, JP)
  BY <1>2, <1>3, <1>4, <1>5, <1>14, <1>21, <1>24, <1>25, <1>27, <1>28, <1>29, <1>30, <1>31, <1>32 DEF Laid
<1> QED
  BY <1>33, <1>34

-----------------------------------------------------------------------------
\* The header loop.

\* One round of it, and its rounds.
HeaderStep(rec, s) == IF Len(rec) - s.off > s.total THEN TakeItem(rec, s) ELSE s
Rounds(H, rec, n) ==
    H = [k \in 0 .. n |-> IF k = 0 THEN HeaderStart ELSE HeaderStep(rec, H[k - 1])]

\* There is a function of the rounds.
LEMMA RoundsExist ==
    ASSUME NEW n \in Nat, NEW rec
    PROVE  \E H : Rounds(H, rec, n)
<1> DEFINE S == {m \in Nat : \E H : Rounds(H, rec, m)}
<1>1. 0 \in S
  <2>1. Rounds([k \in 0 .. 0 |-> HeaderStart], rec, 0)
    BY DEF Rounds
  <2> QED
    BY <2>1
<1>2. ASSUME NEW m \in Nat, m \in S PROVE m + 1 \in S
  <2>1. PICK H : Rounds(H, rec, m)
    BY <1>2
  <2>2. PICK e : e = HeaderStep(rec, H[m])
    OBVIOUS
  <2> DEFINE h == [k \in 0 .. m + 1 |-> IF k = m + 1 THEN e ELSE H[k]]
  <2>3. ASSUME NEW k \in 0 .. m + 1
        PROVE  h[k] = IF k = 0 THEN HeaderStart ELSE HeaderStep(rec, h[k - 1])
    <3>1. CASE k = m + 1
      <4>1. k # 0 /\ k - 1 = m /\ k - 1 \in 0 .. m + 1 /\ k - 1 # m + 1
        BY <3>1
      <4>2. h[k - 1] = H[m] /\ h[k] = e
        BY <3>1, <4>1
      <4> QED
        BY <2>2, <3>1, <4>1, <4>2
    <3>2. CASE k # m + 1
      <4>1. k \in 0 .. m
        BY <3>2
      <4>2. h[k] = H[k] /\ H[k] = IF k = 0 THEN HeaderStart ELSE HeaderStep(rec, H[k - 1])
        BY <2>1, <3>2, <4>1 DEF Rounds
      <4>3. k # 0 => h[k - 1] = H[k - 1]
        BY <4>1
      <4> QED
        BY <4>2, <4>3
    <3> QED
      BY <3>1, <3>2
  <2>4. Rounds(h, rec, m + 1)
    BY <2>3 DEF Rounds
  <2> HIDE DEF h
  <2>5. (m + 1 \in Nat) /\ \E H2 : Rounds(H2, rec, m + 1)
    BY <2>4
  <2> QED
    BY <2>5
<1> HIDE DEF S
<1>3. n \in S
  BY <1>1, <1>2, Inductive
<1> QED
  BY <1>3 DEF S

\* Headers is the last round.
LEMMA HeadersIs ==
    ASSUME NEW rec, Len(rec) \in Nat
    PROVE  \E H : Rounds(H, rec, Len(rec)) /\ Headers(rec) = H[Len(rec)]
<1>1. PICK n \in Nat : n = Len(rec)
  OBVIOUS
<1> DEFINE Fits(H) == H = [k \in 0 .. Len(rec) |->
                             IF k = 0 THEN HeaderStart
                             ELSE IF Len(rec) - H[k - 1].off > H[k - 1].total
                                  THEN TakeItem(rec, H[k - 1]) ELSE H[k - 1]]
<1>2. ASSUME NEW H PROVE Fits(H) <=> Rounds(H, rec, Len(rec))
  BY DEF Rounds, HeaderStep
<1>3. PICK J : Fits(J)
  BY <1>1, <1>2, RoundsExist
<1>4. Headers(rec) = (CHOOSE H : Fits(H))[Len(rec)]
  BY DEF Headers
<1>5. PICK H : H = CHOOSE H2 : Fits(H2)
  OBVIOUS
<1>6. Fits(H)
  <2> HIDE DEF Fits
  <2> QED
    BY <1>3, <1>5
<1>7. Rounds(H, rec, Len(rec))
  BY <1>2, <1>6
<1>8. Headers(rec) = H[Len(rec)]
  BY <1>4, <1>5
<1> QED
  BY <1>7, <1>8

\* The first round and the next one.
LEMMA RoundIs ==
    ASSUME NEW n \in Nat, NEW rec, NEW H, Rounds(H, rec, n)
    PROVE  H[0] = HeaderStart /\ \A k \in 0 .. n : k + 1 <= n => H[k + 1] = HeaderStep(rec, H[k])
<1>1. H[0] = HeaderStart
  BY DEF Rounds
<1>2. ASSUME NEW k \in 0 .. n, k + 1 <= n PROVE H[k + 1] = HeaderStep(rec, H[k])
  <2>1. k + 1 \in 0 .. n /\ k + 1 # 0 /\ (k + 1) - 1 = k
    BY <1>2
  <2>2. H[k + 1] = HeaderStep(rec, H[(k + 1) - 1])
    BY <2>1 DEF Rounds
  <2> QED
    BY <2>1, <2>2
<1> QED
  BY <1>1, <1>2

\* The lengths of what is joined grow.
LEMMA JoinGrows ==
    ASSUME NEW n \in Nat, NEW f \in [0 .. n -> Nat], NEW d \in Nat,
           \A k \in 1 .. n : f[k] >= f[k - 1] + d
    PROVE  \A k \in 0 .. n : f[k] + d * (n - k) <= f[n]
<1> DEFINE S == {m \in Nat : m <= n => f[n - m] + d * m <= f[n]}
<1>1. 0 \in S
  OBVIOUS
<1>2. ASSUME NEW m \in Nat, m \in S PROVE m + 1 \in S
  <2> SUFFICES ASSUME m + 1 <= n PROVE f[n - (m + 1)] + d * (m + 1) <= f[n]
    OBVIOUS
  <2>1. n - m \in 1 .. n /\ (n - m) - 1 = n - (m + 1) /\ n - (m + 1) \in 0 .. n /\ n - m \in 0 .. n
    OBVIOUS
  <2>2. f[n - m] + d * m <= f[n]
    BY <1>2
  <2>3. f[n - m] >= f[n - (m + 1)] + d
    BY <2>1
  <2>4. PICK a, b, c, e \in Nat : a = f[n - m] /\ b = f[n - (m + 1)] /\ c = f[n] /\ e = d * m
    BY <2>1
  <2>5. d * (m + 1) = e + d
    BY <2>4
  <2> QED
    BY <2>2, <2>3, <2>4, <2>5
<1>3. \A m \in Nat : m \in S
  <2> HIDE DEF S
  <2> QED
    BY <1>1, <1>2, Inductive
<1>4. ASSUME NEW k \in 0 .. n PROVE f[k] + d * (n - k) <= f[n]
  <2>1. n - k \in Nat /\ n - k <= n /\ n - (n - k) = k
    OBVIOUS
  <2>2. f[n - (n - k)] + d * (n - k) <= f[n]
    BY <1>3, <2>1
  <2> QED
    BY <2>1, <2>2
<1> QED
  BY <1>4

\* One more block.
LEMMA OneMore ==
    ASSUME NEW k \in Nat, NEW f
    PROVE  Append([j \in 1 .. k |-> f[j]], f[k + 1]) = [j \in 1 .. k + 1 |-> f[j]]
<1>1. PICK s : s = [j \in 1 .. k |-> f[j]]
  OBVIOUS
<1>2. s = [j \in 1 .. k |-> s[j]]
  BY <1>1
<1>3. IsSeq(s) /\ Len(s) = k
  BY <1>2, FunSeq
<1>4. PICK S : s \in Seq(S)
  BY <1>3 DEF IsSeq
<1>5. PICK e : e = f[k + 1]
  OBVIOUS
<1>6. s \in Seq(S \cup {e})
  BY <1>4
<1>7. Append(s, e) \in Seq(S \cup {e}) /\ Len(Append(s, e)) = k + 1
  BY <1>3, <1>6
<1>8. IsSeq(Append(s, e))
  BY <1>7, SeqIs
<1>9. \A j \in 1 .. k + 1 : Append(s, e)[j] = IF j = k + 1 THEN e ELSE s[j]
  BY <1>3, <1>6
<1>10. PICK t : t = [j \in 1 .. k + 1 |-> f[j]]
  OBVIOUS
<1>11. t = [j \in 1 .. k + 1 |-> t[j]]
  BY <1>10
<1>12. IsSeq(t) /\ Len(t) = k + 1
  BY <1>11, FunSeq
<1>13. \A j \in 1 .. k + 1 : Append(s, e)[j] = t[j]
  BY <1>1, <1>5, <1>9, <1>10
<1>14. Append(s, e) = t
  BY <1>7, <1>8, <1>12, <1>13, SeqEq
<1> QED
  BY <1>1, <1>5, <1>10, <1>14

\* The numbers of a record: n blocks, x extras, q tokens of main header and d
\* of main data; f and g are the lengths of its headers and payloads.
Measured(r, rec, JH, JP, n, x, q, d, f, g) ==
    /\ n \in Nat /\ x \in Nat /\ q \in {0, 1} /\ d \in Nat
    /\ f \in [0 .. n -> Nat] /\ g \in [0 .. n -> Nat]
    /\ n = Len(r.blocks) /\ x = Len(r.extras) /\ q = NMain(r) /\ d = Len(r.main)
    /\ r.main = <<>> => d = 0 /\ q = 0
    /\ r.main # <<>> => q = 1
    /\ \A k \in 0 .. n : f[k] = Len(JH[k]) /\ g[k] = Len(JP[k])
    /\ f[0] = 0 /\ g[0] = 0
    /\ \A k \in 1 .. n : f[k] = f[k - 1] + Len(BlockHeader(r.blocks[k]))
    /\ \A k \in 1 .. n : g[k] = g[k - 1] + Len(BlockPayload(r.blocks[k]))
    /\ \A k \in 0 .. n : f[k] + (n - k) <= f[n] /\ g[k] <= g[n]
    /\ ExtrasAt(r, JH) = RecHdr + f[n]
    /\ DataAt(r, JH) = RecHdr + f[n] + x + q
    /\ MainAt(r, JH, JP) = RecHdr + f[n] + x + q + g[n]
    /\ Len(rec) = RecHdr + f[n] + x + q + g[n] + d

\* The facts about a join, as one.
Joined(J, G, n) ==
    /\ J[0] = <<>> /\ Len(J[0]) = 0
    /\ \A k \in 0 .. n : IsSeq(J[k]) /\ Len(J[k]) \in Nat
    /\ \A k \in 1 .. n : J[k] = J[k - 1] \o G[k] /\ Len(J[k]) = Len(J[k - 1]) + Len(G[k])

\* They hold of it.
LEMMA JoinFacts ==
    ASSUME NEW n \in Nat, NEW G, NEW J, Parts(G, n), Joins(J, G, n)
    PROVE  Joined(J, G, n)
<1>1. /\ J[0] = <<>> /\ Len(J[0]) = 0
      /\ \A k \in 0 .. n : IsSeq(J[k]) /\ Len(J[k]) \in Nat
      /\ \A k \in 1 .. n : J[k] = J[k - 1] \o G[k] /\ Len(J[k]) = Len(J[k - 1]) + Len(G[k])
  BY JoinIs, Zenon
<1> QED
  BY <1>1, Zenon DEF Joined

\* A record has them.
LEMMA Measures ==
    ASSUME NEW r, WellFormed(r), NEW rec, NEW JH, NEW JP, Laid(r, rec, JH, JP)
    PROVE  \E n, x, q, d, f, g : Measured(r, rec, JH, JP, n, x, q, d, f, g)
<1> USE WalRecordAssumption
<1>1. /\ Len(r.blocks) \in Nat /\ Len(r.extras) \in Nat /\ Len(r.main) \in Nat
      /\ \A k \in 1 .. Len(r.blocks) : IsBlock(r.blocks[k])
      /\ Parts(Headed(r), Len(r.blocks)) /\ Parts(Loaded(r), Len(r.blocks))
  BY RecordParts
<1>2. PICK n, x, d \in Nat : n = Len(r.blocks) /\ x = Len(r.extras) /\ d = Len(r.main)
  BY <1>1
<1>3. PICK q \in {0, 1} : q = NMain(r)
  BY DEF NMain
<1>4. (r.main = <<>> => d = 0 /\ q = 0) /\ (r.main # <<>> => q = 1)
  BY <1>2, <1>3, Single DEF NMain
<1>5. Joins(JH, Headed(r), n) /\ Joins(JP, Loaded(r), n)
  BY <1>2 DEF Laid
<1>6. /\ JH[0] = <<>> /\ Len(JH[0]) = 0
      /\ \A k \in 0 .. n : IsSeq(JH[k]) /\ Len(JH[k]) \in Nat
      /\ \A k \in 1 .. n : JH[k] = JH[k - 1] \o Headed(r)[k] /\ Len(JH[k]) = Len(JH[k - 1]) + Len(Headed(r)[k])
  <2>1. Joined(JH, Headed(r), n)
    BY <1>1, <1>2, <1>5, JoinFacts
  <2> QED
    BY <2>1, Zenon DEF Joined
<1>7. /\ JP[0] = <<>> /\ Len(JP[0]) = 0
      /\ \A k \in 0 .. n : IsSeq(JP[k]) /\ Len(JP[k]) \in Nat
      /\ \A k \in 1 .. n : JP[k] = JP[k - 1] \o Loaded(r)[k] /\ Len(JP[k]) = Len(JP[k - 1]) + Len(Loaded(r)[k])
  <2>1. Joined(JP, Loaded(r), n)
    BY <1>1, <1>2, <1>5, JoinFacts
  <2> QED
    BY <2>1, Zenon DEF Joined
<1>8. PICK f \in [0 .. n -> Nat] : \A k \in 0 .. n : f[k] = Len(JH[k])
  <2>1. [k \in 0 .. n |-> Len(JH[k])] \in [0 .. n -> Nat]
    BY <1>6
  <2> QED
    BY <2>1
<1>9. PICK g \in [0 .. n -> Nat] : \A k \in 0 .. n : g[k] = Len(JP[k])
  <2>1. [k \in 0 .. n |-> Len(JP[k])] \in [0 .. n -> Nat]
    BY <1>7
  <2> QED
    BY <2>1
<1>10. f[0] = 0 /\ g[0] = 0
  BY <1>6, <1>7, <1>8, <1>9
<1>11. ASSUME NEW k \in 1 .. n
       PROVE  /\ f[k] = f[k - 1] + Len(BlockHeader(r.blocks[k]))
              /\ g[k] = g[k - 1] + Len(BlockPayload(r.blocks[k]))
              /\ f[k] >= f[k - 1] + 1 /\ g[k] >= g[k - 1] + 0
  <2>1. k \in 0 .. n /\ k - 1 \in 0 .. n
    OBVIOUS
  <2>2. Headed(r)[k] = BlockHeader(r.blocks[k]) /\ Loaded(r)[k] = BlockPayload(r.blocks[k])
    BY <1>2 DEF Headed, Loaded
  <2>3. f[k] = f[k - 1] + Len(BlockHeader(r.blocks[k]))
    BY <1>6, <1>8, <2>1, <2>2
  <2>4. g[k] = g[k - 1] + Len(BlockPayload(r.blocks[k]))
    BY <1>7, <1>9, <2>1, <2>2
  <2>5. IsBlock(r.blocks[k])
    BY <1>1, <1>2
  <2>6. PICK lh \in Nat : lh = Len(BlockHeader(r.blocks[k])) /\ lh >= 1
    <3>1. Len(BlockHeader(r.blocks[k])) = NImage(r.blocks[k]) + NHole(r.blocks[k]) + NRel(r.blocks[k]) + 2
      BY <2>5, HeaderIs
    <3>2. PICK a, b, c \in {0, 1} : a = NImage(r.blocks[k]) /\ b = NHole(r.blocks[k]) /\ c = NRel(r.blocks[k])
      BY DEF NImage, NHole, NRel
    <3> QED
      BY <3>1, <3>2, SMTT(30)
  <2>7. PICK lp \in Nat : lp = Len(BlockPayload(r.blocks[k]))
    BY <2>5, PayloadIs, SeqLen
  <2>8. f[k - 1] \in Nat /\ g[k - 1] \in Nat
    BY <2>1
  <2>9. f[k] >= f[k - 1] + 1 /\ g[k] >= g[k - 1] + 0
    BY <2>3, <2>4, <2>6, <2>7, <2>8
  <2> QED
    BY <2>3, <2>4, <2>9
<1>12. \A k \in 0 .. n : f[k] + 1 * (n - k) <= f[n]
  <2>1. \A k \in 1 .. n : f[k] >= f[k - 1] + 1
    BY <1>11
  <2> QED
    BY <2>1, JoinGrows
<1>13. \A k \in 0 .. n : g[k] + 0 * (n - k) <= g[n]
  <2>1. \A k \in 1 .. n : g[k] >= g[k - 1] + 0
    BY <1>11
  <2> QED
    BY <2>1, JoinGrows
<1>14. \A k \in 0 .. n : f[k] + (n - k) <= f[n] /\ g[k] <= g[n]
  <2> SUFFICES ASSUME NEW k \in 0 .. n PROVE f[k] + (n - k) <= f[n] /\ g[k] <= g[n]
    OBVIOUS
  <2>1. 1 * (n - k) = n - k /\ 0 * (n - k) = 0
    OBVIOUS
  <2>2. f[k] + 1 * (n - k) <= f[n] /\ g[k] + 0 * (n - k) <= g[n]
    BY <1>12, <1>13
  <2>3. g[k] \in Nat /\ g[k] + 0 = g[k]
    OBVIOUS
  <2> QED
    BY <2>1, <2>2, <2>3
<1>15. n \in 0 .. n
  OBVIOUS
<1>16. ExtrasAt(r, JH) = RecHdr + f[n]
  BY <1>2, <1>8, <1>15, Zenon DEF ExtrasAt
<1>17. DataAt(r, JH) = RecHdr + f[n] + x + q
  BY <1>2, <1>3, <1>16, Zenon DEF DataAt
<1>18. MainAt(r, JH, JP) = RecHdr + f[n] + x + q + g[n]
  BY <1>2, <1>9, <1>15, <1>17, Zenon DEF MainAt
<1>19. Len(rec) = RecHdr + f[n] + x + q + g[n] + d
  <2>1. Len(rec) = MainAt(r, JH, JP) + Len(r.main)
    BY DEF Laid
  <2> QED
    BY <1>2, <1>18, <2>1, Zenon
<1>20. Measured(r, rec, JH, JP, n, x, q, d, f, g)
  BY <1>2, <1>3, <1>4, <1>8, <1>9, <1>10, <1>11, <1>14, <1>16, <1>17, <1>18, <1>19 DEF Measured
<1> QED
  BY <1>20

-----------------------------------------------------------------------------
\* What the loop knows after k blocks.
Read(r, k) == [j \in 1 .. k |-> Parsed(r.blocks[j])]
LastRel(r, k) == IF k = 0 THEN Null ELSE r.blocks[k].rel

\* What is left while there is a block to read.
LEMMA Slack ==
    ASSUME NEW h \in Nat, NEW fk \in Nat, NEW fn \in Nat, NEW gk \in Nat, NEW gn \in Nat,
           NEW x \in Nat, NEW q \in Nat, NEW d \in Nat, NEW n \in Nat, NEW k \in Nat,
           fk + (n - k) <= fn, gk <= gn, n - k >= 1
    PROVE  (h + fn + x + q + gn + d) - (h + fk) > gk
OBVIOUS

\* A round reads a block header.
LEMMA BlockRound ==
    ASSUME NEW r, WellFormed(r), NEW rec, NEW JH, NEW JP, Laid(r, rec, JH, JP),
           NEW n, NEW x, NEW q, NEW d, NEW f, NEW g, Measured(r, rec, JH, JP, n, x, q, d, f, g),
           NEW k \in Nat, k + 1 <= n
    PROVE  HeaderStep(rec, State(RecHdr + f[k], Read(r, k), 0, g[k], LastRel(r, k)))
             = State(RecHdr + f[k + 1], Read(r, k + 1), 0, g[k + 1], LastRel(r, k + 1))
<1> USE WalRecordAssumption
<1>1. /\ n \in Nat /\ x \in Nat /\ q \in {0, 1} /\ d \in Nat /\ n = Len(r.blocks)
      /\ f \in [0 .. n -> Nat] /\ g \in [0 .. n -> Nat]
      /\ Len(rec) = RecHdr + f[n] + x + q + g[n] + d
  BY DEF Measured
<1>2. k \in 0 .. n /\ k + 1 \in 1 .. n /\ k + 1 \in 0 .. n /\ (k + 1) - 1 = k /\ n \in 0 .. n
  BY <1>1
<1>3. PICK b : b = r.blocks[k + 1]
  OBVIOUS
<1>4. IsBlock(b)
  BY <1>1, <1>2, <1>3, RecordParts
<1>5. f[k + 1] = f[k] + Len(BlockHeader(b)) /\ g[k + 1] = g[k] + Len(BlockPayload(b))
  <2>1. /\ \A i \in 1 .. n : f[i] = f[i - 1] + Len(BlockHeader(r.blocks[i]))
        /\ \A i \in 1 .. n : g[i] = g[i - 1] + Len(BlockPayload(r.blocks[i]))
    BY DEF Measured
  <2> QED
    BY <1>2, <1>3, <2>1
<1>6. Lies(rec, RecHdr + f[k], BlockHeader(b))
  <2>1. IsSeq(rec) /\ Lies(rec, RecHdr, JH[n]) /\ Joins(JH, Headed(r), n)
    BY <1>1 DEF Laid
  <2>2. Parts(Headed(r), n)
    BY <1>1, RecordParts
  <2>3. \A i \in 1 .. n : Lies(rec, RecHdr + Len(JH[i - 1]), Headed(r)[i])
    BY <1>1, <2>1, <2>2, JoinLies
  <2>4. Headed(r)[k + 1] = BlockHeader(b)
    BY <1>1, <1>2, <1>3 DEF Headed
  <2>5. Len(JH[k]) = f[k]
    BY <1>2 DEF Measured
  <2> QED
    BY <1>2, <2>3, <2>4, <2>5
<1>7. b.same => LastRel(r, k) = b.rel
  <2> SUFFICES ASSUME b.same PROVE LastRel(r, k) = b.rel
    OBVIOUS
  <2>1. k + 1 \in DOMAIN r.blocks
    BY <1>1, <1>2, RecordParts, SeqLen
  <2>2. k + 1 > 1 /\ r.blocks[(k + 1) - 1].rel = r.blocks[k + 1].rel
    BY <1>3, <2>1 DEF WellFormed
  <2> QED
    BY <1>2, <1>3, <2>2 DEF LastRel
<1>8. PICK fk, gk, lh, lp \in Nat : /\ fk = f[k] /\ gk = g[k]
                                    /\ lh = Len(BlockHeader(b)) /\ lp = Len(BlockPayload(b))
  BY <1>1, <1>2, <1>4, HeaderIs, PayloadIs, SeqLen
<1>9. IsSeq(rec)
  BY DEF Laid
<1> DEFINE s == State(RecHdr + f[k], Read(r, k), 0, g[k], LastRel(r, k))
<1>10. TakeItem(rec, s)
         = State((RecHdr + f[k]) + Len(BlockHeader(b)), Append(Read(r, k), Parsed(b)), 0,
                 g[k] + Len(BlockPayload(b)), b.rel)
  <2>1. RecHdr + f[k] \in Nat /\ g[k] \in Nat
    BY <1>8
  <2> QED
    BY <1>4, <1>6, <1>7, <1>9, <2>1, TakeIs
<1>11. s.off = RecHdr + f[k] /\ s.total = g[k]
  BY DEF State
<1>12. Len(rec) - s.off > s.total
  <2>1. \A i \in 0 .. n : f[i] + (n - i) <= f[n] /\ g[i] <= g[n]
    BY DEF Measured
  <2>2. f[k] + (n - k) <= f[n] /\ g[k] <= g[n]
    BY <1>2, <2>1
  <2>3. PICK fn, gn \in Nat : fn = f[n] /\ gn = g[n]
    BY <1>1, <1>2
  <2>4. fk + (n - k) <= fn /\ gk <= gn /\ n - k >= 1
    BY <1>1, <1>8, <2>2, <2>3
  <2>5. Len(rec) = RecHdr + fn + x + q + gn + d
    BY <1>1, <2>3, Zenon
  <2>6. (RecHdr + fn + x + q + gn + d) - (RecHdr + fk) > gk
    <3>1. x \in Nat /\ q \in Nat /\ d \in Nat /\ n \in Nat
      BY <1>1
    <3> HIDE DEF s
    <3> QED
      BY <2>4, <3>1, Slack
  <2> QED
    BY <1>8, <1>11, <2>5, <2>6, Zenon
<1>13. HeaderStep(rec, s) = TakeItem(rec, s)
  <2> HIDE DEF s
  <2> QED
    BY <1>12 DEF HeaderStep
<1>14. Append(Read(r, k), Parsed(b)) = Read(r, k + 1)
  <2>1. PICK F : F = [j \in 1 .. k + 1 |-> Parsed(r.blocks[j])]
    OBVIOUS
  <2>2. Append([j \in 1 .. k |-> F[j]], F[k + 1]) = [j \in 1 .. k + 1 |-> F[j]]
    BY OneMore
  <2>3. Read(r, k) = [j \in 1 .. k |-> F[j]]
    BY <2>1 DEF Read
  <2>4. Read(r, k + 1) = [j \in 1 .. k + 1 |-> F[j]]
    BY <2>1 DEF Read
  <2>5. F[k + 1] = Parsed(b)
    BY <1>3, <2>1
  <2> QED
    BY <2>2, <2>3, <2>4, <2>5, Zenon
<1>15. (RecHdr + f[k]) + Len(BlockHeader(b)) = RecHdr + f[k + 1]
  <2>1. (RecHdr + fk) + lh = RecHdr + (fk + lh)
    BY <1>8
  <2> QED
    BY <1>5, <1>8, <2>1, Zenon
<1>16. LastRel(r, k + 1) = b.rel
  BY <1>3 DEF LastRel
<1> HIDE DEF s
<1>17. HeaderStep(rec, s) = State(RecHdr + f[k + 1], Read(r, k + 1), 0, g[k + 1], LastRel(r, k + 1))
  BY <1>5, <1>10, <1>13, <1>14, <1>15, <1>16, Zenon
<1> QED
  BY <1>17 DEF s

\* What is left while there is an extra to read.
LEMMA Room ==
    ASSUME NEW a \in Nat, NEW b \in Nat, NEW x \in Nat, NEW q \in Nat, NEW d \in Nat,
           NEW k \in Nat, k + 1 <= x
    PROVE  (a + x + q + b + d) - (a + k) > b
OBVIOUS

\* The loop over the block headers, over the extras, over the main header, and
\* its end.
BlocksRead(r, rec, n, f, g) ==
    \A k \in Nat : k + 1 <= n =>
        HeaderStep(rec, State(RecHdr + f[k], Read(r, k), 0, g[k], LastRel(r, k)))
          = State(RecHdr + f[k + 1], Read(r, k + 1), 0, g[k + 1], LastRel(r, k + 1))

ExtrasRead(rec, n, x, f, g) ==
    \A B, p : \A k \in Nat : k + 1 <= x =>
        HeaderStep(rec, State(RecHdr + f[n] + k, B, 0, g[n], p))
          = State(RecHdr + f[n] + (k + 1), B, 0, g[n], p)

MainRead(rec, n, x, d, f, g) ==
    \A B, p : HeaderStep(rec, State(RecHdr + f[n] + x, B, 0, g[n], p))
                = State(RecHdr + f[n] + x + 1, B, d, g[n] + d, p)

LoopEnds(rec, n, x, q, d, f, g) ==
    \A B, p : HeaderStep(rec, State(RecHdr + f[n] + x + q, B, d, g[n] + d, p))
                = State(RecHdr + f[n] + x + q, B, d, g[n] + d, p)

\* A round reads a block header.
LEMMA BlockRounds ==
    ASSUME NEW r, WellFormed(r), NEW rec, NEW JH, NEW JP, Laid(r, rec, JH, JP),
           NEW n, NEW x, NEW q, NEW d, NEW f, NEW g, Measured(r, rec, JH, JP, n, x, q, d, f, g)
    PROVE  BlocksRead(r, rec, n, f, g)
<1> SUFFICES ASSUME NEW k \in Nat, k + 1 <= n
             PROVE  HeaderStep(rec, State(RecHdr + f[k], Read(r, k), 0, g[k], LastRel(r, k)))
                      = State(RecHdr + f[k + 1], Read(r, k + 1), 0, g[k + 1], LastRel(r, k + 1))
  BY DEF BlocksRead
<1> QED
  BY BlockRound

\* A round reads one of the extras.
LEMMA ExtraRound ==
    ASSUME NEW r, WellFormed(r), NEW rec, NEW JH, NEW JP, Laid(r, rec, JH, JP),
           NEW n, NEW x, NEW q, NEW d, NEW f, NEW g, Measured(r, rec, JH, JP, n, x, q, d, f, g)
    PROVE  ExtrasRead(rec, n, x, f, g)
<1> SUFFICES ASSUME NEW B, NEW p, NEW k \in Nat, k + 1 <= x
             PROVE  HeaderStep(rec, State(RecHdr + f[n] + k, B, 0, g[n], p))
                      = State(RecHdr + f[n] + (k + 1), B, 0, g[n], p)
  BY DEF ExtrasRead
<1> USE WalRecordAssumption
<1>1. /\ x \in Nat /\ q \in Nat /\ d \in Nat /\ x = Len(r.extras)
      /\ f[n] \in Nat /\ g[n] \in Nat
      /\ ExtrasAt(r, JH) = RecHdr + f[n]
      /\ Len(rec) = RecHdr + f[n] + x + q + g[n] + d
  <2>1. n \in 0 .. n
    BY DEF Measured
  <2>2. /\ x \in Nat /\ q \in {0, 1} /\ d \in Nat /\ x = Len(r.extras)
        /\ f \in [0 .. n -> Nat] /\ g \in [0 .. n -> Nat]
        /\ ExtrasAt(r, JH) = RecHdr + f[n]
        /\ Len(rec) = RecHdr + f[n] + x + q + g[n] + d
    BY DEF Measured
  <2>3. f[n] \in Nat /\ g[n] \in Nat
    BY <2>1, <2>2
  <2>4. q \in Nat
    BY <2>2
  <2> QED
    BY <2>2, <2>3, <2>4
<1>2. PICK a, b \in Nat : a = RecHdr + f[n] /\ b = g[n]
  BY <1>1
<1>3. k + 1 \in 1 .. x
  BY <1>1
<1>4. PICK t : t = rec[(a + k) + 1]
  OBVIOUS
<1>5. t \in {<<"origin">>, <<"topxid">>}
  <2>1. rec[a + (k + 1)] = r.extras[k + 1]
    BY <1>1, <1>2, <1>3 DEF Laid, Lies
  <2>2. r.extras \in Seq({<<"origin">>, <<"topxid">>})
    BY DEF WellFormed
  <2>3. PICK T : T = {<<"origin">>, <<"topxid">>}
    OBVIOUS
  <2>4. r.extras[k + 1] \in T
    BY <1>1, <1>3, <2>2, <2>3
  <2>5. (a + k) + 1 = a + (k + 1)
    OBVIOUS
  <2> QED
    BY <1>4, <2>1, <2>3, <2>4, <2>5
<1>6. t[1] \in {"origin", "topxid"}
  BY <1>5
<1> DEFINE s == State(a + k, B, 0, b, p)
<1>7. s.off = a + k /\ s.total = b
  BY DEF State
<1>8. Len(rec) = a + x + q + b + d
  BY <1>1, <1>2, Zenon
<1>9. Len(rec) - s.off > s.total
  <2>1. (a + x + q + b + d) - (a + k) > b
    <3>1. x \in Nat /\ q \in Nat /\ d \in Nat
      BY <1>1
    <3> HIDE DEF s
    <3> QED
      BY <3>1, Room
  <2> HIDE DEF s
  <2> QED
    BY <1>7, <1>8, <2>1, Zenon
<1>10. TakeItem(rec, s) = [s EXCEPT !.off = @ + 1]
  <2> HIDE DEF s
  <2>1. rec[s.off + 1] = t
    BY <1>4, <1>7
  <2>2. t[1] # "block" /\ t[1] # "main"
    BY <1>6
  <2> QED
    BY <1>6, <2>1, <2>2 DEF TakeItem
<1>11. [s EXCEPT !.off = @ + 1] = State((a + k) + 1, B, 0, b, p)
  BY DEF State
<1>12. HeaderStep(rec, s) = State((a + k) + 1, B, 0, b, p)
  <2> HIDE DEF s
  <2> QED
    BY <1>9, <1>10, <1>11 DEF HeaderStep
<1>13. (a + k) + 1 = a + (k + 1)
  OBVIOUS
<1> QED
  BY <1>2, <1>12, <1>13

\* The state after it has read the header of the main data.
Advanced(s, d) == [s EXCEPT !.off = @ + 1, !.main = d, !.total = @ + d]

\* It is this one.
LEMMA MainTaken ==
    ASSUME NEW a, NEW B, NEW b, NEW p, NEW d
    PROVE  Advanced(State(a, B, 0, b, p), d) = State(a + 1, B, d, b + d, p)
<1>11. PICK s : s = State(a, B, 0, b, p)
  OBVIOUS
<1>12. s = [off |-> a, blocks |-> B, main |-> 0, total |-> b, rel |-> p]
  BY <1>11 DEF State
<1>1. s.off = a /\ s.total = b
  BY <1>12
<1>2. [s EXCEPT !.off = @ + 1, !.main = d, !.total = @ + d]
        = [s EXCEPT !.off = s.off + 1, !.main = d, !.total = s.total + d]
  BY Zenon
<1>3. PICK i, j : i = a + 1 /\ j = b + d
  OBVIOUS
<1>4. [s EXCEPT !.off = @ + 1, !.main = d, !.total = @ + d] = [s EXCEPT !.off = i, !.main = d, !.total = j]
  BY <1>1, <1>2, <1>3, Zenon
<1>5. [s EXCEPT !.off = i, !.main = d, !.total = j]
        = [[[s EXCEPT !.off = i] EXCEPT !.main = d] EXCEPT !.total = j]
  OBVIOUS
<1>6. PICK t : t = [s EXCEPT !.off = i]
  OBVIOUS
<1>7. t = [off |-> i, blocks |-> B, main |-> 0, total |-> b, rel |-> p]
  BY <1>6, <1>12
<1>8. PICK u : u = [t EXCEPT !.main = d]
  OBVIOUS
<1>9. u = [off |-> i, blocks |-> B, main |-> d, total |-> b, rel |-> p]
  BY <1>7, <1>8
<1>10. [u EXCEPT !.total = j] = [off |-> i, blocks |-> B, main |-> d, total |-> j, rel |-> p]
  BY <1>9
<1> QED
  BY <1>3, <1>4, <1>5, <1>6, <1>8, <1>10, <1>11, Zenon DEF Advanced, State

\* A round reads the header of the main data.
LEMMA MainRound ==
    ASSUME NEW r, WellFormed(r), NEW rec, NEW JH, NEW JP, Laid(r, rec, JH, JP),
           NEW n, NEW x, NEW q, NEW d, NEW f, NEW g, Measured(r, rec, JH, JP, n, x, q, d, f, g),
           r.main # <<>>
    PROVE  MainRead(rec, n, x, d, f, g)
<1> SUFFICES ASSUME NEW B, NEW p
             PROVE  HeaderStep(rec, State(RecHdr + f[n] + x, B, 0, g[n], p))
                      = State(RecHdr + f[n] + x + 1, B, d, g[n] + d, p)
  BY DEF MainRead
<1> USE WalRecordAssumption
<1>1. /\ x \in Nat /\ q = 1 /\ d \in Nat /\ x = Len(r.extras) /\ d = Len(r.main)
      /\ f[n] \in Nat /\ g[n] \in Nat
      /\ ExtrasAt(r, JH) = RecHdr + f[n]
      /\ Len(rec) = RecHdr + f[n] + x + q + g[n] + d
  <2>1. n \in 0 .. n
    BY DEF Measured
  <2> QED
    BY <2>1 DEF Measured
<1>2. PICK a, b \in Nat : a = RecHdr + f[n] + x /\ b = g[n]
  BY <1>1
<1>3. PICK t : t = <<"main", d>>
  OBVIOUS
<1>4. t[1] = "main" /\ t[2] = d
  BY <1>3
<1>5. rec[a + 1] = t
  <2>1. rec[ExtrasAt(r, JH) + Len(r.extras) + 1] = <<"main", Len(r.main)>>
    BY DEF Laid
  <2> QED
    BY <1>1, <1>2, <1>3, <2>1, Zenon
<1> DEFINE s == State(a, B, 0, b, p)
<1>6. s.off = a /\ s.total = b
  BY DEF State
<1>7. Len(rec) - s.off > s.total
  <2>1. Len(rec) = a + q + b + d
    BY <1>1, <1>2, Zenon
  <2>2. (a + q + b + d) - a > b
    BY <1>1
  <2> HIDE DEF s
  <2> QED
    BY <1>6, <2>1, <2>2, Zenon
<1>8. TakeItem(rec, s) = Advanced(s, d)
  <2> HIDE DEF s
  <2> QED
    BY <1>4, <1>5, <1>6 DEF TakeItem, Advanced
<1>9. Advanced(s, d) = State(a + 1, B, d, b + d, p)
  BY MainTaken
<1>10. HeaderStep(rec, s) = State(a + 1, B, d, b + d, p)
  <2> HIDE DEF s
  <2> QED
    BY <1>7, <1>8, <1>9 DEF HeaderStep
<1> QED
  BY <1>2, <1>10

\* Then the loop has nothing left to read.
LEMMA LastRound ==
    ASSUME NEW r, NEW rec, NEW JH, NEW JP,
           NEW n, NEW x, NEW q, NEW d, NEW f, NEW g, Measured(r, rec, JH, JP, n, x, q, d, f, g)
    PROVE  LoopEnds(rec, n, x, q, d, f, g)
<1> SUFFICES ASSUME NEW B, NEW p
             PROVE  HeaderStep(rec, State(RecHdr + f[n] + x + q, B, d, g[n] + d, p))
                      = State(RecHdr + f[n] + x + q, B, d, g[n] + d, p)
  BY DEF LoopEnds
<1> USE WalRecordAssumption
<1>1. /\ x \in Nat /\ q \in Nat /\ d \in Nat /\ f[n] \in Nat /\ g[n] \in Nat
      /\ Len(rec) = RecHdr + f[n] + x + q + g[n] + d
  <2>1. n \in Nat /\ x \in Nat /\ q \in Nat /\ d \in Nat
    BY DEF Measured
  <2>2. f \in [0 .. n -> Nat] /\ g \in [0 .. n -> Nat]
    BY DEF Measured
  <2>3. Len(rec) = RecHdr + f[n] + x + q + g[n] + d
    BY DEF Measured
  <2>4. n \in 0 .. n
    BY <2>1
  <2> QED
    BY <2>1, <2>2, <2>3, <2>4
<1>2. PICK a, b \in Nat : a = RecHdr + f[n] + x + q /\ b = g[n]
  BY <1>1
<1> DEFINE s == State(a, B, d, b + d, p)
<1>3. s.off = a /\ s.total = b + d
  BY DEF State
<1>4. ~(Len(rec) - s.off > s.total)
  <2>1. Len(rec) = a + b + d
    BY <1>1, <1>2, Zenon
  <2>2. ~((a + b + d) - a > b + d)
    BY <1>1
  <2> HIDE DEF s
  <2> QED
    BY <1>3, <2>1, <2>2, Zenon
<1>5. HeaderStep(rec, s) = s
  <2> HIDE DEF s
  <2> QED
    BY <1>4 DEF HeaderStep
<1> QED
  BY <1>2, <1>5

\* So the header loop reads what was written.
LEMMA HeadersAre ==
    ASSUME NEW r, WellFormed(r), NEW rec, NEW JH, NEW JP, Laid(r, rec, JH, JP),
           NEW n, NEW x, NEW q, NEW d, NEW f, NEW g, Measured(r, rec, JH, JP, n, x, q, d, f, g)
    PROVE  Headers(rec) = State(RecHdr + f[n] + x + q, Read(r, n), d, g[n] + d, LastRel(r, n))
<1> USE WalRecordAssumption
<1>1. /\ n \in Nat /\ x \in Nat /\ q \in {0, 1} /\ d \in Nat /\ f[0] = 0 /\ g[0] = 0
      /\ f[n] \in Nat /\ g[n] \in Nat /\ f[0] + (n - 0) <= f[n]
      /\ Len(rec) = RecHdr + f[n] + x + q + g[n] + d
      /\ (r.main = <<>> => d = 0 /\ q = 0) /\ (r.main # <<>> => q = 1)
  <2>1. n \in 0 .. n /\ 0 \in 0 .. n
    BY DEF Measured
  <2> QED
    BY <2>1 DEF Measured
<1>2. PICK N \in Nat : N = Len(rec)
  BY <1>1
<1>3. n + x + q <= N
  <2>1. PICK fn, gn \in Nat : fn = f[n] /\ gn = g[n]
    BY <1>1
  <2>2. n <= fn
    BY <1>1, <2>1
  <2>3. N = RecHdr + fn + x + q + gn + d
    BY <1>1, <1>2, <2>1, Zenon
  <2> QED
    BY <1>1, <2>2, <2>3
<1>4. PICK H : Rounds(H, rec, N) /\ Headers(rec) = H[N]
  BY <1>2, HeadersIs
<1>5. H[0] = HeaderStart /\ \A k \in 0 .. N : k + 1 <= N => H[k + 1] = HeaderStep(rec, H[k])
  BY <1>4, RoundIs
<1> DEFINE A == {k \in Nat : k <= n => H[k] = State(RecHdr + f[k], Read(r, k), 0, g[k], LastRel(r, k))}
<1>6. 0 \in A
  <2>1. RecHdr + f[0] = RecHdr
    BY <1>1
  <2>2. Read(r, 0) = <<>>
    BY DEF Read
  <2>3. HeaderStart = State(RecHdr + f[0], Read(r, 0), 0, g[0], LastRel(r, 0))
    BY <1>1, <2>1, <2>2 DEF HeaderStart, State, LastRel
  <2> QED
    BY <1>5, <2>3
<1>7. ASSUME NEW k \in Nat, k \in A PROVE k + 1 \in A
  <2> SUFFICES ASSUME k + 1 <= n
               PROVE  H[k + 1] = State(RecHdr + f[k + 1], Read(r, k + 1), 0, g[k + 1], LastRel(r, k + 1))
    OBVIOUS
  <2>1. k \in 0 .. N /\ k + 1 <= N /\ k <= n
    BY <1>1, <1>3
  <2>2. H[k] = State(RecHdr + f[k], Read(r, k), 0, g[k], LastRel(r, k))
    BY <1>7, <2>1
  <2>3. H[k + 1] = HeaderStep(rec, H[k])
    BY <1>5, <2>1
  <2>4. BlocksRead(r, rec, n, f, g)
    BY BlockRounds
  <2> HIDE DEF A
  <2>5. HeaderStep(rec, State(RecHdr + f[k], Read(r, k), 0, g[k], LastRel(r, k)))
          = State(RecHdr + f[k + 1], Read(r, k + 1), 0, g[k + 1], LastRel(r, k + 1))
    BY <2>4, Zenon DEF BlocksRead
  <2> QED
    BY <2>2, <2>3, <2>5, Zenon
<1>8. n \in A
  <2> HIDE DEF A
  <2> QED
    BY <1>1, <1>6, <1>7, Inductive
<1>9. H[n] = State(RecHdr + f[n], Read(r, n), 0, g[n], LastRel(r, n))
  BY <1>8
<1> HIDE DEF A
<1>10. PICK B, p : B = Read(r, n) /\ p = LastRel(r, n)
  OBVIOUS
<1> DEFINE E == {k \in Nat : k <= x => H[n + k] = State(RecHdr + f[n] + k, B, 0, g[n], p)}
<1>11. 0 \in E
  <2>1. n + 0 = n /\ RecHdr + f[n] + 0 = RecHdr + f[n]
    BY <1>1
  <2> QED
    BY <1>9, <1>10, <2>1
<1>12. ASSUME NEW k \in Nat, k \in E PROVE k + 1 \in E
  <2> SUFFICES ASSUME k + 1 <= x
               PROVE  H[n + (k + 1)] = State(RecHdr + f[n] + (k + 1), B, 0, g[n], p)
    OBVIOUS
  <2>1. n + k \in 0 .. N /\ (n + k) + 1 <= N /\ k <= x /\ (n + k) + 1 = n + (k + 1)
    BY <1>1, <1>3
  <2>2. H[n + k] = State(RecHdr + f[n] + k, B, 0, g[n], p)
    BY <1>12, <2>1
  <2>3. H[(n + k) + 1] = HeaderStep(rec, H[n + k])
    BY <1>5, <2>1
  <2>4. HeaderStep(rec, State(RecHdr + f[n] + k, B, 0, g[n], p))
          = State(RecHdr + f[n] + (k + 1), B, 0, g[n], p)
    <3>1. ExtrasRead(rec, n, x, f, g)
      BY ExtraRound
    <3> QED
      BY <3>1, Zenon DEF ExtrasRead
  <2> HIDE DEF E
  <2> QED
    BY <2>1, <2>2, <2>3, <2>4, Zenon
<1>13. x \in E
  <2> HIDE DEF E
  <2> QED
    BY <1>1, <1>11, <1>12, Inductive
<1>14. H[n + x] = State(RecHdr + f[n] + x, B, 0, g[n], p)
  BY <1>1, <1>13
<1> HIDE DEF E
<1>15. H[n + x + q] = State(RecHdr + f[n] + x + q, B, d, g[n] + d, p)
  <2>1. CASE r.main = <<>>
    <3>1. n + x + q = n + x /\ RecHdr + f[n] + x + q = RecHdr + f[n] + x /\ d = 0 /\ g[n] + d = g[n]
      BY <1>1, <2>1
    <3> QED
      BY <1>14, <3>1, Zenon
  <2>2. CASE r.main # <<>>
    <3>1. q = 1 /\ n + x \in 0 .. N /\ (n + x) + 1 <= N
      BY <1>1, <1>3, <2>2
    <3>2. H[(n + x) + 1] = HeaderStep(rec, H[n + x])
      BY <1>5, <3>1
    <3>3. HeaderStep(rec, State(RecHdr + f[n] + x, B, 0, g[n], p))
            = State(RecHdr + f[n] + x + 1, B, d, g[n] + d, p)
      <4>1. MainRead(rec, n, x, d, f, g)
        BY <2>2, MainRound
      <4> QED
        BY <4>1, Zenon DEF MainRead
    <3> QED
      BY <1>14, <3>1, <3>2, <3>3, Zenon
  <2> QED
    BY <2>1, <2>2
<1>16. PICK s, m : s = State(RecHdr + f[n] + x + q, B, d, g[n] + d, p) /\ m = n + x + q
  OBVIOUS
<1>17. m \in Nat /\ m <= N
  BY <1>1, <1>3, <1>16
<1>18. HeaderStep(rec, s) = s
  <2>1. LoopEnds(rec, n, x, q, d, f, g)
    BY LastRound
  <2> QED
    BY <1>16, <2>1, Zenon DEF LoopEnds
<1> DEFINE Z == {k \in Nat : m + k <= N => H[m + k] = s}
<1>19. 0 \in Z
  <2>1. m + 0 = m
    BY <1>17
  <2> QED
    BY <1>15, <1>16, <2>1
<1>20. ASSUME NEW k \in Nat, k \in Z PROVE k + 1 \in Z
  <2> SUFFICES ASSUME m + (k + 1) <= N PROVE H[m + (k + 1)] = s
    OBVIOUS
  <2>1. m + k \in 0 .. N /\ (m + k) + 1 <= N /\ (m + k) + 1 = m + (k + 1)
    BY <1>17
  <2>2. H[m + k] = s
    BY <1>20, <2>1
  <2>3. H[(m + k) + 1] = HeaderStep(rec, H[m + k])
    BY <1>5, <2>1
  <2> QED
    BY <1>18, <2>1, <2>2, <2>3, Zenon
<1>21. \A k \in Nat : k \in Z
  <2> HIDE DEF Z
  <2> QED
    BY <1>19, <1>20, Inductive
<1>22. H[N] = s
  <2>1. N - m \in Nat /\ m + (N - m) = N /\ m + (N - m) <= N
    BY <1>17
  <2>2. N - m \in Z
    BY <1>21, <2>1
  <2> QED
    BY <2>1, <2>2
<1> QED
  BY <1>4, <1>10, <1>16, <1>22, Zenon

-----------------------------------------------------------------------------
\* The data section.

\* What the header of block k of a record says.
LEMMA ReadIs ==
    ASSUME NEW r, NEW n \in Nat, NEW k \in 1 .. n
    PROVE  Read(r, n)[k] = Parsed(r.blocks[k])
BY DEF Read

\* The lengths it announces.
LEMMA ParsedLens ==
    ASSUME NEW b, IsBlock(b)
    PROVE  /\ Parsed(b).imageLen = ImgLen(b) /\ Parsed(b).dataLen = Len(b.data)
           /\ ImgLen(b) \in Nat /\ Len(b.data) \in Nat
           /\ Len(BlockPayload(b)) = ImgLen(b) + Len(b.data)
<1>1. Parsed(b).imageLen = ImgLen(b) /\ Parsed(b).dataLen = Len(b.data)
  BY DEF Parsed
<1>2. /\ ImgLen(b) \in Nat /\ Len(b.data) \in Nat
      /\ Len(BlockPayload(b)) = ImgLen(b) + Len(b.data)
  BY PayloadIs
<1> QED
  BY <1>1, <1>2

\* The payload of a block starts where those before it end.
Announces(h, n, g) ==
    /\ n \in Nat /\ g \in [0 .. n -> Nat] /\ g[0] = 0 /\ h.off \in Nat
    /\ \A j \in 1 .. n : /\ h.blocks[j].imageLen \in Nat /\ h.blocks[j].dataLen \in Nat
                         /\ g[j] = g[j - 1] + (h.blocks[j].imageLen + h.blocks[j].dataLen)

\* So PayloadAt finds it.
LEMMA PayloadStarts ==
    ASSUME NEW n, NEW g, NEW h, Announces(h, n, g), NEW k \in 1 .. n
    PROVE  PayloadAt(h, k) = h.off + g[k - 1]
<1>0. /\ n \in Nat /\ g \in [0 .. n -> Nat] /\ g[0] = 0 /\ h.off \in Nat
      /\ \A j \in 1 .. n : /\ h.blocks[j].imageLen \in Nat /\ h.blocks[j].dataLen \in Nat
                           /\ g[j] = g[j - 1] + (h.blocks[j].imageLen + h.blocks[j].dataLen)
  BY DEF Announces
<1> USE <1>0
<1>1. PICK o \in Nat : o = h.off
  OBVIOUS
<1> DEFINE Fits(P) == P = [j \in 1 .. k |->
                             IF j = 1 THEN h.off
                             ELSE P[j - 1] + h.blocks[j - 1].imageLen + h.blocks[j - 1].dataLen]
<1>2. ASSUME NEW j \in 1 .. k, j # 1
      PROVE  (o + g[(j - 1) - 1]) + h.blocks[j - 1].imageLen + h.blocks[j - 1].dataLen = o + g[j - 1]
  <2>1. j - 1 \in 1 .. n /\ (j - 1) - 1 \in 0 .. n
    BY <1>2
  <2>2. PICK a, i, d \in Nat : a = g[(j - 1) - 1] /\ i = h.blocks[j - 1].imageLen /\ d = h.blocks[j - 1].dataLen
    BY <2>1
  <2>3. g[j - 1] = a + (i + d)
    <3>1. PICK m : m = j - 1
      OBVIOUS
    <3>2. g[m] = g[m - 1] + (h.blocks[m].imageLen + h.blocks[m].dataLen)
      BY <2>1, <3>1
    <3> QED
      BY <2>2, <3>1, <3>2, Zenon
  <2>4. (o + a) + i + d = o + (a + (i + d))
    <3> HIDE <1>0
    <3> QED
      OBVIOUS
  <2> QED
    BY <2>2, <2>3, <2>4
<1>3. PICK F : F = [j \in 1 .. k |-> o + g[j - 1]]
  OBVIOUS
<1>4. Fits(F)
  <2>1. ASSUME NEW j \in 1 .. k
        PROVE  o + g[j - 1] = IF j = 1 THEN h.off
                              ELSE F[j - 1] + h.blocks[j - 1].imageLen + h.blocks[j - 1].dataLen
    <3>1. CASE j = 1
      <4>1. j - 1 = 0
        BY <3>1
      <4> QED
        BY <1>1, <3>1, <4>1
    <3>2. CASE j # 1
      <4>1. j - 1 \in 1 .. k
        BY <3>2
      <4>2. F[j - 1] = o + g[(j - 1) - 1]
        BY <1>3, <4>1
      <4>3. (o + g[(j - 1) - 1]) + h.blocks[j - 1].imageLen + h.blocks[j - 1].dataLen = o + g[j - 1]
        BY <1>2, <3>2
      <4> QED
        BY <3>2, <4>2, <4>3
    <3> QED
      BY <3>1, <3>2
  <2> QED
    BY <1>3, <2>1
<1>5. PayloadAt(h, k) = (CHOOSE P : Fits(P))[k]
  BY DEF PayloadAt
<1>6. PICK P : P = CHOOSE Q : Fits(Q)
  OBVIOUS
<1>7. Fits(P)
  <2> HIDE DEF Fits
  <2> QED
    BY <1>4, <1>6
<1> DEFINE S == {j \in Nat : j + 1 <= k => P[j + 1] = o + g[j]}
<1>8. 0 \in S
  <2>1. 1 \in 1 .. k /\ 0 + 1 = 1
    OBVIOUS
  <2>2. P[1] = h.off
    BY <1>7, <2>1
  <2> QED
    BY <1>1, <2>1, <2>2
<1>9. ASSUME NEW j \in Nat, j \in S PROVE j + 1 \in S
  <2> SUFFICES ASSUME (j + 1) + 1 <= k PROVE P[(j + 1) + 1] = o + g[j + 1]
    OBVIOUS
  <2>1. PICK i : i = (j + 1) + 1
    OBVIOUS
  <2>2. i \in 1 .. k /\ i # 1 /\ i - 1 = j + 1 /\ (i - 1) - 1 = j /\ j + 1 <= k
    BY <2>1
  <2>3. P[i] = P[i - 1] + h.blocks[i - 1].imageLen + h.blocks[i - 1].dataLen
    BY <1>7, <2>2
  <2>4. P[i - 1] = o + g[(i - 1) - 1]
    BY <1>9, <2>2
  <2>5. (o + g[(i - 1) - 1]) + h.blocks[i - 1].imageLen + h.blocks[i - 1].dataLen = o + g[i - 1]
    BY <1>2, <2>2
  <2>6. P[i] = o + g[i - 1]
    BY <2>3, <2>4, <2>5
  <2> QED
    BY <2>1, <2>2, <2>6
<1>10. \A j \in Nat : j \in S
  <2> HIDE DEF S
  <2> QED
    BY <1>8, <1>9, Inductive
<1>11. P[k] = o + g[k - 1]
  <2>1. k - 1 \in Nat /\ (k - 1) + 1 = k /\ (k - 1) + 1 <= k
    OBVIOUS
  <2>2. k - 1 \in S
    BY <1>10, <2>1
  <2> QED
    BY <2>1, <2>2
<1> QED
  BY <1>1, <1>5, <1>6, <1>11

\* An image is restored to the page it was taken of.
LEMMA Restored ==
    ASSUME NEW img, IsImage(img)
    PROVE  Restore(Unpack(ImageData(img), img.packed, BlckSz - img.hole), img.off, img.hole) = img.page
<1> USE WalRecordAssumption
<1>1. /\ img.packed => ImageData(img)[1][2] = Body(img)
      /\ ~img.packed => ImageData(img) = Body(img)
  BY ImageDataIs
<1>2. Len(Body(img)) = BlckSz - img.hole
  BY BodyIs
<1>3. Unpack(ImageData(img), img.packed, BlckSz - img.hole) = Body(img)
  BY <1>1, <1>2 DEF Unpack
<1>4. Restore(Body(img), img.off, img.hole) = img.page
  BY RestoreIs
<1> QED
  BY <1>3, <1>4

\* What is read of a block whose payload stands at `at`.
Extracted(rec, b, at) ==
    [id |-> b.id, rel |-> b.rel, blkno |-> b.blkno,
     data |-> SubSeq(rec, at + b.imageLen + 1, at + b.imageLen + b.dataLen),
     page |-> IF b.hasImage
              THEN Restore(Unpack(SubSeq(rec, at + 1, at + b.imageLen), b.packed, BlckSz - b.hole),
                           b.off, b.hole)
              ELSE Null]

Meant(b) == [id |-> b.id, rel |-> b.rel, blkno |-> b.blkno, data |-> b.data,
             page |-> IF b.image = Null THEN Null ELSE b.image.page]

\* It is what the block means.
LEMMA ExtractedIs ==
    ASSUME NEW rec, IsSeq(rec), NEW b, IsBlock(b), NEW at, Lies(rec, at, BlockPayload(b))
    PROVE  Extracted(rec, Parsed(b), at) = Meant(b)
<1>1. PICK s : /\ IsSeq(s) /\ Len(s) = ImgLen(b) /\ BlockPayload(b) = s \o b.data
               /\ b.image # Null => s = ImageData(b.image)
  BY PayloadIs
<1>2. IsSeq(b.data) /\ (b.image # Null => IsImage(b.image))
  BY DEF IsBlock
<1>3. Lies(rec, at, s) /\ Lies(rec, at + Len(s), b.data)
  BY <1>1, <1>2, LiesParts
<1>4. SubSeq(rec, at + 1, at + Len(s)) = s
  BY <1>3, LiesCut
<1>5. SubSeq(rec, (at + Len(s)) + 1, (at + Len(s)) + Len(b.data)) = b.data
  BY <1>3, LiesCut
<1>6. PICK c : c = Parsed(b)
  OBVIOUS
<1>7. /\ c.id = b.id /\ c.rel = b.rel /\ c.blkno = b.blkno /\ c.hasImage = (b.image # Null)
      /\ c.imageLen = ImgLen(b) /\ c.dataLen = Len(b.data)
      /\ c.off = (IF b.image # Null THEN b.image.off ELSE 0)
      /\ c.hole = (IF b.image # Null THEN b.image.hole ELSE 0)
      /\ c.packed = (b.image # Null /\ b.image.packed)
  BY <1>6 DEF Parsed
<1>8. SubSeq(rec, at + c.imageLen + 1, at + c.imageLen + c.dataLen) = b.data
  BY <1>1, <1>5, <1>7, Zenon
<1>9. SubSeq(rec, at + 1, at + c.imageLen) = s
  BY <1>1, <1>4, <1>7, Zenon
<1>10. (IF c.hasImage
        THEN Restore(Unpack(SubSeq(rec, at + 1, at + c.imageLen), c.packed, BlckSz - c.hole),
                     c.off, c.hole)
        ELSE Null) = IF b.image = Null THEN Null ELSE b.image.page
  <2>1. CASE b.image = Null
    BY <1>7, <2>1
  <2>2. CASE b.image # Null
    <3>1. IsImage(b.image) /\ s = ImageData(b.image)
      BY <1>1, <1>2, <2>2
    <3>2. b.image.packed \in BOOLEAN
      BY <3>1 DEF IsImage
    <3>3. c.hasImage /\ c.off = b.image.off /\ c.hole = b.image.hole /\ c.packed = b.image.packed
      BY <1>7, <2>2, <3>2
    <3>4. Restore(Unpack(s, b.image.packed, BlckSz - b.image.hole), b.image.off, b.image.hole)
            = b.image.page
      BY <3>1, Restored, Zenon
    <3> QED
      BY <1>9, <2>2, <3>3, <3>4, Zenon
  <2> QED
    BY <2>1, <2>2
<1>11. Extracted(rec, c, at) = Meant(b)
  BY <1>7, <1>8, <1>10, Zenon DEF Extracted, Meant
<1> QED
  BY <1>6, <1>11

\* parse_record gives back what the server put into the record: for every
\* well-formed record, with any number of blocks, images of pages with and
\* without a hole, packed or not, relations named or taken from the block
\* before, extras, and main data.
THEOREM ParseInverts ==
    ASSUME NEW r, WellFormed(r)
    PROVE  ParseRecord(Encode(r)) = Meaning(r)
<1> USE WalRecordAssumption
<1>1. PICK rec : rec = Encode(r)
  OBVIOUS
<1>2. PICK JH, JP : Laid(r, rec, JH, JP)
  BY <1>1, RecordLaid
<1>3. PICK n, x, q, d, f, g : Measured(r, rec, JH, JP, n, x, q, d, f, g)
  BY <1>2, Measures
<1>4. n \in Nat /\ n = Len(r.blocks) /\ x \in Nat /\ q \in Nat /\ d \in Nat /\ d = Len(r.main)
  BY <1>3 DEF Measured
<1>5. f \in [0 .. n -> Nat] /\ g \in [0 .. n -> Nat] /\ g[0] = 0 /\ n \in 0 .. n
  BY <1>3, <1>4 DEF Measured
<1>6. PICK o \in Nat : o = RecHdr + f[n] + x + q
  BY <1>4, <1>5
<1>7. DataAt(r, JH) = o /\ MainAt(r, JH, JP) = o + g[n]
  <2>1. DataAt(r, JH) = RecHdr + f[n] + x + q /\ MainAt(r, JH, JP) = RecHdr + f[n] + x + q + g[n]
    BY <1>3, Zenon DEF Measured
  <2> QED
    BY <1>6, <2>1, Zenon
<1>8. PICK h : h = Headers(rec)
  OBVIOUS
<1>9. h = State(o, Read(r, n), d, g[n] + d, LastRel(r, n))
  <2>1. Headers(rec) = State(RecHdr + f[n] + x + q, Read(r, n), d, g[n] + d, LastRel(r, n))
    BY <1>2, <1>3, HeadersAre
  <2> QED
    BY <1>6, <1>8, <2>1, Zenon
<1>10. h.off = o /\ h.blocks = Read(r, n) /\ h.main = d
  BY <1>9 DEF State
<1>11. Len(h.blocks) = n
  <2>1. PICK F : F = Read(r, n)
    OBVIOUS
  <2>2. F = [k \in 1 .. n |-> F[k]]
    BY <2>1 DEF Read
  <2>3. Len(F) = n
    BY <1>4, <2>2, FunSeq
  <2> QED
    BY <1>10, <2>1, <2>3
<1>12. \A k \in 1 .. n : IsBlock(r.blocks[k])
  BY <1>4, RecordParts
<1>13. \A k \in 1 .. n : h.blocks[k] = Parsed(r.blocks[k])
  BY <1>4, <1>10, ReadIs
<1>14. \A j \in 1 .. n : /\ h.blocks[j].imageLen \in Nat /\ h.blocks[j].dataLen \in Nat
                         /\ g[j] = g[j - 1] + (h.blocks[j].imageLen + h.blocks[j].dataLen)
  <2> SUFFICES ASSUME NEW j \in 1 .. n
               PROVE  /\ h.blocks[j].imageLen \in Nat /\ h.blocks[j].dataLen \in Nat
                      /\ g[j] = g[j - 1] + (h.blocks[j].imageLen + h.blocks[j].dataLen)
    OBVIOUS
  <2>1. \A i \in 1 .. n : g[i] = g[i - 1] + Len(BlockPayload(r.blocks[i]))
    BY <1>3, Zenon DEF Measured
  <2>2. g[j] = g[j - 1] + Len(BlockPayload(r.blocks[j]))
    BY <2>1, Zenon
  <2>3. PICK b : b = r.blocks[j]
    OBVIOUS
  <2>4. IsBlock(b) /\ h.blocks[j] = Parsed(b)
    BY <1>12, <1>13, <2>3
  <2>5. /\ Parsed(b).imageLen = ImgLen(b) /\ Parsed(b).dataLen = Len(b.data)
        /\ ImgLen(b) \in Nat /\ Len(b.data) \in Nat
        /\ Len(BlockPayload(b)) = ImgLen(b) + Len(b.data)
    BY <2>4, ParsedLens
  <2> QED
    BY <2>2, <2>3, <2>4, <2>5, Zenon
<1>15. \A k \in 1 .. n : PayloadAt(h, k) = o + g[k - 1]
  <2> SUFFICES ASSUME NEW k \in 1 .. n PROVE PayloadAt(h, k) = o + g[k - 1]
    OBVIOUS
  <2>1. h.off \in Nat
    BY <1>6, <1>10
  <2>2. Announces(h, n, g)
    BY <1>4, <1>5, <1>14, <2>1 DEF Announces
  <2>3. PayloadAt(h, k) = h.off + g[k - 1]
    BY <2>2, PayloadStarts
  <2> QED
    BY <1>10, <2>3
<1>16. \A k \in 1 .. n : Lies(rec, o + g[k - 1], BlockPayload(r.blocks[k]))
  <2> SUFFICES ASSUME NEW k \in 1 .. n PROVE Lies(rec, o + g[k - 1], BlockPayload(r.blocks[k]))
    OBVIOUS
  <2>1. IsSeq(rec) /\ Lies(rec, o, JP[n]) /\ Joins(JP, Loaded(r), n)
    BY <1>2, <1>4, <1>7 DEF Laid
  <2>2. Parts(Loaded(r), n)
    BY <1>4, RecordParts
  <2>3. \A i \in 1 .. n : Lies(rec, o + Len(JP[i - 1]), Loaded(r)[i])
    BY <1>4, <2>1, <2>2, JoinLies
  <2>4. Loaded(r)[k] = BlockPayload(r.blocks[k])
    BY <1>4 DEF Loaded
  <2>5. k - 1 \in 0 .. n
    BY <1>4
  <2>6. \A i \in 0 .. n : f[i] = Len(JH[i]) /\ g[i] = Len(JP[i])
    BY <1>3, Zenon DEF Measured
  <2>7. Len(JP[k - 1]) = g[k - 1]
    BY <2>5, <2>6, Zenon
  <2> QED
    BY <2>3, <2>4, <2>7, Zenon
<1>17. IsSeq(rec) /\ rec[RecHdr] = <<"fixed", r.id>> /\ Lies(rec, o + g[n], r.main)
  BY <1>2, <1>7 DEF Laid
<1>18. ASSUME NEW k \in 1 .. n PROVE ParseBlock(rec, h, k) = Meant(r.blocks[k])
  <2>1. PICK b, at : b = r.blocks[k] /\ at = o + g[k - 1]
    OBVIOUS
  <2>2. IsBlock(b) /\ Lies(rec, at, BlockPayload(b))
    BY <1>12, <1>16, <2>1
  <2>3. Extracted(rec, Parsed(b), at) = Meant(b)
    BY <1>17, <2>2, ExtractedIs
  <2>4. ParseBlock(rec, h, k) = Extracted(rec, h.blocks[k], PayloadAt(h, k))
    BY DEF ParseBlock, Extracted
  <2>5. PayloadAt(h, k) = at /\ h.blocks[k] = Parsed(b)
    BY <1>13, <1>15, <2>1
  <2> QED
    BY <2>1, <2>3, <2>4, <2>5, Zenon
<1>19. PICK m : m = IF n = 0 THEN h.off
                    ELSE PayloadAt(h, n) + h.blocks[n].imageLen + h.blocks[n].dataLen
  OBVIOUS
<1>20. m = o + g[n]
  <2>1. CASE n = 0
    <3>1. o + g[n] = o
      BY <1>5, <1>6, <2>1
    <3> QED
      BY <1>10, <1>19, <2>1, <3>1
  <2>2. CASE n # 0
    <3>1. n \in 1 .. n /\ n - 1 \in 0 .. n
      BY <1>4, <2>2
    <3>2. PICK i, e, a \in Nat : i = h.blocks[n].imageLen /\ e = h.blocks[n].dataLen /\ a = g[n - 1]
      BY <1>5, <1>14, <3>1
    <3>3. g[n] = a + (i + e)
      BY <1>14, <3>1, <3>2
    <3>4. m = (o + a) + i + e
      BY <1>15, <1>19, <2>2, <3>1, <3>2
    <3>5. (o + a) + i + e = o + (a + (i + e))
      BY <1>6, <3>2
    <3> QED
      BY <3>3, <3>4, <3>5, Zenon
  <2> QED
    BY <2>1, <2>2
<1>21. SubSeq(rec, m + 1, m + h.main) = r.main
  <2>1. SubSeq(rec, (o + g[n]) + 1, (o + g[n]) + Len(r.main)) = r.main
    BY <1>17, LiesCut
  <2> QED
    BY <1>4, <1>10, <1>20, <2>1, Zenon
<1>22. rec[RecHdr][2] = r.id
  BY <1>17
<1>23. PICK B : B = [k \in 1 .. n |-> ParseBlock(rec, h, k)]
  OBVIOUS
<1>24. B = [k \in 1 .. n |-> Meant(r.blocks[k])]
  BY <1>18, <1>23
<1>25. ParseRecord(rec) = [id |-> rec[RecHdr][2], blocks |-> B, main |-> SubSeq(rec, m + 1, m + h.main)]
  BY <1>8, <1>11, <1>19, <1>23, Zenon DEF ParseRecord
<1>26. Meaning(r) = [id |-> r.id, blocks |-> [k \in 1 .. n |-> Meant(r.blocks[k])], main |-> r.main]
  BY <1>4, Zenon DEF Meaning, Meant
<1> QED
  BY <1>1, <1>21, <1>22, <1>24, <1>25, <1>26, Zenon
=============================================================================
