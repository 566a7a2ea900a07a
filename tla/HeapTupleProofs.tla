--------------------------- MODULE HeapTupleProofs ---------------------------
(***************************************************************************)
(* Proofs about module HeapTuple, for any tables, values and byte widths:  *)
(* decoding inverts what the server stores, and the row and bytes that the *)
(* engine knows stay those of the source.                                  *)
(***************************************************************************)
EXTENDS HeapTuple, WalRecordProofs, FiniteSetTheorems

-----------------------------------------------------------------------------
\* Arithmetic.

\* What is assumed of the constants, as types.
LEMMA Widths ==
    /\ BitsPerByte \in Nat \ {0} /\ ItemsPerCtrl \in Nat \ {0} /\ PtrLen \in Nat \ {0}
    /\ ShortMax \in Nat /\ MaxNibble \in Nat
BY HeapTupleAssumption

\* Division with remainder.
LEMMA DivIs ==
    ASSUME NEW a \in Nat, NEW b \in Nat \ {0}
    PROVE  /\ a \div b \in Nat /\ a % b \in Nat /\ a % b < b
           /\ a = (a \div b) * b + (a % b)
OBVIOUS

\* Quotient and remainder are the only ones.
LEMMA DivUnique ==
    ASSUME NEW b \in Nat \ {0}, NEW q \in Nat, NEW r \in Nat, r < b
    PROVE  (q * b + r) \div b = q /\ (q * b + r) % b = r
OBVIOUS

\* One period back, the remainder is the same.
LEMMA ModBack ==
    ASSUME NEW a \in Nat, NEW b \in Nat \ {0}, a >= b
    PROVE  a % b = (a - b) % b
<1>1. PICK c \in Nat : c = a - b
  OBVIOUS
<1>2. PICK q \in Nat : q = c \div b
  BY DivIs
<1>3. PICK r \in Nat : r = c % b /\ r < b
  BY DivIs
<1>4. c = q * b + r
  BY <1>2, <1>3, DivIs
<1>5. a = (q + 1) * b + r
  BY <1>1, <1>4
<1>6. q + 1 \in Nat
  OBVIOUS
<1>7. ((q + 1) * b + r) % b = r
  BY <1>3, <1>6, DivUnique
<1> QED
  BY <1>1, <1>3, <1>5, <1>7

\* Below the divisor a number is its remainder.
LEMMA ModSmall ==
    ASSUME NEW a \in Nat, NEW b \in Nat \ {0}, a < b
    PROVE  a % b = a /\ a \div b = 0
<1>1. 0 * b + a = a
  OBVIOUS
<1> QED
  BY <1>1, DivUnique

\* The next number.
LEMMA ModNext ==
    ASSUME NEW a \in Nat, NEW b \in Nat \ {0}
    PROVE  (a + 1) % b = IF (a % b) + 1 = b THEN 0 ELSE (a % b) + 1
<1>1. PICK q \in Nat : q = a \div b
  BY DivIs
<1>2. PICK r \in Nat : r = a % b /\ r < b
  BY DivIs
<1>3. a = q * b + r
  BY <1>1, <1>2, DivIs
<1>4. CASE r + 1 = b
  <2>1. a + 1 = (q + 1) * b + 0 /\ q + 1 \in Nat
    BY <1>3, <1>4
  <2>2. ((q + 1) * b + 0) % b = 0
    BY <2>1, DivUnique
  <2> QED
    BY <1>2, <1>4, <2>1, <2>2
<1>5. CASE r + 1 # b
  <2>1. a + 1 = q * b + (r + 1) /\ r + 1 \in Nat /\ r + 1 < b
    BY <1>2, <1>3, <1>5
  <2>2. (q * b + (r + 1)) % b = r + 1
    BY <2>1, DivUnique
  <2> QED
    BY <1>2, <1>5, <2>1, <2>2
<1> QED
  BY <1>4, <1>5

\* Alignment never goes back.
LEMMA AlignIs ==
    ASSUME NEW off \in Nat, NEW a \in Nat \ {0}
    PROVE  align_to(off, a) \in Nat /\ align_to(off, a) >= off
<1>1. PICK b \in Nat : b = off + a - 1
  OBVIOUS
<1>2. PICK q \in Nat : q = b \div a
  BY DivIs
<1>3. PICK r \in Nat : r = b % a /\ r < a
  BY DivIs
<1>4. b = q * a + r /\ q * a \in Nat
  BY <1>2, <1>3, DivIs
<1>5. q * a >= off
  BY <1>1, <1>3, <1>4
<1> QED
  BY <1>1, <1>2, <1>4, <1>5 DEF align_to

\* Padding.
LEMMA FillerIs ==
    ASSUME NEW n \in Nat
    PROVE  IsSeq(Filler(n)) /\ Len(Filler(n)) = n /\ \A k \in 1 .. n : Filler(n)[k] = Zero
<1>1. Filler(n) = [k \in 1 .. n |-> Filler(n)[k]]
  BY DEF Filler
<1>2. IsSeq(Filler(n)) /\ Len(Filler(n)) = n
  BY <1>1, FunSeq
<1> QED
  BY <1>2 DEF Filler

\* One more element.
LEMMA AppendIs ==
    ASSUME NEW s, IsSeq(s), NEW e
    PROVE  /\ IsSeq(Append(s, e)) /\ Len(Append(s, e)) = Len(s) + 1
           /\ Append(s, e)[Len(s) + 1] = e
           /\ \A k \in 1 .. Len(s) : Append(s, e)[k] = s[k]
<1>1. PICK S : s \in Seq(S)
  BY DEF IsSeq
<1>2. s \in Seq(S \cup {e}) /\ e \in S \cup {e}
  BY <1>1
<1>3. Append(s, e) \in Seq(S \cup {e})
  BY <1>2
<1>4. IsSeq(Append(s, e))
  BY <1>3, SeqIs
<1>5. /\ Len(Append(s, e)) = Len(s) + 1 /\ Append(s, e)[Len(s) + 1] = e
      /\ \A k \in 1 .. Len(s) : Append(s, e)[k] = s[k]
  BY <1>2
<1> QED
  BY <1>4, <1>5

\* An empty, a one-element, a two- and a three-element sequence.
LEMMA ShortSeqs ==
    ASSUME NEW a, NEW b, NEW c
    PROVE  /\ IsSeq(<<>>) /\ Len(<<>>) = 0
           /\ IsSeq(<<a>>) /\ Len(<<a>>) = 1 /\ <<a>>[1] = a
           /\ IsSeq(<<a, b>>) /\ Len(<<a, b>>) = 2 /\ <<a, b>>[1] = a /\ <<a, b>>[2] = b
           /\ IsSeq(<<a, b, c>>) /\ Len(<<a, b, c>>) = 3
           /\ <<a, b, c>>[1] = a /\ <<a, b, c>>[2] = b /\ <<a, b, c>>[3] = c
<1>1. <<>> \in Seq({a}) /\ <<a>> \in Seq({a}) /\ <<a, b>> \in Seq({a, b}) /\ <<a, b, c>> \in Seq({a, b, c})
  OBVIOUS
<1>2. IsSeq(<<>>) /\ IsSeq(<<a>>) /\ IsSeq(<<a, b>>) /\ IsSeq(<<a, b, c>>)
  BY <1>1, SeqIs
<1> QED
  BY <1>2

-----------------------------------------------------------------------------
\* pglz.

\* What stands off bytes back, repeated.
Repeat(out, off, n) == [i \in 1 .. n |-> out[Len(out) - off + 1 + ((i - 1) % off)]]

\* The states of a byte-wise copy.
Copies(c, out, off, n) == c = [k \in 0 .. n |-> IF k = 0 THEN out ELSE CopyByte(c[k - 1], off)]

\* One more byte of an overlapping copy.
LEMMA CopyByteIs ==
    ASSUME NEW out, IsSeq(out), NEW off \in Nat \ {0}, off <= Len(out), NEW k \in Nat
    PROVE  CopyByte(out \o Repeat(out, off, k), off) = out \o Repeat(out, off, k + 1)
<1> DEFINE prev == out \o Repeat(out, off, k)
           next == out \o Repeat(out, off, k + 1)
<1>1. Len(out) \in Nat
  BY SeqLen
<1>2. ASSUME NEW n \in Nat
      PROVE  IsSeq(Repeat(out, off, n)) /\ Len(Repeat(out, off, n)) = n
  BY FunSeq DEF Repeat
<1>3. \A n \in Nat : \A i \in 1 .. n : Repeat(out, off, n)[i] = out[Len(out) - off + 1 + ((i - 1) % off)]
  BY DEF Repeat
<1>4. k + 1 \in Nat
  OBVIOUS
<1>5. /\ IsSeq(prev) /\ Len(prev) = Len(out) + k
      /\ \A i \in 1 .. Len(out) : prev[i] = out[i]
      /\ \A i \in 1 .. k : prev[Len(out) + i] = Repeat(out, off, k)[i]
  <2>1. IsSeq(Repeat(out, off, k)) /\ Len(Repeat(out, off, k)) = k
    BY <1>2
  <2>2. PICK s : s = Repeat(out, off, k)
    OBVIOUS
  <2> QED
    BY <2>1, <2>2, Concat
<1>6. /\ IsSeq(next) /\ Len(next) = Len(out) + (k + 1)
      /\ \A i \in 1 .. Len(out) : next[i] = out[i]
      /\ \A i \in 1 .. k + 1 : next[Len(out) + i] = Repeat(out, off, k + 1)[i]
  <2>1. IsSeq(Repeat(out, off, k + 1)) /\ Len(Repeat(out, off, k + 1)) = k + 1
    BY <1>2, <1>4
  <2>2. PICK s : s = Repeat(out, off, k + 1)
    OBVIOUS
  <2> QED
    BY <2>1, <2>2, Concat
<1>7. PICK e : e = prev[Len(prev) + 1 - off]
  OBVIOUS
<1>8. CopyByte(prev, off) = Append(prev, e)
  BY <1>7 DEF CopyByte
<1> HIDE DEF prev, next
<1>9. e = out[Len(out) - off + 1 + (k % off)]
  <2>1. CASE k < off
    <3>1. k % off = k
      BY <2>1, ModSmall
    <3>2. Len(prev) + 1 - off = Len(out) - off + 1 + k /\ Len(prev) + 1 - off \in 1 .. Len(out)
      BY <1>1, <1>5, <2>1
    <3> QED
      BY <1>5, <1>7, <3>1, <3>2
  <2>2. CASE k >= off
    <3>1. PICK i \in Nat : i = k + 1 - off
      BY <2>2
    <3>2. i \in 1 .. k /\ Len(prev) + 1 - off = Len(out) + i /\ i - 1 = k - off
      BY <1>1, <1>5, <2>2, <3>1
    <3>3. e = Repeat(out, off, k)[i]
      BY <1>5, <1>7, <3>2
    <3>4. e = out[Len(out) - off + 1 + ((i - 1) % off)]
      BY <1>3, <3>2, <3>3
    <3>5. k % off = (k - off) % off
      BY <2>2, ModBack
    <3> QED
      BY <3>2, <3>4, <3>5
  <2> QED
    BY <2>1, <2>2
<1>10. PICK t : t = Append(prev, e)
  OBVIOUS
<1>11. /\ IsSeq(t) /\ Len(t) = Len(prev) + 1 /\ t[Len(prev) + 1] = e
       /\ \A i \in 1 .. Len(prev) : t[i] = prev[i]
  BY <1>5, <1>10, AppendIs
<1>12. ASSUME NEW i \in 1 .. Len(t) PROVE t[i] = next[i]
  <2>1. CASE i \in 1 .. Len(out)
    BY <1>1, <1>5, <1>6, <1>11, <2>1
  <2>2. CASE i = Len(out) + k + 1
    <3>1. t[i] = e
      BY <1>1, <1>5, <1>11, <2>2
    <3>2. k + 1 \in 1 .. k + 1 /\ i = Len(out) + (k + 1)
      BY <1>1, <2>2
    <3>3. next[i] = Repeat(out, off, k + 1)[k + 1]
      BY <1>6, <3>2
    <3>4. Repeat(out, off, k + 1)[k + 1] = out[Len(out) - off + 1 + (((k + 1) - 1) % off)] /\ (k + 1) - 1 = k
      BY <1>3, <1>4, <3>2
    <3> QED
      BY <1>9, <3>1, <3>3, <3>4
  <2>3. CASE i \notin 1 .. Len(out) /\ i # Len(out) + k + 1
    <3>1. PICK j \in 1 .. k : i = Len(out) + j
      <4>1. i - Len(out) \in 1 .. k /\ i = Len(out) + (i - Len(out))
        BY <1>1, <1>5, <1>11, <2>3
      <4> QED
        BY <4>1
    <3>2. t[i] = prev[i] /\ prev[i] = Repeat(out, off, k)[j]
      BY <1>1, <1>5, <1>11, <3>1
    <3>3. j \in 1 .. k + 1
      OBVIOUS
    <3>4. next[i] = Repeat(out, off, k + 1)[j]
      BY <1>6, <3>1, <3>3
    <3>5. Repeat(out, off, k)[j] = Repeat(out, off, k + 1)[j]
      BY <1>3, <1>4, <3>3
    <3> QED
      BY <3>2, <3>4, <3>5
  <2> QED
    BY <2>1, <2>2, <2>3
<1>13. Len(t) = Len(next)
  BY <1>1, <1>5, <1>6, <1>11
<1>14. t = next
  BY <1>6, <1>11, <1>12, <1>13, SeqEq
<1> QED
  BY <1>8, <1>10, <1>14 DEF prev, next

\* There are such states.
LEMMA CopiesExist ==
    ASSUME NEW n \in Nat, NEW out, NEW off
    PROVE  \E c : Copies(c, out, off, n)
<1> DEFINE S == {m \in Nat : \E c : Copies(c, out, off, m)}
<1>1. 0 \in S
  <2>1. Copies([k \in 0 .. 0 |-> out], out, off, 0)
    BY DEF Copies
  <2> QED
    BY <2>1
<1>2. ASSUME NEW m \in Nat, m \in S PROVE m + 1 \in S
  <2>1. PICK c : Copies(c, out, off, m)
    BY <1>2
  <2>2. PICK e : e = CopyByte(c[m], off)
    OBVIOUS
  <2> DEFINE h == [k \in 0 .. m + 1 |-> IF k = m + 1 THEN e ELSE c[k]]
  <2>3. ASSUME NEW k \in 0 .. m + 1
        PROVE  h[k] = IF k = 0 THEN out ELSE CopyByte(h[k - 1], off)
    <3>1. CASE k = m + 1
      <4>1. k # 0 /\ k - 1 = m /\ k - 1 \in 0 .. m + 1 /\ k - 1 # m + 1
        BY <3>1
      <4>2. h[k - 1] = c[m] /\ h[k] = e
        BY <3>1, <4>1
      <4> QED
        BY <2>2, <3>1, <4>1, <4>2
    <3>2. CASE k # m + 1
      <4>1. k \in 0 .. m
        BY <3>2
      <4>2. h[k] = c[k] /\ c[k] = IF k = 0 THEN out ELSE CopyByte(c[k - 1], off)
        BY <2>1, <3>2, <4>1 DEF Copies
      <4>3. k # 0 => h[k - 1] = c[k - 1]
        BY <4>1
      <4> QED
        BY <4>2, <4>3
    <3> QED
      BY <3>1, <3>2
  <2>4. Copies(h, out, off, m + 1)
    BY <2>3 DEF Copies
  <2> HIDE DEF h
  <2>5. (m + 1 \in Nat) /\ \E c2 : Copies(c2, out, off, m + 1)
    BY <2>4
  <2> QED
    BY <2>5
<1> HIDE DEF S
<1>3. n \in S
  BY <1>1, <1>2, Inductive
<1> QED
  BY <1>3 DEF S

\* A copy repeats what stands off bytes back.
LEMMA OverlapIs ==
    ASSUME NEW out, IsSeq(out), NEW off \in Nat \ {0}, off <= Len(out), NEW n \in Nat
    PROVE  Overlap(out, off, n) = out \o Repeat(out, off, n)
<1> DEFINE Fits(c) == c = [k \in 0 .. n |-> IF k = 0 THEN out ELSE CopyByte(c[k - 1], off)]
<1>1. PICK c : c = CHOOSE d : Fits(d)
  OBVIOUS
<1>2. Overlap(out, off, n) = c[n]
  BY <1>1 DEF Overlap
<1>3. \E d : Fits(d)
  <2>1. \E d : Copies(d, out, off, n)
    BY CopiesExist
  <2> QED
    BY <2>1 DEF Copies
<1>4. Fits(c)
  <2> HIDE DEF Fits
  <2> QED
    BY <1>1, <1>3
<1> DEFINE S == {k \in Nat : k <= n => c[k] = out \o Repeat(out, off, k)}
<1>5. 0 \in S
  <2>1. c[0] = out
    BY <1>4
  <2>2. Repeat(out, off, 0) = <<>>
    BY DEF Repeat
  <2>3. out \o <<>> = out
    <3>1. PICK T : out \in Seq(T)
      BY DEF IsSeq
    <3> QED
      BY <3>1
  <2> QED
    BY <2>1, <2>2, <2>3
<1>6. ASSUME NEW k \in Nat, k \in S PROVE k + 1 \in S
  <2> SUFFICES ASSUME k + 1 <= n PROVE c[k + 1] = out \o Repeat(out, off, k + 1)
    OBVIOUS
  <2>1. k + 1 \in 0 .. n /\ k + 1 # 0 /\ (k + 1) - 1 = k /\ k <= n
    OBVIOUS
  <2>2. c[k + 1] = CopyByte(c[(k + 1) - 1], off)
    BY <1>4, <2>1
  <2>3. c[k] = out \o Repeat(out, off, k)
    BY <1>6, <2>1
  <2>4. CopyByte(out \o Repeat(out, off, k), off) = out \o Repeat(out, off, k + 1)
    BY CopyByteIs
  <2> QED
    BY <2>1, <2>2, <2>3, <2>4
<1>7. n \in S
  <2> HIDE DEF S
  <2> QED
    BY <1>5, <1>6, Inductive
<1> QED
  BY <1>2, <1>7

\* The outputs of the first items.
Outs(O, items, n) == O = [i \in 0 .. n |-> IF i = 0 THEN <<>> ELSE Produce(O[i - 1], items[i])]

\* There are such outputs.
LEMMA OutsExist ==
    ASSUME NEW n \in Nat, NEW items
    PROVE  \E O : Outs(O, items, n)
<1> DEFINE S == {m \in Nat : \E O : Outs(O, items, m)}
<1>1. 0 \in S
  <2>1. Outs([k \in 0 .. 0 |-> <<>>], items, 0)
    BY DEF Outs
  <2> QED
    BY <2>1
<1>2. ASSUME NEW m \in Nat, m \in S PROVE m + 1 \in S
  <2>1. PICK O : Outs(O, items, m)
    BY <1>2
  <2>2. PICK e : e = Produce(O[m], items[m + 1])
    OBVIOUS
  <2> DEFINE h == [k \in 0 .. m + 1 |-> IF k = m + 1 THEN e ELSE O[k]]
  <2>3. ASSUME NEW k \in 0 .. m + 1
        PROVE  h[k] = IF k = 0 THEN <<>> ELSE Produce(h[k - 1], items[k])
    <3>1. CASE k = m + 1
      <4>1. k # 0 /\ k - 1 = m /\ k - 1 \in 0 .. m + 1 /\ k - 1 # m + 1
        BY <3>1
      <4>2. h[k - 1] = O[m] /\ h[k] = e
        BY <3>1, <4>1
      <4> QED
        BY <2>2, <3>1, <4>1, <4>2
    <3>2. CASE k # m + 1
      <4>1. k \in 0 .. m
        BY <3>2
      <4>2. h[k] = O[k] /\ O[k] = IF k = 0 THEN <<>> ELSE Produce(O[k - 1], items[k])
        BY <2>1, <3>2, <4>1 DEF Outs
      <4>3. k # 0 => h[k - 1] = O[k - 1]
        BY <4>1
      <4> QED
        BY <4>2, <4>3
    <3> QED
      BY <3>1, <3>2
  <2>4. Outs(h, items, m + 1)
    BY <2>3 DEF Outs
  <2> HIDE DEF h
  <2>5. (m + 1 \in Nat) /\ \E O2 : Outs(O2, items, m + 1)
    BY <2>4
  <2> QED
    BY <2>5
<1> HIDE DEF S
<1>3. n \in S
  BY <1>1, <1>2, Inductive
<1> QED
  BY <1>3 DEF S

\* Outputs is them.
LEMMA OutputsAre ==
    ASSUME NEW items, IsSeq(items)
    PROVE  Outs(Outputs(items), items, Len(items))
<1> DEFINE Fits(O) == O = [i \in 0 .. Len(items) |-> IF i = 0 THEN <<>> ELSE Produce(O[i - 1], items[i])]
<1>1. Outputs(items) = CHOOSE O : Fits(O)
  BY DEF Outputs
<1>2. \E O : Fits(O)
  <2>1. Len(items) \in Nat
    BY SeqLen
  <2>2. \E O : Outs(O, items, Len(items))
    BY <2>1, OutsExist
  <2> QED
    BY <2>2 DEF Outs
<1>3. Fits(Outputs(items))
  <2> HIDE DEF Fits
  <2> QED
    BY <1>1, <1>2
<1> QED
  BY <1>3 DEF Outs

\* How many bytes an item stands for.
Gain(it) == IF it.copy THEN it.len ELSE 1

\* Each output is a sequence, longer than the one before.
LEMMA OutputsGrow ==
    ASSUME NEW items, IsItems(items), NEW O, O = Outputs(items)
    PROVE  /\ O[0] = <<>>
           /\ \A i \in 0 .. Len(items) : IsSeq(O[i]) /\ Len(O[i]) \in Nat
           /\ \A i \in 1 .. Len(items) : /\ O[i] = Produce(O[i - 1], items[i])
                                         /\ Gain(items[i]) \in Nat \ {0}
                                         /\ Len(O[i]) = Len(O[i - 1]) + Gain(items[i])
<1>1. IsSeq(items) /\ Len(items) \in Nat /\ DOMAIN items = 1 .. Len(items)
  BY SeqLen DEF IsItems
<1>2. Outs(O, items, Len(items))
  BY <1>1, OutputsAre
<1>3. O[0] = <<>>
  BY <1>1, <1>2 DEF Outs
<1>4. ASSUME NEW i \in 1 .. Len(items) PROVE O[i] = Produce(O[i - 1], items[i])
  <2>1. i \in 0 .. Len(items) /\ i # 0
    OBVIOUS
  <2> QED
    BY <1>2, <2>1 DEF Outs
<1>5. ASSUME NEW i \in 1 .. Len(items)
      PROVE  /\ items[i].copy \in BOOLEAN
             /\ items[i].copy => /\ items[i].off \in Nat \ {0} /\ items[i].off <= Len(O[i - 1])
                                 /\ items[i].len \in Nat /\ items[i].len >= 3
  BY <1>1 DEF IsItems
<1>6. ASSUME NEW i \in 1 .. Len(items), IsSeq(O[i - 1])
      PROVE  /\ IsSeq(O[i]) /\ Gain(items[i]) \in Nat \ {0}
             /\ Len(O[i]) = Len(O[i - 1]) + Gain(items[i])
  <2>1. PICK it : it = items[i]
    OBVIOUS
  <2>2. PICK out : out = O[i - 1]
    OBVIOUS
  <2>3. O[i] = Produce(out, it) /\ IsSeq(out)
    BY <1>4, <1>6, <2>1, <2>2
  <2>4. CASE ~it.copy
    <3>1. O[i] = Append(out, it.b)
      BY <2>3, <2>4 DEF Produce
    <3>2. IsSeq(O[i]) /\ Len(O[i]) = Len(out) + 1
      BY <2>3, <3>1, AppendIs
    <3> QED
      BY <2>1, <2>2, <2>4, <3>2 DEF Gain
  <2>5. CASE it.copy
    <3>1. it.len \in Nat /\ it.len >= 3
      BY <1>5, <2>1, <2>5
    <3>2. PICK s : s = Repeat(out, it.off, it.len)
      OBVIOUS
    <3>3. O[i] = out \o s
      BY <2>3, <2>5, <3>2 DEF Produce, Repeat
    <3>4. IsSeq(s) /\ Len(s) = it.len
      BY <3>1, <3>2, FunSeq DEF Repeat
    <3>5. IsSeq(out \o s) /\ Len(out \o s) = Len(out) + Len(s)
      BY <2>3, <3>4, Concat
    <3>6. IsSeq(O[i]) /\ Len(O[i]) = Len(out) + it.len
      BY <3>3, <3>4, <3>5
    <3> QED
      BY <2>1, <2>2, <2>5, <3>1, <3>6 DEF Gain
  <2> QED
    BY <2>4, <2>5
<1> DEFINE S == {i \in Nat : i <= Len(items) => IsSeq(O[i])}
<1>7. 0 \in S
  BY <1>3, ShortSeqs
<1>8. ASSUME NEW i \in Nat, i \in S PROVE i + 1 \in S
  <2> SUFFICES ASSUME i + 1 <= Len(items) PROVE IsSeq(O[i + 1])
    OBVIOUS
  <2>1. i + 1 \in 1 .. Len(items) /\ (i + 1) - 1 = i /\ i <= Len(items)
    BY <1>1
  <2>2. IsSeq(O[(i + 1) - 1])
    BY <1>8, <2>1
  <2> QED
    BY <1>6, <2>1, <2>2
<1>9. \A i \in Nat : i \in S
  <2> HIDE DEF S
  <2> QED
    BY <1>7, <1>8, Inductive
<1>10. \A i \in 0 .. Len(items) : IsSeq(O[i]) /\ Len(O[i]) \in Nat
  BY <1>1, <1>9, SeqLen
<1>11. ASSUME NEW i \in 1 .. Len(items)
       PROVE  Gain(items[i]) \in Nat \ {0} /\ Len(O[i]) = Len(O[i - 1]) + Gain(items[i])
  <2>1. i - 1 \in 0 .. Len(items)
    BY <1>1
  <2> QED
    BY <1>6, <1>10, <2>1
<1> QED
  BY <1>3, <1>4, <1>10, <1>11

\* So there is room for the output of an item in the whole.
LEMMA OutputsRoom ==
    ASSUME NEW items, IsItems(items), NEW O, O = Outputs(items)
    PROVE  \A i \in 0 .. Len(items) : Len(O[i]) <= Len(O[Len(items)])
<1>1. Len(items) \in Nat
  BY SeqLen DEF IsItems
<1>2. /\ \A i \in 0 .. Len(items) : Len(O[i]) \in Nat
      /\ \A i \in 1 .. Len(items) : Gain(items[i]) \in Nat \ {0} /\ Len(O[i]) = Len(O[i - 1]) + Gain(items[i])
  BY OutputsGrow
<1>3. PICK n \in Nat : n = Len(items)
  BY <1>1
<1> DEFINE S == {j \in Nat : j <= n => Len(O[n - j]) <= Len(O[n])}
<1>4. 0 \in S
  <2>1. n - 0 = n /\ n \in 0 .. Len(items)
    BY <1>3
  <2> QED
    BY <1>2, <2>1
<1>5. ASSUME NEW j \in Nat, j \in S PROVE j + 1 \in S
  <2> SUFFICES ASSUME j + 1 <= n PROVE Len(O[n - (j + 1)]) <= Len(O[n])
    OBVIOUS
  <2>1. PICK i \in 1 .. Len(items) : i = n - j
    BY <1>3
  <2>2. n - (j + 1) = i - 1 /\ i - 1 \in 0 .. Len(items) /\ i \in 0 .. Len(items) /\ n \in 0 .. Len(items) /\ j <= n
    BY <1>3, <2>1
  <2>3. Len(O[i]) <= Len(O[n])
    BY <1>5, <2>1, <2>2
  <2>4. PICK a \in Nat : a = Len(O[i - 1])
    BY <1>2, <2>2
  <2>5. PICK g \in Nat : g = Gain(items[i])
    BY <1>2
  <2>6. Len(O[i]) = a + g
    BY <1>2, <2>4, <2>5
  <2>7. PICK b \in Nat : b = Len(O[n])
    BY <1>2, <2>2
  <2> QED
    BY <2>2, <2>3, <2>4, <2>6, <2>7
<1>6. \A j \in Nat : j \in S
  <2> HIDE DEF S
  <2> QED
    BY <1>4, <1>5, Inductive
<1>7. ASSUME NEW i \in 0 .. Len(items) PROVE Len(O[i]) <= Len(O[Len(items)])
  <2>1. n - i \in Nat /\ n - i <= n /\ n - (n - i) = i
    BY <1>3
  <2> QED
    BY <1>3, <1>6, <2>1
<1> QED
  BY <1>7

-----------------------------------------------------------------------------
\* The recursive definitions of the model: the values they run through.

\* The compressed form of the first items.
Ups(U, items, n) == U = [k \in 0 .. n |-> IF k = 0 THEN <<>> ELSE (U[k - 1] \o Group(items, k))]

\* There are such.
LEMMA UpsExist ==
    ASSUME NEW n \in Nat, NEW items
    PROVE  \E U : Ups(U, items, n)
<1> DEFINE S == {m \in Nat : \E U : Ups(U, items, m)}
<1>1. 0 \in S
  <2>1. Ups([k \in 0 .. 0 |-> <<>>], items, 0)
    BY DEF Ups
  <2> QED
    BY <2>1
<1>2. ASSUME NEW m \in Nat, m \in S PROVE m + 1 \in S
  <2>1. PICK U : Ups(U, items, m)
    BY <1>2
  <2>2. PICK e : e = (U[m] \o Group(items, m + 1))
    OBVIOUS
  <2> DEFINE h == [k \in 0 .. m + 1 |-> IF k = m + 1 THEN e ELSE U[k]]
  <2>3. ASSUME NEW k \in 0 .. m + 1
        PROVE  h[k] = IF k = 0 THEN <<>> ELSE (h[k - 1] \o Group(items, k))
    <3>1. CASE k = m + 1
      <4>1. k # 0 /\ k - 1 = m /\ k - 1 \in 0 .. m + 1 /\ k - 1 # m + 1
        BY <3>1
      <4>2. h[k - 1] = U[m] /\ h[k] = e
        BY <3>1, <4>1
      <4> QED
        BY <2>2, <3>1, <4>1, <4>2
    <3>2. CASE k # m + 1
      <4>1. k \in 0 .. m
        BY <3>2
      <4>2. h[k] = U[k] /\ U[k] = IF k = 0 THEN <<>> ELSE (U[k - 1] \o Group(items, k))
        BY <2>1, <3>2, <4>1 DEF Ups
      <4>3. k # 0 => h[k - 1] = U[k - 1]
        BY <4>1
      <4> QED
        BY <4>2, <4>3
    <3> QED
      BY <3>1, <3>2
  <2>4. Ups(h, items, m + 1)
    BY <2>3 DEF Ups
  <2> HIDE DEF h
  <2>5. (m + 1 \in Nat) /\ \E U2 : Ups(U2, items, m + 1)
    BY <2>4
  <2> QED
    BY <2>5
<1> HIDE DEF S
<1>3. n \in S
  BY <1>1, <1>2, Inductive
<1> QED
  BY <1>3 DEF S

\* Compress is the last of them.
LEMMA UpsAre ==
    ASSUME NEW items, Len(items) \in Nat
    PROVE  \E U : /\ Compress(items) = U[Len(items)]
                 /\ Ups(U, items, Len(items))
                 /\ U[0] = <<>>
                 /\ \A k \in 0 .. Len(items) : k + 1 <= Len(items) => U[k + 1] = (U[k] \o Group(items, k + 1))
<1> DEFINE Fits(U) == U = [k \in 0 .. Len(items) |-> IF k = 0 THEN <<>> ELSE (U[k - 1] \o Group(items, k))]
<1>1. PICK h : h = CHOOSE U : Fits(U)
  OBVIOUS
<1>2. Compress(items) = h[Len(items)]
  BY <1>1 DEF Compress
<1>3. \E U : Fits(U)
  <2>1. \E U : Ups(U, items, Len(items))
    BY UpsExist
  <2> QED
    BY <2>1 DEF Ups
<1>4. Fits(h)
  <2> HIDE DEF Fits
  <2> QED
    BY <1>1, <1>3
<1>5. h[0] = <<>>
  BY <1>4
<1>6. ASSUME NEW k \in 0 .. Len(items), k + 1 <= Len(items) PROVE h[k + 1] = (h[k] \o Group(items, k + 1))
  <2>1. k + 1 \in 0 .. Len(items) /\ k + 1 # 0 /\ (k + 1) - 1 = k
    BY <1>6
  <2>2. h[k + 1] = (h[(k + 1) - 1] \o Group(items, k + 1))
    BY <1>4, <2>1
  <2> QED
    BY <2>1, <2>2
<1> QED
  BY <1>2, <1>4, <1>5, <1>6 DEF Ups

\* The rounds of pglz_decompress.
Inflates(st, src, raw, n) == st = [k \in 0 .. n |-> IF k = 0 THEN InflateStart ELSE InflateStep(st[k - 1], src, raw)]

\* There are such.
LEMMA InflatesExist ==
    ASSUME NEW n \in Nat, NEW src, NEW raw
    PROVE  \E st : Inflates(st, src, raw, n)
<1> DEFINE S == {m \in Nat : \E st : Inflates(st, src, raw, m)}
<1>1. 0 \in S
  <2>1. Inflates([k \in 0 .. 0 |-> InflateStart], src, raw, 0)
    BY DEF Inflates
  <2> QED
    BY <2>1
<1>2. ASSUME NEW m \in Nat, m \in S PROVE m + 1 \in S
  <2>1. PICK st : Inflates(st, src, raw, m)
    BY <1>2
  <2>2. PICK e : e = InflateStep(st[m], src, raw)
    OBVIOUS
  <2> DEFINE h == [k \in 0 .. m + 1 |-> IF k = m + 1 THEN e ELSE st[k]]
  <2>3. ASSUME NEW k \in 0 .. m + 1
        PROVE  h[k] = IF k = 0 THEN InflateStart ELSE InflateStep(h[k - 1], src, raw)
    <3>1. CASE k = m + 1
      <4>1. k # 0 /\ k - 1 = m /\ k - 1 \in 0 .. m + 1 /\ k - 1 # m + 1
        BY <3>1
      <4>2. h[k - 1] = st[m] /\ h[k] = e
        BY <3>1, <4>1
      <4> QED
        BY <2>2, <3>1, <4>1, <4>2
    <3>2. CASE k # m + 1
      <4>1. k \in 0 .. m
        BY <3>2
      <4>2. h[k] = st[k] /\ st[k] = IF k = 0 THEN InflateStart ELSE InflateStep(st[k - 1], src, raw)
        BY <2>1, <3>2, <4>1 DEF Inflates
      <4>3. k # 0 => h[k - 1] = st[k - 1]
        BY <4>1
      <4> QED
        BY <4>2, <4>3
    <3> QED
      BY <3>1, <3>2
  <2>4. Inflates(h, src, raw, m + 1)
    BY <2>3 DEF Inflates
  <2> HIDE DEF h
  <2>5. (m + 1 \in Nat) /\ \E st2 : Inflates(st2, src, raw, m + 1)
    BY <2>4
  <2> QED
    BY <2>5
<1> HIDE DEF S
<1>3. n \in S
  BY <1>1, <1>2, Inductive
<1> QED
  BY <1>3 DEF S

\* pglz_decompress is the last of them.
LEMMA InflatesAre ==
    ASSUME NEW src, NEW raw, Len(src) \in Nat
    PROVE  \E st : /\ pglz_decompress(src, raw) = Inflated(st[Len(src)], raw)
                 /\ st[0] = InflateStart
                 /\ \A k \in 0 .. Len(src) : k + 1 <= Len(src) => st[k + 1] = InflateStep(st[k], src, raw)
<1> DEFINE Fits(st) == st = [k \in 0 .. Len(src) |-> IF k = 0 THEN InflateStart ELSE InflateStep(st[k - 1], src, raw)]
<1>1. PICK h : h = CHOOSE st : Fits(st)
  OBVIOUS
<1>2. pglz_decompress(src, raw) = Inflated(h[Len(src)], raw)
  BY <1>1 DEF pglz_decompress
<1>3. \E st : Fits(st)
  <2>1. \E st : Inflates(st, src, raw, Len(src))
    BY InflatesExist
  <2> QED
    BY <2>1 DEF Inflates
<1>4. Fits(h)
  <2> HIDE DEF Fits
  <2> QED
    BY <1>1, <1>3
<1>5. h[0] = InflateStart
  BY <1>4
<1>6. ASSUME NEW k \in 0 .. Len(src), k + 1 <= Len(src) PROVE h[k + 1] = InflateStep(h[k], src, raw)
  <2>1. k + 1 \in 0 .. Len(src) /\ k + 1 # 0 /\ (k + 1) - 1 = k
    BY <1>6
  <2>2. h[k + 1] = InflateStep(h[(k + 1) - 1], src, raw)
    BY <1>4, <2>1
  <2> QED
    BY <2>1, <2>2
<1> QED
  BY <1>2, <1>5, <1>6

\* The attribute area up to a column.
Areas(A, cols, t, n) == A = [k \in 0 .. n |-> IF k = 0 THEN <<>> ELSE Fill(A[k - 1], cols[k], k, t[k])]

\* There are such.
LEMMA AreasExist ==
    ASSUME NEW n \in Nat, NEW cols, NEW t
    PROVE  \E A : Areas(A, cols, t, n)
<1> DEFINE S == {m \in Nat : \E A : Areas(A, cols, t, m)}
<1>1. 0 \in S
  <2>1. Areas([k \in 0 .. 0 |-> <<>>], cols, t, 0)
    BY DEF Areas
  <2> QED
    BY <2>1
<1>2. ASSUME NEW m \in Nat, m \in S PROVE m + 1 \in S
  <2>1. PICK A : Areas(A, cols, t, m)
    BY <1>2
  <2>2. PICK e : e = Fill(A[m], cols[m + 1], m + 1, t[m + 1])
    OBVIOUS
  <2> DEFINE h == [k \in 0 .. m + 1 |-> IF k = m + 1 THEN e ELSE A[k]]
  <2>3. ASSUME NEW k \in 0 .. m + 1
        PROVE  h[k] = IF k = 0 THEN <<>> ELSE Fill(h[k - 1], cols[k], k, t[k])
    <3>1. CASE k = m + 1
      <4>1. k # 0 /\ k - 1 = m /\ k - 1 \in 0 .. m + 1 /\ k - 1 # m + 1
        BY <3>1
      <4>2. h[k - 1] = A[m] /\ h[k] = e
        BY <3>1, <4>1
      <4> QED
        BY <2>2, <3>1, <4>1, <4>2
    <3>2. CASE k # m + 1
      <4>1. k \in 0 .. m
        BY <3>2
      <4>2. h[k] = A[k] /\ A[k] = IF k = 0 THEN <<>> ELSE Fill(A[k - 1], cols[k], k, t[k])
        BY <2>1, <3>2, <4>1 DEF Areas
      <4>3. k # 0 => h[k - 1] = A[k - 1]
        BY <4>1
      <4> QED
        BY <4>2, <4>3
    <3> QED
      BY <3>1, <3>2
  <2>4. Areas(h, cols, t, m + 1)
    BY <2>3 DEF Areas
  <2> HIDE DEF h
  <2>5. (m + 1 \in Nat) /\ \E A2 : Areas(A2, cols, t, m + 1)
    BY <2>4
  <2> QED
    BY <2>5
<1> HIDE DEF S
<1>3. n \in S
  BY <1>1, <1>2, Inductive
<1> QED
  BY <1>3 DEF S

\* Attrs is the last of them.
LEMMA AreasAre ==
    ASSUME NEW cols, NEW t, Len(t) \in Nat
    PROVE  \E A : /\ Attrs(cols, t) = A[Len(t)]
                 /\ A[0] = <<>>
                 /\ \A k \in 0 .. Len(t) : k + 1 <= Len(t) => A[k + 1] = Fill(A[k], cols[k + 1], k + 1, t[k + 1])
<1> DEFINE Fits(A) == A = [k \in 0 .. Len(t) |-> IF k = 0 THEN <<>> ELSE Fill(A[k - 1], cols[k], k, t[k])]
<1>1. PICK h : h = CHOOSE A : Fits(A)
  OBVIOUS
<1>2. Attrs(cols, t) = h[Len(t)]
  BY <1>1 DEF Attrs
<1>3. \E A : Fits(A)
  <2>1. \E A : Areas(A, cols, t, Len(t))
    BY AreasExist
  <2> QED
    BY <2>1 DEF Areas
<1>4. Fits(h)
  <2> HIDE DEF Fits
  <2> QED
    BY <1>1, <1>3
<1>5. h[0] = <<>>
  BY <1>4
<1>6. ASSUME NEW k \in 0 .. Len(t), k + 1 <= Len(t) PROVE h[k + 1] = Fill(h[k], cols[k + 1], k + 1, t[k + 1])
  <2>1. k + 1 \in 0 .. Len(t) /\ k + 1 # 0 /\ (k + 1) - 1 = k
    BY <1>6
  <2>2. h[k + 1] = Fill(h[(k + 1) - 1], cols[k + 1], k + 1, t[k + 1])
    BY <1>4, <2>1
  <2> QED
    BY <2>1, <2>2
<1> QED
  BY <1>2, <1>5, <1>6

\* The row up to a column.
Rows(R, cols, t, n) == R = [k \in 0 .. n |-> IF k = 0 THEN <<>> ELSE (IF cols[k].live THEN Append(R[k - 1], ColumnValue(cols, t, k)) ELSE R[k - 1])]

\* There are such.
LEMMA RowsExist ==
    ASSUME NEW n \in Nat, NEW cols, NEW t
    PROVE  \E R : Rows(R, cols, t, n)
<1> DEFINE S == {m \in Nat : \E R : Rows(R, cols, t, m)}
<1>1. 0 \in S
  <2>1. Rows([k \in 0 .. 0 |-> <<>>], cols, t, 0)
    BY DEF Rows
  <2> QED
    BY <2>1
<1>2. ASSUME NEW m \in Nat, m \in S PROVE m + 1 \in S
  <2>1. PICK R : Rows(R, cols, t, m)
    BY <1>2
  <2>2. PICK e : e = (IF cols[m + 1].live THEN Append(R[m], ColumnValue(cols, t, m + 1)) ELSE R[m])
    OBVIOUS
  <2> DEFINE h == [k \in 0 .. m + 1 |-> IF k = m + 1 THEN e ELSE R[k]]
  <2>3. ASSUME NEW k \in 0 .. m + 1
        PROVE  h[k] = IF k = 0 THEN <<>> ELSE (IF cols[k].live THEN Append(h[k - 1], ColumnValue(cols, t, k)) ELSE h[k - 1])
    <3>1. CASE k = m + 1
      <4>1. k # 0 /\ k - 1 = m /\ k - 1 \in 0 .. m + 1 /\ k - 1 # m + 1
        BY <3>1
      <4>2. h[k - 1] = R[m] /\ h[k] = e
        BY <3>1, <4>1
      <4> QED
        BY <2>2, <3>1, <4>1, <4>2
    <3>2. CASE k # m + 1
      <4>1. k \in 0 .. m
        BY <3>2
      <4>2. h[k] = R[k] /\ R[k] = IF k = 0 THEN <<>> ELSE (IF cols[k].live THEN Append(R[k - 1], ColumnValue(cols, t, k)) ELSE R[k - 1])
        BY <2>1, <3>2, <4>1 DEF Rows
      <4>3. k # 0 => h[k - 1] = R[k - 1]
        BY <4>1
      <4> QED
        BY <4>2, <4>3
    <3> QED
      BY <3>1, <3>2
  <2>4. Rows(h, cols, t, m + 1)
    BY <2>3 DEF Rows
  <2> HIDE DEF h
  <2>5. (m + 1 \in Nat) /\ \E R2 : Rows(R2, cols, t, m + 1)
    BY <2>4
  <2> QED
    BY <2>5
<1> HIDE DEF S
<1>3. n \in S
  BY <1>1, <1>2, Inductive
<1> QED
  BY <1>3 DEF S

\* RowOf is the last of them.
LEMMA RowsAre ==
    ASSUME NEW cols, NEW t, Len(cols) \in Nat
    PROVE  \E R : /\ RowOf(cols, t) = R[Len(cols)]
                 /\ R[0] = <<>>
                 /\ \A k \in 0 .. Len(cols) : k + 1 <= Len(cols) => R[k + 1] = (IF cols[k + 1].live THEN Append(R[k], ColumnValue(cols, t, k + 1)) ELSE R[k])
<1> DEFINE Fits(R) == R = [k \in 0 .. Len(cols) |-> IF k = 0 THEN <<>> ELSE (IF cols[k].live THEN Append(R[k - 1], ColumnValue(cols, t, k)) ELSE R[k - 1])]
<1>1. PICK h : h = CHOOSE R : Fits(R)
  OBVIOUS
<1>2. RowOf(cols, t) = h[Len(cols)]
  BY <1>1 DEF RowOf
<1>3. \E R : Fits(R)
  <2>1. \E R : Rows(R, cols, t, Len(cols))
    BY RowsExist
  <2> QED
    BY <2>1 DEF Rows
<1>4. Fits(h)
  <2> HIDE DEF Fits
  <2> QED
    BY <1>1, <1>3
<1>5. h[0] = <<>>
  BY <1>4
<1>6. ASSUME NEW k \in 0 .. Len(cols), k + 1 <= Len(cols) PROVE h[k + 1] = (IF cols[k + 1].live THEN Append(h[k], ColumnValue(cols, t, k + 1)) ELSE h[k])
  <2>1. k + 1 \in 0 .. Len(cols) /\ k + 1 # 0 /\ (k + 1) - 1 = k
    BY <1>6
  <2>2. h[k + 1] = (IF cols[k + 1].live THEN Append(h[(k + 1) - 1], ColumnValue(cols, t, k + 1)) ELSE h[(k + 1) - 1])
    BY <1>4, <2>1
  <2> QED
    BY <2>1, <2>2
<1> QED
  BY <1>2, <1>5, <1>6

\* The live columns up to a column.
Lives(L, cols, n) == L = [k \in 0 .. n |-> IF k = 0 THEN <<>> ELSE (IF cols[k].live THEN Append(L[k - 1], cols[k]) ELSE L[k - 1])]

\* There are such.
LEMMA LivesExist ==
    ASSUME NEW n \in Nat, NEW cols
    PROVE  \E L : Lives(L, cols, n)
<1> DEFINE S == {m \in Nat : \E L : Lives(L, cols, m)}
<1>1. 0 \in S
  <2>1. Lives([k \in 0 .. 0 |-> <<>>], cols, 0)
    BY DEF Lives
  <2> QED
    BY <2>1
<1>2. ASSUME NEW m \in Nat, m \in S PROVE m + 1 \in S
  <2>1. PICK L : Lives(L, cols, m)
    BY <1>2
  <2>2. PICK e : e = (IF cols[m + 1].live THEN Append(L[m], cols[m + 1]) ELSE L[m])
    OBVIOUS
  <2> DEFINE h == [k \in 0 .. m + 1 |-> IF k = m + 1 THEN e ELSE L[k]]
  <2>3. ASSUME NEW k \in 0 .. m + 1
        PROVE  h[k] = IF k = 0 THEN <<>> ELSE (IF cols[k].live THEN Append(h[k - 1], cols[k]) ELSE h[k - 1])
    <3>1. CASE k = m + 1
      <4>1. k # 0 /\ k - 1 = m /\ k - 1 \in 0 .. m + 1 /\ k - 1 # m + 1
        BY <3>1
      <4>2. h[k - 1] = L[m] /\ h[k] = e
        BY <3>1, <4>1
      <4> QED
        BY <2>2, <3>1, <4>1, <4>2
    <3>2. CASE k # m + 1
      <4>1. k \in 0 .. m
        BY <3>2
      <4>2. h[k] = L[k] /\ L[k] = IF k = 0 THEN <<>> ELSE (IF cols[k].live THEN Append(L[k - 1], cols[k]) ELSE L[k - 1])
        BY <2>1, <3>2, <4>1 DEF Lives
      <4>3. k # 0 => h[k - 1] = L[k - 1]
        BY <4>1
      <4> QED
        BY <4>2, <4>3
    <3> QED
      BY <3>1, <3>2
  <2>4. Lives(h, cols, m + 1)
    BY <2>3 DEF Lives
  <2> HIDE DEF h
  <2>5. (m + 1 \in Nat) /\ \E L2 : Lives(L2, cols, m + 1)
    BY <2>4
  <2> QED
    BY <2>5
<1> HIDE DEF S
<1>3. n \in S
  BY <1>1, <1>2, Inductive
<1> QED
  BY <1>3 DEF S

\* LiveCols is the last of them.
LEMMA LivesAre ==
    ASSUME NEW cols, Len(cols) \in Nat
    PROVE  \E L : /\ LiveCols(cols) = L[Len(cols)]
                 /\ L[0] = <<>>
                 /\ \A k \in 0 .. Len(cols) : k + 1 <= Len(cols) => L[k + 1] = (IF cols[k + 1].live THEN Append(L[k], cols[k + 1]) ELSE L[k])
<1> DEFINE Fits(L) == L = [k \in 0 .. Len(cols) |-> IF k = 0 THEN <<>> ELSE (IF cols[k].live THEN Append(L[k - 1], cols[k]) ELSE L[k - 1])]
<1>1. PICK h : h = CHOOSE L : Fits(L)
  OBVIOUS
<1>2. LiveCols(cols) = h[Len(cols)]
  BY <1>1 DEF LiveCols
<1>3. \E L : Fits(L)
  <2>1. \E L : Lives(L, cols, Len(cols))
    BY LivesExist
  <2> QED
    BY <2>1 DEF Lives
<1>4. Fits(h)
  <2> HIDE DEF Fits
  <2> QED
    BY <1>1, <1>3
<1>5. h[0] = <<>>
  BY <1>4
<1>6. ASSUME NEW k \in 0 .. Len(cols), k + 1 <= Len(cols) PROVE h[k + 1] = (IF cols[k + 1].live THEN Append(h[k], cols[k + 1]) ELSE h[k])
  <2>1. k + 1 \in 0 .. Len(cols) /\ k + 1 # 0 /\ (k + 1) - 1 = k
    BY <1>6
  <2>2. h[k + 1] = (IF cols[k + 1].live THEN Append(h[(k + 1) - 1], cols[k + 1]) ELSE h[(k + 1) - 1])
    BY <1>4, <2>1
  <2> QED
    BY <2>1, <2>2
<1> QED
  BY <1>2, <1>5, <1>6

\* The bytes made up from the first values of a row.
Encodings(E, live, row, n) == E = [k \in 0 .. n |-> IF k = 0 THEN <<>> ELSE EncodeStep(E[k - 1], live[k], row[k])]

\* There are such.
LEMMA EncodingsExist ==
    ASSUME NEW n \in Nat, NEW live, NEW row
    PROVE  \E E : Encodings(E, live, row, n)
<1> DEFINE S == {m \in Nat : \E E : Encodings(E, live, row, m)}
<1>1. 0 \in S
  <2>1. Encodings([k \in 0 .. 0 |-> <<>>], live, row, 0)
    BY DEF Encodings
  <2> QED
    BY <2>1
<1>2. ASSUME NEW m \in Nat, m \in S PROVE m + 1 \in S
  <2>1. PICK E : Encodings(E, live, row, m)
    BY <1>2
  <2>2. PICK e : e = EncodeStep(E[m], live[m + 1], row[m + 1])
    OBVIOUS
  <2> DEFINE h == [k \in 0 .. m + 1 |-> IF k = m + 1 THEN e ELSE E[k]]
  <2>3. ASSUME NEW k \in 0 .. m + 1
        PROVE  h[k] = IF k = 0 THEN <<>> ELSE EncodeStep(h[k - 1], live[k], row[k])
    <3>1. CASE k = m + 1
      <4>1. k # 0 /\ k - 1 = m /\ k - 1 \in 0 .. m + 1 /\ k - 1 # m + 1
        BY <3>1
      <4>2. h[k - 1] = E[m] /\ h[k] = e
        BY <3>1, <4>1
      <4> QED
        BY <2>2, <3>1, <4>1, <4>2
    <3>2. CASE k # m + 1
      <4>1. k \in 0 .. m
        BY <3>2
      <4>2. h[k] = E[k] /\ E[k] = IF k = 0 THEN <<>> ELSE EncodeStep(E[k - 1], live[k], row[k])
        BY <2>1, <3>2, <4>1 DEF Encodings
      <4>3. k # 0 => h[k - 1] = E[k - 1]
        BY <4>1
      <4> QED
        BY <4>2, <4>3
    <3> QED
      BY <3>1, <3>2
  <2>4. Encodings(h, live, row, m + 1)
    BY <2>3 DEF Encodings
  <2> HIDE DEF h
  <2>5. (m + 1 \in Nat) /\ \E E2 : Encodings(E2, live, row, m + 1)
    BY <2>4
  <2> QED
    BY <2>5
<1> HIDE DEF S
<1>3. n \in S
  BY <1>1, <1>2, Inductive
<1> QED
  BY <1>3 DEF S

\* EncodeRow is the last of them.
LEMMA EncodingsAre ==
    ASSUME NEW live, NEW row, Len(live) \in Nat
    PROVE  \E E : /\ EncodeRow(row, live) = E[Len(live)]
                 /\ E[0] = <<>>
                 /\ \A k \in 0 .. Len(live) : k + 1 <= Len(live) => E[k + 1] = EncodeStep(E[k], live[k + 1], row[k + 1])
<1> DEFINE Fits(E) == E = [k \in 0 .. Len(live) |-> IF k = 0 THEN <<>> ELSE EncodeStep(E[k - 1], live[k], row[k])]
<1>1. PICK h : h = CHOOSE E : Fits(E)
  OBVIOUS
<1>2. EncodeRow(row, live) = h[Len(live)]
  BY <1>1 DEF EncodeRow
<1>3. \E E : Fits(E)
  <2>1. \E E : Encodings(E, live, row, Len(live))
    BY EncodingsExist
  <2> QED
    BY <2>1 DEF Encodings
<1>4. Fits(h)
  <2> HIDE DEF Fits
  <2> QED
    BY <1>1, <1>3
<1>5. h[0] = <<>>
  BY <1>4
<1>6. ASSUME NEW k \in 0 .. Len(live), k + 1 <= Len(live) PROVE h[k + 1] = EncodeStep(h[k], live[k + 1], row[k + 1])
  <2>1. k + 1 \in 0 .. Len(live) /\ k + 1 # 0 /\ (k + 1) - 1 = k
    BY <1>6
  <2>2. h[k + 1] = EncodeStep(h[(k + 1) - 1], live[k + 1], row[k + 1])
    BY <1>4, <2>1
  <2> QED
    BY <2>1, <2>2
<1> QED
  BY <1>2, <1>5, <1>6

\* Decoding, column by column.
Walks(W, tuple, natts, nulls, data, cols, toast, old, n) == W = [k \in 0 .. n |-> IF k = 0 THEN DecodeStart ELSE NextColumn(W[k - 1], k, tuple, natts, nulls, data, cols, toast, old)]

\* There are such.
LEMMA WalksExist ==
    ASSUME NEW n \in Nat, NEW tuple, NEW natts, NEW nulls, NEW data, NEW cols, NEW toast, NEW old
    PROVE  \E W : Walks(W, tuple, natts, nulls, data, cols, toast, old, n)
<1> DEFINE S == {m \in Nat : \E W : Walks(W, tuple, natts, nulls, data, cols, toast, old, m)}
<1>1. 0 \in S
  <2>1. Walks([k \in 0 .. 0 |-> DecodeStart], tuple, natts, nulls, data, cols, toast, old, 0)
    BY DEF Walks
  <2> QED
    BY <2>1
<1>2. ASSUME NEW m \in Nat, m \in S PROVE m + 1 \in S
  <2>1. PICK W : Walks(W, tuple, natts, nulls, data, cols, toast, old, m)
    BY <1>2
  <2>2. PICK e : e = NextColumn(W[m], m + 1, tuple, natts, nulls, data, cols, toast, old)
    OBVIOUS
  <2> DEFINE h == [k \in 0 .. m + 1 |-> IF k = m + 1 THEN e ELSE W[k]]
  <2>3. ASSUME NEW k \in 0 .. m + 1
        PROVE  h[k] = IF k = 0 THEN DecodeStart ELSE NextColumn(h[k - 1], k, tuple, natts, nulls, data, cols, toast, old)
    <3>1. CASE k = m + 1
      <4>1. k # 0 /\ k - 1 = m /\ k - 1 \in 0 .. m + 1 /\ k - 1 # m + 1
        BY <3>1
      <4>2. h[k - 1] = W[m] /\ h[k] = e
        BY <3>1, <4>1
      <4> QED
        BY <2>2, <3>1, <4>1, <4>2
    <3>2. CASE k # m + 1
      <4>1. k \in 0 .. m
        BY <3>2
      <4>2. h[k] = W[k] /\ W[k] = IF k = 0 THEN DecodeStart ELSE NextColumn(W[k - 1], k, tuple, natts, nulls, data, cols, toast, old)
        BY <2>1, <3>2, <4>1 DEF Walks
      <4>3. k # 0 => h[k - 1] = W[k - 1]
        BY <4>1
      <4> QED
        BY <4>2, <4>3
    <3> QED
      BY <3>1, <3>2
  <2>4. Walks(h, tuple, natts, nulls, data, cols, toast, old, m + 1)
    BY <2>3 DEF Walks
  <2> HIDE DEF h
  <2>5. (m + 1 \in Nat) /\ \E W2 : Walks(W2, tuple, natts, nulls, data, cols, toast, old, m + 1)
    BY <2>4
  <2> QED
    BY <2>5
<1> HIDE DEF S
<1>3. n \in S
  BY <1>1, <1>2, Inductive
<1> QED
  BY <1>3 DEF S

\* DecodeColumns is the last of them.
LEMMA WalksAre ==
    ASSUME NEW tuple, NEW natts, NEW nulls, NEW data, NEW cols, NEW toast, NEW old, Len(cols) \in Nat
    PROVE  \E W : /\ DecodeColumns(tuple, natts, nulls, data, cols, toast, old) = W[Len(cols)]
                 /\ W[0] = DecodeStart
                 /\ \A k \in 0 .. Len(cols) : k + 1 <= Len(cols) => W[k + 1] = NextColumn(W[k], k + 1, tuple, natts, nulls, data, cols, toast, old)
<1> DEFINE Fits(W) == W = [k \in 0 .. Len(cols) |-> IF k = 0 THEN DecodeStart ELSE NextColumn(W[k - 1], k, tuple, natts, nulls, data, cols, toast, old)]
<1>1. PICK h : h = CHOOSE W : Fits(W)
  OBVIOUS
<1>2. DecodeColumns(tuple, natts, nulls, data, cols, toast, old) = h[Len(cols)]
  BY <1>1 DEF DecodeColumns
<1>3. \E W : Fits(W)
  <2>1. \E W : Walks(W, tuple, natts, nulls, data, cols, toast, old, Len(cols))
    BY WalksExist
  <2> QED
    BY <2>1 DEF Walks
<1>4. Fits(h)
  <2> HIDE DEF Fits
  <2> QED
    BY <1>1, <1>3
<1>5. h[0] = DecodeStart
  BY <1>4
<1>6. ASSUME NEW k \in 0 .. Len(cols), k + 1 <= Len(cols) PROVE h[k + 1] = NextColumn(h[k], k + 1, tuple, natts, nulls, data, cols, toast, old)
  <2>1. k + 1 \in 0 .. Len(cols) /\ k + 1 # 0 /\ (k + 1) - 1 = k
    BY <1>6
  <2>2. h[k + 1] = NextColumn(h[(k + 1) - 1], k + 1, tuple, natts, nulls, data, cols, toast, old)
    BY <1>4, <2>1
  <2> QED
    BY <2>1, <2>2
<1> QED
  BY <1>2, <1>5, <1>6

\* The block data of a MULTI INSERT, tuple by tuple.
Multis(M, cols, ts, n) == M = [k \in 0 .. n |-> IF k = 0 THEN <<>> ELSE MultiTuple(M[k - 1], cols, ts[k])]

\* There are such.
LEMMA MultisExist ==
    ASSUME NEW n \in Nat, NEW cols, NEW ts
    PROVE  \E M : Multis(M, cols, ts, n)
<1> DEFINE S == {m \in Nat : \E M : Multis(M, cols, ts, m)}
<1>1. 0 \in S
  <2>1. Multis([k \in 0 .. 0 |-> <<>>], cols, ts, 0)
    BY DEF Multis
  <2> QED
    BY <2>1
<1>2. ASSUME NEW m \in Nat, m \in S PROVE m + 1 \in S
  <2>1. PICK M : Multis(M, cols, ts, m)
    BY <1>2
  <2>2. PICK e : e = MultiTuple(M[m], cols, ts[m + 1])
    OBVIOUS
  <2> DEFINE h == [k \in 0 .. m + 1 |-> IF k = m + 1 THEN e ELSE M[k]]
  <2>3. ASSUME NEW k \in 0 .. m + 1
        PROVE  h[k] = IF k = 0 THEN <<>> ELSE MultiTuple(h[k - 1], cols, ts[k])
    <3>1. CASE k = m + 1
      <4>1. k # 0 /\ k - 1 = m /\ k - 1 \in 0 .. m + 1 /\ k - 1 # m + 1
        BY <3>1
      <4>2. h[k - 1] = M[m] /\ h[k] = e
        BY <3>1, <4>1
      <4> QED
        BY <2>2, <3>1, <4>1, <4>2
    <3>2. CASE k # m + 1
      <4>1. k \in 0 .. m
        BY <3>2
      <4>2. h[k] = M[k] /\ M[k] = IF k = 0 THEN <<>> ELSE MultiTuple(M[k - 1], cols, ts[k])
        BY <2>1, <3>2, <4>1 DEF Multis
      <4>3. k # 0 => h[k - 1] = M[k - 1]
        BY <4>1
      <4> QED
        BY <4>2, <4>3
    <3> QED
      BY <3>1, <3>2
  <2>4. Multis(h, cols, ts, m + 1)
    BY <2>3 DEF Multis
  <2> HIDE DEF h
  <2>5. (m + 1 \in Nat) /\ \E M2 : Multis(M2, cols, ts, m + 1)
    BY <2>4
  <2> QED
    BY <2>5
<1> HIDE DEF S
<1>3. n \in S
  BY <1>1, <1>2, Inductive
<1> QED
  BY <1>3 DEF S

\* MultiData is the last of them.
LEMMA MultisAre ==
    ASSUME NEW cols, NEW ts, Len(ts) \in Nat
    PROVE  \E M : /\ MultiData(cols, ts) = M[Len(ts)]
                 /\ M[0] = <<>>
                 /\ \A k \in 0 .. Len(ts) : k + 1 <= Len(ts) => M[k + 1] = MultiTuple(M[k], cols, ts[k + 1])
<1> DEFINE Fits(M) == M = [k \in 0 .. Len(ts) |-> IF k = 0 THEN <<>> ELSE MultiTuple(M[k - 1], cols, ts[k])]
<1>1. PICK h : h = CHOOSE M : Fits(M)
  OBVIOUS
<1>2. MultiData(cols, ts) = h[Len(ts)]
  BY <1>1 DEF MultiData
<1>3. \E M : Fits(M)
  <2>1. \E M : Multis(M, cols, ts, Len(ts))
    BY MultisExist
  <2> QED
    BY <2>1 DEF Multis
<1>4. Fits(h)
  <2> HIDE DEF Fits
  <2> QED
    BY <1>1, <1>3
<1>5. h[0] = <<>>
  BY <1>4
<1>6. ASSUME NEW k \in 0 .. Len(ts), k + 1 <= Len(ts) PROVE h[k + 1] = MultiTuple(h[k], cols, ts[k + 1])
  <2>1. k + 1 \in 0 .. Len(ts) /\ k + 1 # 0 /\ (k + 1) - 1 = k
    BY <1>6
  <2>2. h[k + 1] = MultiTuple(h[(k + 1) - 1], cols, ts[k + 1])
    BY <1>4, <2>1
  <2> QED
    BY <2>1, <2>2
<1> QED
  BY <1>2, <1>5, <1>6

\* Decoding it, tuple by tuple.
Reads(D, b, ntuples, cols, toast, n) == D = [k \in 0 .. n |-> IF k = 0 THEN MultiStart ELSE NextTuple(D[k - 1], b, cols, toast)]

\* There are such.
LEMMA ReadsExist ==
    ASSUME NEW n \in Nat, NEW b, NEW ntuples, NEW cols, NEW toast
    PROVE  \E D : Reads(D, b, ntuples, cols, toast, n)
<1> DEFINE S == {m \in Nat : \E D : Reads(D, b, ntuples, cols, toast, m)}
<1>1. 0 \in S
  <2>1. Reads([k \in 0 .. 0 |-> MultiStart], b, ntuples, cols, toast, 0)
    BY DEF Reads
  <2> QED
    BY <2>1
<1>2. ASSUME NEW m \in Nat, m \in S PROVE m + 1 \in S
  <2>1. PICK D : Reads(D, b, ntuples, cols, toast, m)
    BY <1>2
  <2>2. PICK e : e = NextTuple(D[m], b, cols, toast)
    OBVIOUS
  <2> DEFINE h == [k \in 0 .. m + 1 |-> IF k = m + 1 THEN e ELSE D[k]]
  <2>3. ASSUME NEW k \in 0 .. m + 1
        PROVE  h[k] = IF k = 0 THEN MultiStart ELSE NextTuple(h[k - 1], b, cols, toast)
    <3>1. CASE k = m + 1
      <4>1. k # 0 /\ k - 1 = m /\ k - 1 \in 0 .. m + 1 /\ k - 1 # m + 1
        BY <3>1
      <4>2. h[k - 1] = D[m] /\ h[k] = e
        BY <3>1, <4>1
      <4> QED
        BY <2>2, <3>1, <4>1, <4>2
    <3>2. CASE k # m + 1
      <4>1. k \in 0 .. m
        BY <3>2
      <4>2. h[k] = D[k] /\ D[k] = IF k = 0 THEN MultiStart ELSE NextTuple(D[k - 1], b, cols, toast)
        BY <2>1, <3>2, <4>1 DEF Reads
      <4>3. k # 0 => h[k - 1] = D[k - 1]
        BY <4>1
      <4> QED
        BY <4>2, <4>3
    <3> QED
      BY <3>1, <3>2
  <2>4. Reads(h, b, ntuples, cols, toast, m + 1)
    BY <2>3 DEF Reads
  <2> HIDE DEF h
  <2>5. (m + 1 \in Nat) /\ \E D2 : Reads(D2, b, ntuples, cols, toast, m + 1)
    BY <2>4
  <2> QED
    BY <2>5
<1> HIDE DEF S
<1>3. n \in S
  BY <1>1, <1>2, Inductive
<1> QED
  BY <1>3 DEF S

\* decode_multi_insert is the last of them.
LEMMA ReadsAre ==
    ASSUME NEW b, NEW ntuples, NEW cols, NEW toast, ntuples \in Nat
    PROVE  \E D : /\ decode_multi_insert(b, ntuples, cols, toast) = IF D[ntuples].bad THEN <<Bad>> ELSE D[ntuples].out
                 /\ D[0] = MultiStart
                 /\ \A k \in 0 .. ntuples : k + 1 <= ntuples => D[k + 1] = NextTuple(D[k], b, cols, toast)
<1> DEFINE Fits(D) == D = [k \in 0 .. ntuples |-> IF k = 0 THEN MultiStart ELSE NextTuple(D[k - 1], b, cols, toast)]
<1>1. PICK h : h = CHOOSE D : Fits(D)
  OBVIOUS
<1>2. decode_multi_insert(b, ntuples, cols, toast) = IF h[ntuples].bad THEN <<Bad>> ELSE h[ntuples].out
  BY <1>1 DEF decode_multi_insert
<1>3. \E D : Fits(D)
  <2>1. \E D : Reads(D, b, ntuples, cols, toast, ntuples)
    BY ReadsExist
  <2> QED
    BY <2>1 DEF Reads
<1>4. Fits(h)
  <2> HIDE DEF Fits
  <2> QED
    BY <1>1, <1>3
<1>5. h[0] = MultiStart
  BY <1>4
<1>6. ASSUME NEW k \in 0 .. ntuples, k + 1 <= ntuples PROVE h[k + 1] = NextTuple(h[k], b, cols, toast)
  <2>1. k + 1 \in 0 .. ntuples /\ k + 1 # 0 /\ (k + 1) - 1 = k
    BY <1>6
  <2>2. h[k + 1] = NextTuple(h[(k + 1) - 1], b, cols, toast)
    BY <1>4, <2>1
  <2> QED
    BY <2>1, <2>2
<1> QED
  BY <1>2, <1>5, <1>6

-----------------------------------------------------------------------------
\* pglz: decompression inverts compression.

\* A state of the loop, without an error so far.
Inflating(sp, out, bit, ctrl) == [sp |-> sp, out |-> out, bit |-> bit, ctrl |-> ctrl, bad |-> FALSE]

\* The items of a group that are copies.
CtrlSet(items, i) == {k \in 0 .. ItemsPerCtrl - 1 : i + k <= Len(items) /\ items[i + k].copy}

\* The bytes of an item.
LEMMA ItemBytesAre ==
    ASSUME NEW it, it.copy \in BOOLEAN, it.copy => it.len \in Nat /\ it.len >= 3
    PROVE  /\ IsSeq(ItemBytes(it)) /\ Len(ItemBytes(it)) \in Nat \ {0}
           /\ ~it.copy => Len(ItemBytes(it)) = 1 /\ ItemBytes(it)[1] = it.b
           /\ it.copy /\ it.len - 3 < MaxNibble =>
                Len(ItemBytes(it)) = 2 /\ ItemBytes(it)[1] = <<"ref", it.len - 3, it.off>>
           /\ it.copy /\ ~(it.len - 3 < MaxNibble) =>
                /\ Len(ItemBytes(it)) = 3 /\ ItemBytes(it)[1] = <<"ref", MaxNibble, it.off>>
                /\ ItemBytes(it)[3] = Num(it.len - 3 - MaxNibble)
<1>1. CASE ~it.copy
  <2>1. ItemBytes(it) = <<it.b>>
    BY <1>1 DEF ItemBytes
  <2>2. PICK b : b = it.b
    OBVIOUS
  <2>3. IsSeq(<<b>>) /\ Len(<<b>>) = 1 /\ <<b>>[1] = b
    BY ShortSeqs
  <2> QED
    BY <1>1, <2>1, <2>2, <2>3
<1>2. CASE it.copy /\ it.len - 3 < MaxNibble
  <2>1. PICK r : r = <<"ref", it.len - 3, it.off>>
    OBVIOUS
  <2>2. ItemBytes(it) = <<r, Zero>>
    BY <1>2, <2>1 DEF ItemBytes
  <2>3. IsSeq(<<r, Zero>>) /\ Len(<<r, Zero>>) = 2 /\ <<r, Zero>>[1] = r
    BY ShortSeqs
  <2> QED
    BY <1>2, <2>1, <2>2, <2>3
<1>3. CASE it.copy /\ ~(it.len - 3 < MaxNibble)
  <2>1. PICK r : r = <<"ref", MaxNibble, it.off>>
    OBVIOUS
  <2>2. PICK m : m = Num(it.len - 3 - MaxNibble)
    OBVIOUS
  <2>3. ItemBytes(it) = <<r, Zero, m>>
    BY <1>3, <2>1, <2>2 DEF ItemBytes
  <2>4. IsSeq(<<r, Zero, m>>) /\ Len(<<r, Zero, m>>) = 3 /\ <<r, Zero, m>>[1] = r /\ <<r, Zero, m>>[3] = m
    BY ShortSeqs
  <2> QED
    BY <1>3, <2>1, <2>2, <2>3, <2>4
<1> QED
  BY <1>1, <1>2, <1>3

\* One field of a state is set, and three.
SetSp(s, e) == [s EXCEPT !.sp = e]
SetOut(s, e) == [s EXCEPT !.out = e]
SetBit(s, e) == [s EXCEPT !.bit = e]
SetCtrl(s, e) == [s EXCEPT !.ctrl = e]
ControlSet(s, i, j, e) == [s EXCEPT !.sp = i, !.bit = j, !.ctrl = e]
OutputSet(s, i, j, e) == [s EXCEPT !.sp = i, !.bit = j, !.out = e]

\* Assigning one field.
LEMMA FieldSet ==
    ASSUME NEW sp, NEW out, NEW bit, NEW c, NEW e
    PROVE  /\ SetSp(Inflating(sp, out, bit, c), e) = Inflating(e, out, bit, c)
           /\ SetOut(Inflating(sp, out, bit, c), e) = Inflating(sp, e, bit, c)
           /\ SetBit(Inflating(sp, out, bit, c), e) = Inflating(sp, out, e, c)
           /\ SetCtrl(Inflating(sp, out, bit, c), e) = Inflating(sp, out, bit, e)
<1>0. PICK z : z = FALSE
  OBVIOUS
<1>1. PICK s : s = [sp |-> sp, out |-> out, bit |-> bit, ctrl |-> c, bad |-> z]
  OBVIOUS
<1>2. s = Inflating(sp, out, bit, c)
  BY <1>0, <1>1, Zenon DEF Inflating
<1>3. [s EXCEPT !.sp = e] = [sp |-> e, out |-> out, bit |-> bit, ctrl |-> c, bad |-> z]
  BY <1>1
<1>4. [s EXCEPT !.out = e] = [sp |-> sp, out |-> e, bit |-> bit, ctrl |-> c, bad |-> z]
  BY <1>1
<1>5. [s EXCEPT !.bit = e] = [sp |-> sp, out |-> out, bit |-> e, ctrl |-> c, bad |-> z]
  BY <1>1
<1>6. [s EXCEPT !.ctrl = e] = [sp |-> sp, out |-> out, bit |-> bit, ctrl |-> e, bad |-> z]
  BY <1>1
<1> QED
  BY <1>0, <1>2, <1>3, <1>4, <1>5, <1>6, Zenon DEF SetSp, SetOut, SetBit, SetCtrl, Inflating

\* Assigning the fields a round changes.
LEMMA InflatingSet ==
    ASSUME NEW sp, NEW out, NEW bit, NEW c, NEW i, NEW j, NEW e
    PROVE  /\ ControlSet(Inflating(sp, out, bit, c), i, j, e) = Inflating(i, out, j, e)
           /\ OutputSet(Inflating(sp, out, bit, c), i, j, e) = Inflating(i, e, j, c)
<1>1. PICK s : s = Inflating(sp, out, bit, c)
  OBVIOUS
<1>2. ControlSet(s, i, j, e) = SetCtrl(SetBit(SetSp(s, i), j), e)
  BY DEF ControlSet, SetSp, SetBit, SetCtrl
<1>3. OutputSet(s, i, j, e) = SetOut(SetBit(SetSp(s, i), j), e)
  BY DEF OutputSet, SetSp, SetBit, SetOut
<1> QED
  BY <1>1, <1>2, <1>3, FieldSet

\* A round that reads a control byte.
LEMMA CtrlRound ==
    ASSUME NEW src, NEW at \in Nat, at < Len(src), Len(src) \in Nat, NEW c, src[at + 1][2] = c,
           NEW out, NEW raw \in Nat, Len(out) \in Nat, Len(out) < raw, NEW c0
    PROVE  InflateStep(Inflating(at, out, ItemsPerCtrl, c0), src, raw) = Inflating(at + 1, out, 0, c)
<1>1. PICK s : s = Inflating(at, out, ItemsPerCtrl, c0)
  OBVIOUS
<1>2. s.sp = at /\ s.out = out /\ s.bit = ItemsPerCtrl /\ s.bad = FALSE
  BY <1>1 DEF Inflating
<1>3. InflateStep(s, src, raw) = [s EXCEPT !.sp = @ + 1, !.bit = 0, !.ctrl = src[s.sp + 1][2]]
  BY <1>2 DEF InflateStep
<1>4. src[s.sp + 1][2] = c
  BY <1>2
<1>5. PICK i : i = at + 1
  OBVIOUS
<1>6. ControlSet(s, i, 0, c) = Inflating(i, out, 0, c)
  BY <1>1, InflatingSet
<1>7. [s EXCEPT !.sp = @ + 1, !.bit = 0, !.ctrl = src[s.sp + 1][2]] = ControlSet(s, i, 0, c)
  BY <1>2, <1>4, <1>5 DEF ControlSet
<1> QED
  BY <1>1, <1>3, <1>5, <1>6, <1>7

\* A copy, with room for it.
LEMMA CopyRound ==
    ASSUME NEW src, NEW at \in Nat, Len(src) \in Nat, NEW used \in Nat, at + used <= Len(src),
           NEW out, IsSeq(out), NEW raw \in Nat, NEW off \in Nat \ {0}, off <= Len(out),
           NEW len \in Nat, Len(out) + len <= raw, NEW bit, NEW c
    PROVE  CopyItem(Inflating(at, out, bit, c), src, raw, used, off, len)
             = Inflating(at + used, out \o Repeat(out, off, len), bit + 1, c)
<1>1. PICK s : s = Inflating(at, out, bit, c)
  OBVIOUS
<1>2. s.sp = at /\ s.out = out
  BY <1>1 DEF Inflating
<1>3. Len(out) \in Nat
  BY SeqLen
<1>4. PICK n : n = IF len < raw - Len(out) THEN len ELSE raw - Len(out)
  OBVIOUS
<1>5. n = len
  BY <1>3, <1>4
<1>6. ~(s.sp + used > Len(src) \/ off = 0 \/ off > Len(s.out))
  BY <1>2, <1>3
<1>7. CopyItem(s, src, raw, used, off, len)
        = [s EXCEPT !.sp = @ + used, !.bit = @ + 1,
                    !.out = Overlap(@, off, IF len < raw - Len(@) THEN len ELSE raw - Len(@))]
  BY <1>6 DEF CopyItem
<1>8. PICK e : e = Overlap(out, off, len)
  OBVIOUS
<1>9. CopyItem(s, src, raw, used, off, len) = OutputSet(s, at + used, bit + 1, e)
  <2>1. s.bit = bit
    BY <1>1 DEF Inflating
  <2> QED
    BY <1>2, <1>4, <1>5, <1>7, <1>8, <2>1 DEF OutputSet
<1>10. OutputSet(s, at + used, bit + 1, e) = Inflating(at + used, e, bit + 1, c)
  BY <1>1, InflatingSet
<1>11. e = out \o Repeat(out, off, len)
  BY <1>8, OverlapIs
<1> QED
  BY <1>1, <1>9, <1>10, <1>11

\* A round that reads an item.
LEMMA ItemRound ==
    ASSUME NEW it, it.copy \in BOOLEAN,
           NEW out, IsSeq(out), NEW raw \in Nat,
           it.copy => /\ it.off \in Nat \ {0} /\ it.off <= Len(out)
                      /\ it.len \in Nat /\ it.len >= 3,
           Len(out) + Gain(it) <= raw,
           NEW src, IsSeq(src), NEW at, Lies(src, at, ItemBytes(it)),
           NEW bit \in Nat, bit < ItemsPerCtrl, NEW c, (bit \in c) <=> it.copy
    PROVE  InflateStep(Inflating(at, out, bit, c), src, raw)
             = Inflating(at + Len(ItemBytes(it)), Produce(out, it), bit + 1, c)
<1>1. /\ IsSeq(ItemBytes(it)) /\ Len(ItemBytes(it)) \in Nat \ {0}
      /\ ~it.copy => Len(ItemBytes(it)) = 1 /\ ItemBytes(it)[1] = it.b
      /\ it.copy /\ it.len - 3 < MaxNibble =>
           Len(ItemBytes(it)) = 2 /\ ItemBytes(it)[1] = <<"ref", it.len - 3, it.off>>
      /\ it.copy /\ ~(it.len - 3 < MaxNibble) =>
           /\ Len(ItemBytes(it)) = 3 /\ ItemBytes(it)[1] = <<"ref", MaxNibble, it.off>>
           /\ ItemBytes(it)[3] = Num(it.len - 3 - MaxNibble)
  BY ItemBytesAre
<1>2. PICK g : g = ItemBytes(it)
  OBVIOUS
<1>3. PICK n \in Nat : n = Len(src)
  BY SeqLen
<1>4. PICK m \in Nat \ {0} : m = Len(g)
  BY <1>1, <1>2
<1>5. at \in Nat /\ at + m <= n /\ \A k \in 1 .. m : src[at + k] = g[k]
  BY <1>2, <1>3, <1>4 DEF Lies
<1>6. PICK l \in Nat : l = Len(out)
  BY SeqLen
<1>7. PICK s : s = Inflating(at, out, bit, c)
  OBVIOUS
<1>8. s.sp = at /\ s.out = out /\ s.bit = bit /\ s.ctrl = c /\ s.bad = FALSE
  BY <1>7 DEF Inflating
<1>9. l < raw
  <2>1. Gain(it) \in Nat \ {0}
    BY DEF Gain
  <2> QED
    BY <1>6, <2>1
<1>10. ~(s.bad \/ s.sp >= Len(src) \/ Len(s.out) >= raw)
  BY <1>3, <1>5, <1>6, <1>8, <1>9
<1>11. s.bit # ItemsPerCtrl
  BY <1>8, Widths
<1>12. InflateStep(s, src, raw) = InflateItem(s, src, raw)
  BY <1>10, <1>11 DEF InflateStep
<1>13. PICK tag : tag = src[at + 1]
  OBVIOUS
<1>14. tag = g[1]
  BY <1>5, <1>13
<1>15. CASE ~it.copy
  <2>1. InflateItem(s, src, raw) = [s EXCEPT !.sp = @ + 1, !.bit = @ + 1, !.out = Append(@, tag)]
    BY <1>8, <1>13, <1>15 DEF InflateItem
  <2>2. PICK e : e = Append(out, tag)
    OBVIOUS
  <2>3. OutputSet(s, at + 1, bit + 1, e) = Inflating(at + 1, e, bit + 1, c)
    BY <1>7, InflatingSet
  <2>4. InflateItem(s, src, raw) = OutputSet(s, at + 1, bit + 1, e)
    BY <1>8, <2>1, <2>2 DEF OutputSet
  <2>5. Produce(out, it) = e
    BY <1>1, <1>2, <1>14, <1>15, <2>2 DEF Produce
  <2>6. Len(ItemBytes(it)) = 1
    BY <1>1, <1>15
  <2> QED
    BY <1>7, <1>12, <2>3, <2>4, <2>5, <2>6
<1>16. CASE it.copy
  <2>1. PICK off \in Nat \ {0} : off = it.off
    BY <1>16
  <2>2. PICK len \in Nat : len = it.len
    BY <1>16
  <2>3. off <= l /\ len >= 3 /\ l + len <= raw
    BY <1>6, <1>16, <2>1, <2>2 DEF Gain
  <2>4. Produce(out, it) = out \o Repeat(out, off, len)
    BY <1>16, <2>1, <2>2 DEF Produce, Repeat
  <2>5. MaxNibble \in Nat
    BY Widths
  <2>6. s.bit \in s.ctrl
    BY <1>8, <1>16
  <2>7. CASE len - 3 < MaxNibble
    <3>1. m = 2 /\ tag = <<"ref", len - 3, off>>
      BY <1>1, <1>2, <1>4, <1>14, <1>16, <2>1, <2>2, <2>7
    <3>2. tag[2] = len - 3 /\ tag[3] = off
      BY <3>1
    <3>3. tag[2] # MaxNibble
      BY <2>3, <2>5, <2>7, <3>2
    <3>4. InflateItem(s, src, raw) = CopyItem(s, src, raw, 2, tag[3], 3 + tag[2])
      BY <1>8, <1>13, <2>6, <3>3 DEF InflateItem
    <3>5. 3 + tag[2] = len
      BY <2>3, <3>2
    <3>6. InflateItem(s, src, raw) = CopyItem(s, src, raw, 2, off, len)
      BY <3>2, <3>4, <3>5
    <3>7. CopyItem(Inflating(at, out, bit, c), src, raw, 2, off, len)
            = Inflating(at + 2, out \o Repeat(out, off, len), bit + 1, c)
      BY <1>3, <1>5, <1>6, <2>3, <3>1, CopyRound
    <3> QED
      BY <1>2, <1>4, <1>7, <1>12, <2>4, <3>1, <3>6, <3>7
  <2>8. CASE ~(len - 3 < MaxNibble)
    <3>1. m = 3 /\ tag = <<"ref", MaxNibble, off>> /\ g[3] = Num(len - 3 - MaxNibble)
      BY <1>1, <1>2, <1>4, <1>14, <1>16, <2>1, <2>2, <2>8
    <3>2. tag[2] = MaxNibble /\ tag[3] = off
      BY <3>1
    <3>3. PICK more : more = src[at + 3]
      OBVIOUS
    <3>4. more[2] = len - 3 - MaxNibble
      BY <1>5, <3>1, <3>3 DEF Num
    <3>5. InflateItem(s, src, raw) = CopyItem(s, src, raw, 3, tag[3], 3 + tag[2] + more[2])
      BY <1>8, <1>13, <2>6, <3>2, <3>3 DEF InflateItem
    <3>6. 3 + tag[2] + more[2] = len
      BY <2>3, <2>5, <2>8, <3>2, <3>4
    <3>7. InflateItem(s, src, raw) = CopyItem(s, src, raw, 3, off, len)
      BY <3>2, <3>5, <3>6
    <3>8. CopyItem(Inflating(at, out, bit, c), src, raw, 3, off, len)
            = Inflating(at + 3, out \o Repeat(out, off, len), bit + 1, c)
      BY <1>3, <1>5, <1>6, <2>3, <3>1, CopyRound
    <3> QED
      BY <1>2, <1>4, <1>7, <1>12, <2>4, <3>1, <3>7, <3>8
  <2> QED
    BY <2>7, <2>8
<1> QED
  BY <1>15, <1>16

\* The control byte of a group and the bytes of an item behind it.
LEMMA GroupIs ==
    ASSUME NEW items, IsItems(items), NEW i \in 1 .. Len(items)
    PROVE  /\ IsSeq(Group(items, i)) /\ IsSeq(Ctrl(items, i)) /\ IsSeq(ItemBytes(items[i]))
           /\ Len(ItemBytes(items[i])) \in Nat \ {0}
           /\ Len(Ctrl(items, i)) = IF (i - 1) % ItemsPerCtrl = 0 THEN 1 ELSE 0
           /\ (i - 1) % ItemsPerCtrl = 0 => Ctrl(items, i)[1] = <<"ctrl", CtrlSet(items, i)>>
           /\ Len(Group(items, i)) = Len(Ctrl(items, i)) + Len(ItemBytes(items[i]))
<1>1. DOMAIN items = 1 .. Len(items)
  BY SeqLen DEF IsItems
<1>2. /\ items[i].copy \in BOOLEAN
      /\ items[i].copy => items[i].len \in Nat /\ items[i].len >= 3
  BY <1>1 DEF IsItems
<1>3. PICK it : it = items[i]
  OBVIOUS
<1>4. IsSeq(ItemBytes(it)) /\ Len(ItemBytes(it)) \in Nat \ {0}
  BY <1>2, <1>3, ItemBytesAre
<1>5. PICK g : g = ItemBytes(it)
  OBVIOUS
<1>6. PICK c : c = Ctrl(items, i)
  OBVIOUS
<1>7. PICK w : w = <<"ctrl", CtrlSet(items, i)>>
  OBVIOUS
<1>8. /\ (i - 1) % ItemsPerCtrl = 0 => c = <<w>>
      /\ (i - 1) % ItemsPerCtrl # 0 => c = <<>>
  BY <1>6, <1>7 DEF Ctrl, CtrlSet
<1>9. /\ IsSeq(c) /\ Len(c) = IF (i - 1) % ItemsPerCtrl = 0 THEN 1 ELSE 0
      /\ (i - 1) % ItemsPerCtrl = 0 => c[1] = w
  <2>1. IsSeq(<<>>) /\ Len(<<>>) = 0 /\ IsSeq(<<w>>) /\ Len(<<w>>) = 1 /\ <<w>>[1] = w
    BY ShortSeqs
  <2> QED
    BY <1>8, <2>1
<1>10. Group(items, i) = c \o g
  BY <1>3, <1>5, <1>6 DEF Group
<1>11. IsSeq(c \o g) /\ Len(c \o g) = Len(c) + Len(g)
  BY <1>4, <1>5, <1>9, Concat
<1> QED
  BY <1>3, <1>4, <1>5, <1>6, <1>7, <1>9, <1>10, <1>11

\* What is known of a compressed form: U[i] is what the first items make of
\* it, and the bytes of item i + 1 stand behind them.
Compressed(items, src, U) ==
    /\ IsSeq(src) /\ src = U[Len(items)] /\ U[0] = <<>>
    /\ \A i \in 0 .. Len(items) : IsSeq(U[i]) /\ Len(U[i]) \in Nat
    /\ \A i \in 1 .. Len(items) : /\ Len(U[i]) = Len(U[i - 1]) + Len(Group(items, i))
                                  /\ Lies(src, Len(U[i - 1]), Group(items, i))

\* A compressed value, group by group.
LEMMA CompressIs ==
    ASSUME NEW items, IsItems(items)
    PROVE  \E U : Compressed(items, Compress(items), U)
<1>1. PICK n \in Nat : n = Len(items)
  BY SeqLen DEF IsItems
<1>2. PICK U : Compress(items) = U[Len(items)] /\ Ups(U, items, Len(items))
  BY <1>1, UpsAre
<1>3. PICK G : G = [k \in 1 .. n |-> Group(items, k)]
  OBVIOUS
<1>4. \A k \in 1 .. n : G[k] = Group(items, k)
  BY <1>3
<1>5. Parts(G, n)
  BY <1>1, <1>4, GroupIs DEF Parts
<1>6. Joins(U, G, n)
  <2>1. ASSUME NEW k \in 0 .. n
        PROVE  (IF k = 0 THEN <<>> ELSE U[k - 1] \o Group(items, k)) = (IF k = 0 THEN <<>> ELSE U[k - 1] \o G[k])
    <3>1. k # 0 => k \in 1 .. n
      OBVIOUS
    <3> QED
      BY <1>4, <3>1
  <2>2. U = [k \in 0 .. n |-> IF k = 0 THEN <<>> ELSE U[k - 1] \o Group(items, k)]
    BY <1>1, <1>2 DEF Ups
  <2>3. [k \in 0 .. n |-> IF k = 0 THEN <<>> ELSE U[k - 1] \o Group(items, k)]
          = [k \in 0 .. n |-> IF k = 0 THEN <<>> ELSE U[k - 1] \o G[k]]
    BY <2>1
  <2> QED
    BY <2>2, <2>3 DEF Joins
<1>7. Joined(U, G, n)
  BY <1>5, <1>6, JoinFacts
<1>8. PICK src : src = Compress(items)
  OBVIOUS
<1>9. /\ src = U[n] /\ U[0] = <<>> /\ \A i \in 0 .. n : IsSeq(U[i]) /\ Len(U[i]) \in Nat
      /\ \A i \in 1 .. n : Len(U[i]) = Len(U[i - 1]) + Len(G[i])
  BY <1>1, <1>2, <1>7, <1>8 DEF Joined
<1>10. IsSeq(src)
  BY <1>9
<1>11. Lies(src, 0, U[n])
  BY <1>9, <1>10 DEF Lies
<1>12. \A k \in 1 .. n : Lies(src, 0 + Len(U[k - 1]), G[k])
  BY <1>5, <1>6, <1>10, <1>11, JoinLies
<1>13. ASSUME NEW k \in 1 .. n
       PROVE  Len(U[k]) = Len(U[k - 1]) + Len(Group(items, k)) /\ Lies(src, Len(U[k - 1]), Group(items, k))
  <2>1. k - 1 \in 0 .. n
    OBVIOUS
  <2>2. 0 + Len(U[k - 1]) = Len(U[k - 1])
    BY <1>9, <2>1
  <2> QED
    BY <1>4, <1>9, <1>12, <2>2
<1> QED
  BY <1>1, <1>8, <1>9, <1>10, <1>13 DEF Compressed

\* Where the loop stands in a group after some items.
BitAfter(i) == IF i % ItemsPerCtrl = 0 THEN ItemsPerCtrl ELSE i % ItemsPerCtrl

\* The bit that says what item i + 1 is.
LEMMA GroupBit ==
    ASSUME NEW items, IsItems(items), NEW i \in Nat, i < Len(items),
           NEW c, c = CtrlSet(items, i - (i % ItemsPerCtrl) + 1)
    PROVE  /\ i % ItemsPerCtrl \in Nat /\ i % ItemsPerCtrl < ItemsPerCtrl
           /\ (i % ItemsPerCtrl) \in c <=> items[i + 1].copy
           /\ (i + 1) % ItemsPerCtrl # 0 =>
                c = CtrlSet(items, (i + 1) - ((i + 1) % ItemsPerCtrl) + 1)
           /\ BitAfter(i + 1) = (i % ItemsPerCtrl) + 1
<1>1. ItemsPerCtrl \in Nat \ {0} /\ Len(items) \in Nat
  BY Widths, SeqLen DEF IsItems
<1>2. PICK r : r = i % ItemsPerCtrl
  OBVIOUS
<1>3. r \in Nat /\ r < ItemsPerCtrl
  BY <1>1, <1>2, DivIs
<1>4. (i + 1) % ItemsPerCtrl = IF r + 1 = ItemsPerCtrl THEN 0 ELSE r + 1
  BY <1>1, <1>2, ModNext
<1>5. (r \in c) <=> items[i + 1].copy
  <2>1. r \in 0 .. ItemsPerCtrl - 1
    BY <1>1, <1>3
  <2>2. (i - r + 1) + r = i + 1 /\ i + 1 <= Len(items)
    BY <1>1, <1>3
  <2>3. c = {k \in 0 .. ItemsPerCtrl - 1 : (i - r + 1) + k <= Len(items) /\ items[(i - r + 1) + k].copy}
    BY <1>2 DEF CtrlSet
  <2> QED
    BY <2>1, <2>2, <2>3
<1>6. ASSUME (i + 1) % ItemsPerCtrl # 0
      PROVE  c = CtrlSet(items, (i + 1) - ((i + 1) % ItemsPerCtrl) + 1)
  <2>1. (i + 1) % ItemsPerCtrl = r + 1
    BY <1>4, <1>6
  <2>2. (i + 1) - (r + 1) + 1 = i - r + 1
    BY <1>3
  <2> QED
    BY <1>2, <2>1, <2>2
<1>7. BitAfter(i + 1) = r + 1
  BY <1>1, <1>3, <1>4 DEF BitAfter
<1> QED
  BY <1>2, <1>3, <1>5, <1>6, <1>7

\* The loop has read the first i items in k rounds.
Reached(items, U, O, s, i) ==
    \E c : /\ s = Inflating(Len(U[i]), O[i], BitAfter(i), c)
           /\ i % ItemsPerCtrl # 0 => c = CtrlSet(items, i - (i % ItemsPerCtrl) + 1)

\* One more item takes one round, or two at the start of a group.
LEMMA NextItem ==
    ASSUME NEW items, IsItems(items), NEW src, NEW U, Compressed(items, src, U),
           NEW O, O = Outputs(items), NEW raw, raw = Len(O[Len(items)]),
           NEW i \in Nat, i < Len(items), NEW s, Reached(items, U, O, s, i)
    PROVE  /\ i % ItemsPerCtrl # 0 => Reached(items, U, O, InflateStep(s, src, raw), i + 1)
           /\ i % ItemsPerCtrl = 0 =>
                Reached(items, U, O, InflateStep(InflateStep(s, src, raw), src, raw), i + 1)
           /\ Len(U[i + 1]) >= Len(U[i]) + (IF i % ItemsPerCtrl = 0 THEN 2 ELSE 1)
<1>1. PICK n \in Nat : n = Len(items)
  BY SeqLen DEF IsItems
<1>2. i + 1 \in 1 .. Len(items) /\ i \in 0 .. Len(items) /\ i + 1 \in 0 .. Len(items) /\ (i + 1) - 1 = i
  BY <1>1
<1>3. PICK it : it = items[i + 1]
  OBVIOUS
<1>4. PICK out : out = O[i]
  OBVIOUS
<1>5. PICK at : at = Len(U[i])
  OBVIOUS
<1>6. PICK g : g = ItemBytes(it)
  OBVIOUS
<1>7. PICK w : w = Ctrl(items, i + 1)
  OBVIOUS
<1>8. /\ IsSeq(src) /\ at \in Nat /\ Len(U[i + 1]) = at + Len(Group(items, i + 1))
      /\ Lies(src, at, Group(items, i + 1))
  <2>1. at \in Nat /\ IsSeq(src)
    BY <1>2, <1>5 DEF Compressed
  <2>2. /\ Len(U[i + 1]) = Len(U[(i + 1) - 1]) + Len(Group(items, i + 1))
        /\ Lies(src, Len(U[(i + 1) - 1]), Group(items, i + 1))
    BY <1>2 DEF Compressed
  <2> QED
    BY <1>2, <1>5, <2>1, <2>2
<1>9. /\ IsSeq(w) /\ IsSeq(g) /\ Len(g) \in Nat \ {0}
      /\ Len(w) = IF i % ItemsPerCtrl = 0 THEN 1 ELSE 0
      /\ i % ItemsPerCtrl = 0 => w[1] = <<"ctrl", CtrlSet(items, i + 1)>>
      /\ Len(Group(items, i + 1)) = Len(w) + Len(g)
  BY <1>2, <1>3, <1>6, <1>7, GroupIs
<1>10. Group(items, i + 1) = w \o g
  BY <1>3, <1>6, <1>7 DEF Group
<1>11. Lies(src, at, w) /\ Lies(src, at + Len(w), g)
  BY <1>8, <1>9, <1>10, LiesParts
<1>12. PICK m \in Nat \ {0} : m = Len(g)
  BY <1>9
<1>13. PICK l \in Nat : l = Len(src)
  BY <1>8, SeqLen
<1>14. /\ IsSeq(out) /\ Len(out) \in Nat /\ O[i + 1] = Produce(out, it)
       /\ Gain(it) \in Nat \ {0} /\ Len(O[i + 1]) = Len(out) + Gain(it)
  <2>1. /\ \A j \in 0 .. Len(items) : IsSeq(O[j]) /\ Len(O[j]) \in Nat
        /\ \A j \in 1 .. Len(items) : /\ O[j] = Produce(O[j - 1], items[j])
                                      /\ Gain(items[j]) \in Nat \ {0}
                                      /\ Len(O[j]) = Len(O[j - 1]) + Gain(items[j])
    BY OutputsGrow
  <2>2. /\ O[i + 1] = Produce(O[(i + 1) - 1], items[i + 1])
        /\ Gain(items[i + 1]) \in Nat \ {0}
        /\ Len(O[i + 1]) = Len(O[(i + 1) - 1]) + Gain(items[i + 1])
    BY <1>2, <2>1
  <2> QED
    BY <1>2, <1>3, <1>4, <2>1, <2>2
<1>15. raw \in Nat /\ Len(O[i + 1]) <= raw
  <2>1. \A j \in 0 .. Len(items) : Len(O[j]) <= Len(O[Len(items)])
    BY OutputsRoom
  <2>2. Len(O[Len(items)]) \in Nat
    <3>1. \A j \in 0 .. Len(items) : IsSeq(O[j]) /\ Len(O[j]) \in Nat
      BY OutputsGrow
    <3>2. Len(items) \in 0 .. Len(items)
      BY <1>1
    <3> QED
      BY <3>1, <3>2
  <2> QED
    BY <1>2, <2>1, <2>2
<1>16. /\ it.copy \in BOOLEAN
       /\ it.copy => /\ it.off \in Nat \ {0} /\ it.off <= Len(out)
                     /\ it.len \in Nat /\ it.len >= 3
  <2>1. DOMAIN items = 1 .. Len(items)
    BY SeqLen DEF IsItems
  <2>2. /\ items[i + 1].copy \in BOOLEAN
        /\ items[i + 1].copy => /\ items[i + 1].off \in Nat \ {0} /\ items[i + 1].off <= Len(O[(i + 1) - 1])
                                /\ items[i + 1].len \in Nat /\ items[i + 1].len >= 3
    BY <1>2, <2>1 DEF IsItems
  <2> QED
    BY <1>2, <1>3, <1>4, <2>2
<1>17. Len(out) + Gain(it) <= raw
  BY <1>14, <1>15
<1>18. PICK r \in Nat : r = i % ItemsPerCtrl
  BY Widths, DivIs
<1>19. PICK c0 : s = Inflating(at, out, BitAfter(i), c0) /\ (r # 0 => c0 = CtrlSet(items, i - r + 1))
  BY <1>4, <1>5, <1>18 DEF Reached
<1>20. ASSUME NEW c, c = CtrlSet(items, i - r + 1), NEW a, a = at + Len(w)
       PROVE  Reached(items, U, O, InflateStep(Inflating(a, out, r, c), src, raw), i + 1)
  <2>1. /\ r < ItemsPerCtrl /\ (r \in c <=> it.copy)
        /\ (i + 1) % ItemsPerCtrl # 0 => c = CtrlSet(items, (i + 1) - ((i + 1) % ItemsPerCtrl) + 1)
        /\ BitAfter(i + 1) = r + 1
    BY <1>1, <1>3, <1>18, <1>20, GroupBit
  <2>2. Lies(src, a, ItemBytes(it))
    BY <1>6, <1>11, <1>20
  <2>3. InflateStep(Inflating(a, out, r, c), src, raw)
          = Inflating(a + Len(ItemBytes(it)), Produce(out, it), r + 1, c)
    BY <1>8, <1>14, <1>15, <1>16, <1>17, <2>1, <2>2, ItemRound
  <2>4. a + Len(ItemBytes(it)) = Len(U[i + 1])
    <3>1. PICK x \in Nat : x = Len(w)
      BY <1>9
    <3>2. Len(Group(items, i + 1)) = x + m /\ a = at + x /\ Len(ItemBytes(it)) = m
      BY <1>6, <1>9, <1>12, <1>20, <3>1
    <3>3. at + (x + m) = (at + x) + m
      BY <1>8
    <3> QED
      BY <1>8, <3>2, <3>3
  <2> QED
    BY <1>14, <2>1, <2>3, <2>4 DEF Reached
<1>21. Len(U[i + 1]) >= Len(U[i]) + (IF i % ItemsPerCtrl = 0 THEN 2 ELSE 1)
  BY <1>5, <1>8, <1>9, <1>12
<1>22. ASSUME r # 0 PROVE Reached(items, U, O, InflateStep(s, src, raw), i + 1)
  <2>1. s = Inflating(at, out, r, c0) /\ c0 = CtrlSet(items, i - r + 1)
    BY <1>18, <1>19, <1>22 DEF BitAfter
  <2>2. at = at + Len(w)
    BY <1>8, <1>9, <1>18, <1>22
  <2> QED
    BY <1>20, <2>1, <2>2
<1>23. ASSUME r = 0
       PROVE  Reached(items, U, O, InflateStep(InflateStep(s, src, raw), src, raw), i + 1)
  <2>1. s = Inflating(at, out, ItemsPerCtrl, c0)
    BY <1>18, <1>19, <1>23 DEF BitAfter
  <2>2. PICK c : c = CtrlSet(items, i + 1)
    OBVIOUS
  <2>3. Len(w) = 1 /\ w[1] = <<"ctrl", c>>
    BY <1>9, <1>18, <1>23, <2>2
  <2>4. at + 1 <= l /\ src[at + 1] = <<"ctrl", c>>
    BY <1>11, <1>13, <2>3 DEF Lies
  <2>5. at < Len(src) /\ Len(src) \in Nat /\ Len(out) < raw
    <3>1. at < Len(src) /\ Len(src) \in Nat
      BY <1>8, <1>13, <2>4
    <3>2. PICK x \in Nat : x = Len(out)
      BY <1>14
    <3>3. PICK y \in Nat \ {0} : y = Gain(it)
      BY <1>14
    <3>4. x + y <= raw /\ raw \in Nat
      BY <1>15, <1>17, <3>2, <3>3
    <3> QED
      BY <3>1, <3>2, <3>4
  <2>6. InflateStep(Inflating(at, out, ItemsPerCtrl, c0), src, raw) = Inflating(at + 1, out, 0, c)
    <3>1. at \in Nat /\ raw \in Nat /\ Len(out) \in Nat
      BY <1>8, <1>14, <1>15
    <3>2. src[at + 1][2] = c
      BY <2>4
    <3> QED
      BY <2>5, <3>1, <3>2, CtrlRound
  <2>7. at + 1 = at + Len(w) /\ i - r + 1 = i + 1
    BY <2>3, <1>23
  <2>8. Reached(items, U, O, InflateStep(Inflating(at + 1, out, r, c), src, raw), i + 1)
    BY <1>20, <2>2, <2>7
  <2> QED
    BY <1>23, <2>1, <2>6, <2>8
<1> QED
  BY <1>18, <1>21, <1>22, <1>23

\* pglz_decompress: whatever the server compresses - literals and copies,
\* overlapping or not, of any length, over any number of control bytes - comes
\* out as it was, for any number of items per control byte and any tag width.
THEOREM PglzInverts ==
    ASSUME NEW items, IsItems(items)
    PROVE  pglz_decompress(Compress(items), Len(Expand(items))) = Expand(items)
<1>1. PICK n \in Nat : n = Len(items)
  BY SeqLen DEF IsItems
<1>2. PICK O : O = Outputs(items)
  OBVIOUS
<1>3. PICK raw : raw = Len(O[Len(items)])
  OBVIOUS
<1>4. PICK src : src = Compress(items)
  OBVIOUS
<1>5. PICK U : Compressed(items, src, U)
  BY <1>4, CompressIs
<1>6. PICK l \in Nat : l = Len(src)
  BY <1>5, SeqLen DEF Compressed
<1>7. PICK H : /\ pglz_decompress(src, raw) = Inflated(H[Len(src)], raw)
               /\ H[0] = InflateStart
               /\ \A k \in 0 .. Len(src) : k + 1 <= Len(src) => H[k + 1] = InflateStep(H[k], src, raw)
  BY <1>6, InflatesAre
<1>8. \A k \in Nat : k + 1 <= l => H[k + 1] = InflateStep(H[k], src, raw)
  BY <1>6, <1>7
<1>9. \A i \in 0 .. n : Len(U[i]) \in Nat
  BY <1>1, <1>5 DEF Compressed
<1>10. U[0] = <<>> /\ Len(U[n]) = l
  BY <1>1, <1>5, <1>6 DEF Compressed
<1>11. O[0] = <<>>
  BY <1>2, OutputsGrow
<1>12. \A i \in Nat : i < n => Len(U[i + 1]) >= Len(U[i]) + (IF i % ItemsPerCtrl = 0 THEN 2 ELSE 1)
  <2> SUFFICES ASSUME NEW i \in Nat, i < n
               PROVE  Len(U[i + 1]) >= Len(U[i]) + (IF i % ItemsPerCtrl = 0 THEN 2 ELSE 1)
    OBVIOUS
  <2>1. PICK a \in Nat : a = Len(U[i])
    BY <1>9
  <2>2. i + 1 \in 1 .. Len(items) /\ (i + 1) - 1 = i
    BY <1>1
  <2>3. Len(U[i + 1]) = Len(U[(i + 1) - 1]) + Len(Group(items, i + 1))
    BY <1>5, <2>2 DEF Compressed
  <2>4. /\ Len(ItemBytes(items[i + 1])) \in Nat \ {0}
        /\ Len(Ctrl(items, i + 1)) = IF i % ItemsPerCtrl = 0 THEN 1 ELSE 0
        /\ Len(Group(items, i + 1)) = Len(Ctrl(items, i + 1)) + Len(ItemBytes(items[i + 1]))
    <3>1. PICK j \in 1 .. Len(items) : j = i + 1 /\ j - 1 = i
      BY <2>2
    <3>2. /\ Len(ItemBytes(items[j])) \in Nat \ {0}
          /\ Len(Ctrl(items, j)) = IF (j - 1) % ItemsPerCtrl = 0 THEN 1 ELSE 0
          /\ Len(Group(items, j)) = Len(Ctrl(items, j)) + Len(ItemBytes(items[j]))
      BY GroupIs
    <3> QED
      BY <3>1, <3>2
  <2>5. PICK m \in Nat \ {0} : m = Len(ItemBytes(items[i + 1]))
    BY <2>4
  <2> QED
    BY <2>1, <2>2, <2>3, <2>4, <2>5
<1> DEFINE S == {i \in Nat : i <= n => /\ Len(U[i]) <= l
                                       /\ \E k \in Nat : k <= Len(U[i]) /\ Reached(items, U, O, H[k], i)}
           T == {j \in Nat : j <= n => Len(U[n - j]) <= l}
<1>13. \A i \in 0 .. n : Len(U[i]) <= l
  <2>1. 0 \in T
    BY <1>6, <1>10
  <2>2. ASSUME NEW j \in Nat, j \in T PROVE j + 1 \in T
    <3> SUFFICES ASSUME j + 1 <= n PROVE Len(U[n - (j + 1)]) <= l
      OBVIOUS
    <3>1. PICK i \in Nat : i = n - (j + 1)
      OBVIOUS
    <3>2. i < n /\ i + 1 = n - j /\ j <= n /\ i \in 0 .. n /\ i + 1 \in 0 .. n
      BY <3>1
    <3>3. Len(U[i + 1]) <= l
      BY <2>2, <3>2
    <3>4. Len(U[i + 1]) >= Len(U[i])
      <4>1. PICK a \in Nat : a = Len(U[i])
        BY <1>9, <3>2
      <4>2. PICK b \in Nat : b = Len(U[i + 1])
        BY <1>9, <3>2
      <4>3. b >= a + (IF i % ItemsPerCtrl = 0 THEN 2 ELSE 1)
        BY <1>12, <3>2, <4>1, <4>2
      <4>4. b >= a + 2 \/ b >= a + 1
        BY <4>3
      <4>5. b >= a
        BY <4>4
      <4> QED
        BY <4>1, <4>2, <4>5
    <3> QED
      BY <1>6, <1>9, <3>1, <3>2, <3>3, <3>4
  <2>3. \A j \in Nat : j \in T
    <3> HIDE DEF T
    <3> QED
      BY <2>1, <2>2, Inductive
  <2>4. ASSUME NEW i \in 0 .. n PROVE Len(U[i]) <= l
    <3>1. n - i \in Nat /\ n - i <= n /\ n - (n - i) = i
      OBVIOUS
    <3> QED
      BY <2>3, <3>1
  <2> QED
    BY <2>4
<1> HIDE DEF T
<1>14. 0 \in S
  <2>1. H[0] = Inflating(0, <<>>, ItemsPerCtrl, {})
    BY <1>7 DEF InflateStart, Inflating
  <2>2. 0 % ItemsPerCtrl = 0
    BY Widths, ModSmall
  <2>3. Len(U[0]) = 0 /\ BitAfter(0) = ItemsPerCtrl
    BY <1>10, <2>2, ShortSeqs DEF BitAfter
  <2>4. Reached(items, U, O, H[0], 0)
    BY <1>11, <2>1, <2>2, <2>3 DEF Reached
  <2>5. 0 <= Len(U[0])
    BY <2>3
  <2> QED
    BY <1>13, <2>4, <2>5
<1>15. ASSUME NEW i \in Nat, i \in S PROVE i + 1 \in S
  <2> SUFFICES ASSUME i + 1 <= n
               PROVE  /\ Len(U[i + 1]) <= l
                      /\ \E k \in Nat : k <= Len(U[i + 1]) /\ Reached(items, U, O, H[k], i + 1)
    OBVIOUS
  <2>1. i < Len(items) /\ i <= n /\ i \in 0 .. n /\ i + 1 \in 0 .. n /\ i < n
    BY <1>1
  <2>2. PICK k \in Nat : k <= Len(U[i]) /\ Reached(items, U, O, H[k], i)
    BY <1>15, <2>1
  <2>3. PICK a \in Nat : a = Len(U[i])
    BY <1>9, <2>1
  <2>4. PICK b \in Nat : b = Len(U[i + 1]) /\ b <= l
    BY <1>9, <1>13, <2>1
  <2>5. PICK s : s = H[k]
    OBVIOUS
  <2>6. Reached(items, U, O, s, i)
    BY <2>2, <2>5
  <2>7. /\ i % ItemsPerCtrl # 0 => Reached(items, U, O, InflateStep(s, src, raw), i + 1)
        /\ i % ItemsPerCtrl = 0 =>
             Reached(items, U, O, InflateStep(InflateStep(s, src, raw), src, raw), i + 1)
        /\ Len(U[i + 1]) >= Len(U[i]) + (IF i % ItemsPerCtrl = 0 THEN 2 ELSE 1)
    BY <1>2, <1>3, <1>5, <2>1, <2>6, NextItem
  <2>8. b >= a + (IF i % ItemsPerCtrl = 0 THEN 2 ELSE 1) /\ k <= a
    BY <2>2, <2>3, <2>4, <2>7
  <2>9. CASE i % ItemsPerCtrl # 0
    <3>1. k + 1 <= b /\ k + 1 <= l /\ k + 1 \in Nat
      BY <2>4, <2>8, <2>9
    <3>2. H[k + 1] = InflateStep(s, src, raw)
      BY <1>8, <2>5, <3>1
    <3>3. Reached(items, U, O, H[k + 1], i + 1)
      BY <2>7, <2>9, <3>2
    <3> QED
      BY <2>4, <3>1, <3>3
  <2>10. CASE i % ItemsPerCtrl = 0
    <3>1. k + 1 <= l /\ k + 1 \in Nat /\ (k + 1) + 1 <= b /\ (k + 1) + 1 <= l /\ (k + 1) + 1 \in Nat
      BY <2>4, <2>8, <2>10
    <3>2. H[k + 1] = InflateStep(s, src, raw)
      BY <1>8, <2>5, <3>1
    <3>3. H[(k + 1) + 1] = InflateStep(H[k + 1], src, raw)
      BY <1>8, <3>1
    <3>4. Reached(items, U, O, H[(k + 1) + 1], i + 1)
      BY <2>7, <2>10, <3>2, <3>3
    <3> QED
      BY <2>4, <3>1, <3>4
  <2> QED
    BY <2>9, <2>10
<1>16. n \in S
  <2> HIDE DEF S
  <2> QED
    BY <1>14, <1>15, Inductive
<1>17. PICK k \in Nat : k <= l /\ Reached(items, U, O, H[k], n)
  BY <1>10, <1>16
<1>18. PICK c : H[k] = Inflating(l, O[n], BitAfter(n), c)
  BY <1>10, <1>17 DEF Reached
<1> HIDE DEF S
<1>19. PICK e : e = H[k]
  OBVIOUS
<1>20. e.sp = l /\ e.out = O[n] /\ e.bad = FALSE
  BY <1>18, <1>19 DEF Inflating
<1>21. InflateStep(e, src, raw) = e
  <2>1. e.sp >= Len(src)
    BY <1>6, <1>20
  <2> QED
    BY <2>1 DEF InflateStep
<1> DEFINE Q == {j \in Nat : k + j <= l => H[k + j] = e}
<1>22. 0 \in Q
  BY <1>19
<1>23. ASSUME NEW j \in Nat, j \in Q PROVE j + 1 \in Q
  <2> SUFFICES ASSUME k + (j + 1) <= l PROVE H[k + (j + 1)] = e
    OBVIOUS
  <2>1. k + j \in Nat /\ (k + j) + 1 <= l /\ k + j <= l /\ k + (j + 1) = (k + j) + 1
    OBVIOUS
  <2>2. H[(k + j) + 1] = InflateStep(H[k + j], src, raw)
    BY <1>8, <2>1
  <2>3. H[k + j] = e
    BY <1>23, <2>1
  <2> QED
    BY <1>21, <2>1, <2>2, <2>3
<1>24. \A j \in Nat : j \in Q
  <2> HIDE DEF Q
  <2> QED
    BY <1>22, <1>23, Inductive
<1>25. H[l] = e
  <2>1. l - k \in Nat /\ k + (l - k) = l
    BY <1>17
  <2> QED
    BY <1>24, <2>1
<1>26. Inflated(e, raw) = O[n]
  BY <1>1, <1>3, <1>20 DEF Inflated
<1>27. Expand(items) = O[n]
  BY <1>1, <1>2 DEF Expand
<1> QED
  BY <1>1, <1>3, <1>4, <1>6, <1>7, <1>25, <1>26, <1>27

-----------------------------------------------------------------------------
\* Stored values.

\* The forms of a compressed value.
Squeezed == {"pglz", "lz4", "external pglz", "external lz4"}

\* What is assumed of a stored value, form by form.
LEMMA AttrIs ==
    ASSUME NEW col, NEW a, IsAttr(col, a)
    PROVE  /\ IsSeq(a.v) /\ Len(a.v) \in Nat /\ a.v # Error
           /\ a.form \in {"null", "fixed", "short", "long"} \cup Squeezed \cup External
           /\ a.form = "null" => a = NullAttr
           /\ a.form = "fixed" => col.len >= 0 /\ Len(a.v) = col.len
           /\ a.form \notin {"null", "fixed"} => col.len < 0
           /\ a.form = "short" => Len(a.v) <= ShortMax
           /\ a.form = "long" => Len(a.v) > ShortMax
           /\ a.form = "external" => Len(a.v) > 0
           /\ a.form \in {"pglz", "external pglz"} => IsItems(a.items) /\ a.v = Expand(a.items)
           /\ a.form \in {"external pglz", "external lz4"} => Len(Stored(a)) < Len(a.v)
<1>1. IsSeq(a.v) /\ a.v # Error
  BY DEF IsAttr
<1>2. Len(a.v) \in Nat
  BY <1>1, SeqLen
<1>3. CASE a = NullAttr
  <2>1. a.form = "null"
    BY <1>3 DEF NullAttr, Attr
  <2> QED
    BY <1>1, <1>2, <1>3, <2>1 DEF Squeezed, External
<1>4. CASE a # NullAttr
  <2>1. \/ a.form = "fixed" /\ col.len >= 0 /\ Len(a.v) = col.len
        \/ /\ col.len < 0
           /\ \/ a.form = "short" /\ Len(a.v) <= ShortMax
              \/ a.form = "long" /\ Len(a.v) > ShortMax
              \/ a.form = "lz4"
              \/ a.form = "external" /\ Len(a.v) > 0
              \/ a.form = "external lz4" /\ Len(Stored(a)) < Len(a.v)
              \/ /\ a.form \in {"pglz", "external pglz"}
                 /\ IsItems(a.items) /\ a.v = Expand(a.items)
                 /\ a.form # "pglz" => Len(Stored(a)) < Len(a.v)
    BY <1>4 DEF IsAttr
  <2> QED
    BY <1>1, <1>2, <2>1 DEF Squeezed, External
<1> QED
  BY <1>3, <1>4

\* A compressed value is decompressed again.
LEMMA PackedIs ==
    ASSUME NEW col, NEW a, IsAttr(col, a), a.form \in Squeezed
    PROVE  /\ IsSeq(Packed(a)) /\ Len(Packed(a)) \in Nat
           /\ decompress_datum(Method(a.form), Packed(a), Len(a.v)) = a.v
<1>1. CASE a.form \in {"lz4", "external lz4"}
  <2>1. Method(a.form) = 1
    BY <1>1 DEF Method
  <2>2. PICK w : w = <<"lz4", a.v>>
    OBVIOUS
  <2>3. w[2] = a.v
    BY <2>2
  <2>4. Packed(a) = <<w>>
    BY <2>1, <2>2 DEF Packed
  <2>5. IsSeq(<<w>>) /\ Len(<<w>>) = 1 /\ <<w>>[1] = w
    BY ShortSeqs
  <2>6. decompress_datum(1, <<w>>, Len(a.v)) = a.v
    <3>1. <<w>>[1][2] = a.v
      BY <2>3, <2>5
    <3> QED
      BY <2>5, <3>1 DEF decompress_datum
  <2> QED
    BY <2>1, <2>4, <2>5, <2>6
<1>2. CASE a.form \in {"pglz", "external pglz"}
  <2>1. Method(a.form) = 0
    BY <1>2 DEF Method
  <2>2. PICK items : items = a.items
    OBVIOUS
  <2>3. IsItems(items) /\ a.v = Expand(items)
    BY <1>2, <2>2, AttrIs
  <2>4. Packed(a) = Compress(items)
    BY <2>1, <2>2 DEF Packed
  <2>5. PICK U : Compressed(items, Compress(items), U)
    BY <2>3, CompressIs
  <2>6. IsSeq(Compress(items)) /\ Len(Compress(items)) \in Nat
    BY <2>5, SeqLen DEF Compressed
  <2>7. pglz_decompress(Compress(items), Len(Expand(items))) = Expand(items)
    BY <2>3, PglzInverts
  <2>8. decompress_datum(0, Compress(items), Len(a.v)) = pglz_decompress(Compress(items), Len(a.v))
    BY DEF decompress_datum
  <2> QED
    BY <2>1, <2>3, <2>4, <2>6, <2>7, <2>8
<1> QED
  BY <1>1, <1>2 DEF Squeezed

\* What is cut into chunks.
LEMMA StoredIs ==
    ASSUME NEW col, NEW a, IsAttr(col, a), a.form \in External
    PROVE  /\ IsSeq(Stored(a)) /\ Len(Stored(a)) \in Nat \ {0}
           /\ a.form = "external" => Stored(a) = a.v
           /\ a.form # "external" => /\ a.form \in Squeezed /\ Len(Stored(a)) = 4 + Len(Packed(a))
                                     /\ SubSeq(Stored(a), 5, Len(Stored(a))) = Packed(a)
<1>1. CASE a.form = "external"
  <2>1. Stored(a) = a.v
    BY <1>1 DEF Stored
  <2>2. IsSeq(a.v) /\ Len(a.v) \in Nat /\ Len(a.v) > 0
    BY <1>1, AttrIs
  <2> QED
    BY <1>1, <2>1, <2>2
<1>2. CASE a.form # "external"
  <2>1. a.form \in Squeezed
    BY <1>2 DEF External, Squeezed
  <2>2. IsSeq(Packed(a)) /\ Len(Packed(a)) \in Nat
    BY <2>1, PackedIs
  <2>3. PICK p : p = Packed(a)
    OBVIOUS
  <2>4. PICK h : h = <<Num(Len(a.v)), Zero, Zero, Zero>>
    OBVIOUS
  <2>5. IsSeq(h) /\ Len(h) = 4
    <3>1. PICK x : x = Num(Len(a.v))
      OBVIOUS
    <3>2. h \in Seq({x, Zero}) /\ Len(h) = 4
      BY <2>4, <3>1
    <3> QED
      BY <3>2, SeqIs
  <2>6. Stored(a) = h \o p
    BY <1>2, <2>3, <2>4 DEF Stored
  <2>7. PICK s : s = h \o p
    OBVIOUS
  <2>8. /\ IsSeq(s) /\ Len(s) = 4 + Len(p)
        /\ \A k \in 1 .. Len(p) : s[4 + k] = p[k]
    <3>0. IsSeq(h) /\ IsSeq(p)
      BY <2>2, <2>3, <2>5
    <3>1. /\ IsSeq(h \o p) /\ Len(h \o p) = Len(h) + Len(p)
          /\ \A k \in 1 .. Len(p) : (h \o p)[Len(h) + k] = p[k]
      BY <3>0, Concat
    <3> QED
      BY <2>5, <2>7, <3>1
  <2>9. Lies(s, 4, p)
    BY <2>2, <2>3, <2>8 DEF Lies
  <2>10. SubSeq(s, 4 + 1, 4 + Len(p)) = p
    BY <2>8, <2>9, LiesCut
  <2> QED
    BY <1>2, <2>1, <2>2, <2>3, <2>6, <2>7, <2>8, <2>10
<1> QED
  BY <1>1, <1>2

\* Two chunks, joined.
LEMMA Flattened ==
    ASSUME NEW a, NEW b, NEW s, s = [i \in 1 .. 2 |-> IF i = 1 THEN a ELSE b]
    PROVE  FlattenSeq(s) = a \o b
<1>1. IsSeq(s) /\ Len(s) = 2 /\ s[1] = a /\ s[2] = b
  <2>1. s = [k \in 1 .. 2 |-> s[k]] /\ s[1] = a /\ s[2] = b
    OBVIOUS
  <2>2. IsSeq(s) /\ Len(s) = 2
    BY <2>1, FunSeq
  <2> QED
    BY <2>1, <2>2
<1> DEFINE Fits(f) == f = [i \in 1 .. Len(s) |-> IF i = 1 THEN s[i] ELSE f[i - 1] \o s[i]]
<1>2. PICK f : f = CHOOSE g : Fits(g)
  OBVIOUS
<1>3. FlattenSeq(s) = f[Len(s)]
  BY <1>1, <1>2 DEF FlattenSeq
<1>4. \E g : Fits(g)
  <2> DEFINE g == [i \in 1 .. 2 |-> IF i = 1 THEN a ELSE a \o b]
  <2>1. ASSUME NEW i \in 1 .. 2 PROVE g[i] = IF i = 1 THEN s[i] ELSE g[i - 1] \o s[i]
    <3>1. CASE i = 1
      BY <1>1, <3>1
    <3>2. CASE i = 2
      BY <1>1, <3>2
    <3> QED
      BY <3>1, <3>2
  <2>2. g = [i \in 1 .. 2 |-> IF i = 1 THEN s[i] ELSE g[i - 1] \o s[i]]
    BY <2>1
  <2>3. Fits(g)
    BY <1>1, <2>2
  <2> QED
    BY <2>3
<1>5. Fits(f)
  <2> HIDE DEF Fits
  <2> QED
    BY <1>2, <1>4
<1>6. f[1] = a
  BY <1>1, <1>5
<1>7. f[2] = f[1] \o s[2]
  BY <1>1, <1>5
<1> QED
  BY <1>1, <1>3, <1>6, <1>7

\* ToastCache::resolve gives the value when it has both chunks, and refuses
\* when it has the last one only.
LEMMA Resolved ==
    ASSUME NEW col, NEW a, IsAttr(col, a), a.form \in External, NEW i, NEW ids, ValueId(i, a) \in ids
    PROVE  /\ resolve(Cached(ids, TRUE)[ValueId(i, a)], Len(a.v), Len(Stored(a)), Method(a.form)) = a.v
           /\ resolve(Cached(ids, FALSE)[ValueId(i, a)], Len(a.v), Len(Stored(a)), Method(a.form)) = Error
<1>1. PICK id : id = ValueId(i, a)
  OBVIOUS
<1>2. id[2] = a
  BY <1>1 DEF ValueId
<1>3. PICK s : s = Stored(a)
  OBVIOUS
<1>4. /\ IsSeq(s) /\ Len(s) \in Nat \ {0}
      /\ a.form = "external" => s = a.v
      /\ a.form # "external" => /\ a.form \in Squeezed /\ Len(s) = 4 + Len(Packed(a))
                                /\ SubSeq(s, 5, Len(s)) = Packed(a)
  BY <1>3, StoredIs
<1>5. PICK x : x = SubSeq(s, 1, 1)
  OBVIOUS
<1>6. PICK y : y = SubSeq(s, 2, Len(s))
  OBVIOUS
<1>7. PICK full : full = [k \in 0 .. 1 |-> IF k = 0 THEN x ELSE y]
  OBVIOUS
<1>8. Cached(ids, TRUE)[id] = full
  BY <1>1, <1>2, <1>3, <1>5, <1>6, <1>7 DEF Cached
<1>9. PICK half : half = [k \in {1} |-> full[1]]
  OBVIOUS
<1>10. Cached(ids, FALSE)[id] = half
  BY <1>1, <1>2, <1>3, <1>5, <1>6, <1>7, <1>9 DEF Cached
<1>11. PICK raw \in Nat : raw = Len(a.v)
  BY AttrIs
<1>12. PICK ext \in Nat \ {0} : ext = Len(s)
  BY <1>4
<1>13. PICK m : m = Method(a.form)
  OBVIOUS
<1>14. resolve(half, raw, ext, m) = Error
  <2>1. DOMAIN half = {1}
    BY <1>9
  <2>2. Cardinality({1}) = 1
    BY FS_Singleton
  <2>3. DOMAIN half # 0 .. Cardinality(DOMAIN half) - 1
    BY <2>1, <2>2
  <2> QED
    BY <2>3 DEF resolve
<1>15. x \o y = s
  <2>1. IsSeq(x) /\ Len(x) = 1 /\ x[1] = s[1]
    <3>1. /\ IsSeq(SubSeq(s, 1, 1)) /\ Len(SubSeq(s, 1, 1)) = 1 + 1 - 1
          /\ \A k \in 1 .. 1 + 1 - 1 : SubSeq(s, 1, 1)[k] = s[1 - 1 + k]
      BY <1>4, Part
    <3> QED
      BY <1>5, <3>1
  <2>2. IsSeq(y) /\ Len(y) = ext - 1 /\ \A k \in 1 .. ext - 1 : y[k] = s[1 + k]
    <3>1. /\ IsSeq(SubSeq(s, 2, ext)) /\ Len(SubSeq(s, 2, ext)) = ext + 1 - 2
          /\ \A k \in 1 .. ext + 1 - 2 : SubSeq(s, 2, ext)[k] = s[2 - 1 + k]
      BY <1>4, <1>12, Part
    <3> QED
      BY <1>6, <1>12, <3>1
  <2>3. PICK z : z = x \o y
    OBVIOUS
  <2>4. /\ IsSeq(z) /\ Len(z) = Len(x) + Len(y)
        /\ \A k \in 1 .. Len(x) : z[k] = x[k]
        /\ \A k \in 1 .. Len(y) : z[Len(x) + k] = y[k]
    <3>0. IsSeq(x) /\ IsSeq(y)
      BY <2>1, <2>2
    <3>1. /\ IsSeq(x \o y) /\ Len(x \o y) = Len(x) + Len(y)
          /\ \A k \in 1 .. Len(x) : (x \o y)[k] = x[k]
          /\ \A k \in 1 .. Len(y) : (x \o y)[Len(x) + k] = y[k]
      BY <3>0, Concat
    <3> QED
      BY <2>3, <3>1
  <2>5. Len(z) = ext
    BY <2>1, <2>2, <2>4
  <2>6. ASSUME NEW k \in 1 .. ext PROVE z[k] = s[k]
    <3>1. CASE k = 1
      BY <2>1, <2>4, <3>1
    <3>2. CASE k # 1
      <4>1. PICK j \in 1 .. ext - 1 : k = 1 + j
        BY <3>2
      <4> QED
        BY <2>1, <2>2, <2>4, <4>1
    <3> QED
      BY <3>1, <3>2
  <2> QED
    BY <1>4, <1>12, <2>3, <2>4, <2>5, <2>6, SeqEq
<1>16. resolve(full, raw, ext, m) = Unpacked(s, raw, ext, m)
  <2>1. DOMAIN full = 0 .. 1
    BY <1>7
  <2>2. Cardinality(0 .. 1) = 2
    <3>1. PICK o, l \in Int : o = 0 /\ l = 1
      OBVIOUS
    <3>2. Cardinality(o .. l) = IF o > l THEN 0 ELSE l - o + 1
      BY FS_Interval, Zenon
    <3> QED
      BY <3>1, <3>2
  <2>3. [j \in 1 .. 2 |-> full[j - 1]] = [j \in 1 .. 2 |-> IF j = 1 THEN x ELSE y]
    <3>1. ASSUME NEW j \in 1 .. 2 PROVE full[j - 1] = IF j = 1 THEN x ELSE y
      BY <1>7
    <3> QED
      BY <3>1
  <2>4. FlattenSeq([j \in 1 .. 2 |-> IF j = 1 THEN x ELSE y]) = x \o y
    BY Flattened
  <2>5. PICK n : n = Cardinality(DOMAIN full)
    OBVIOUS
  <2>6. n = 2 /\ DOMAIN full = 0 .. n - 1
    BY <2>1, <2>2, <2>5
  <2>7. resolve(full, raw, ext, m) = Unpacked(FlattenSeq([j \in 1 .. n |-> full[j - 1]]), raw, ext, m)
    BY <2>5, <2>6 DEF resolve
  <2> QED
    BY <1>15, <2>3, <2>4, <2>6, <2>7
<1>17. Unpacked(s, raw, ext, m) = a.v
  <2>1. CASE a.form = "external"
    <3>1. s = a.v /\ ext = raw
      BY <1>4, <1>11, <1>12, <2>1
    <3> QED
      BY <1>12, <3>1 DEF Unpacked
  <2>2. CASE a.form # "external"
    <3>1. a.form \in Squeezed /\ ext = 4 + Len(Packed(a)) /\ SubSeq(s, 5, ext) = Packed(a)
      BY <1>4, <1>12, <2>2
    <3>2. Len(Packed(a)) \in Nat /\ decompress_datum(m, Packed(a), raw) = a.v
      BY <1>11, <1>13, <3>1, PackedIs
    <3>3. ext < raw
      <4>1. a.form \in {"external pglz", "external lz4"}
        BY <2>2 DEF External
      <4> QED
        BY <1>3, <1>11, <1>12, <4>1, AttrIs
    <3>4. ext # raw /\ ~(ext < 4)
      BY <3>1, <3>2, <3>3
    <3>5. Unpacked(s, raw, ext, m) = decompress_datum(m, SubSeq(s, 5, Len(s)), raw)
      BY <1>12, <3>4 DEF Unpacked
    <3> QED
      BY <1>12, <3>1, <3>2, <3>5
  <2> QED
    BY <2>1, <2>2
<1> QED
  BY <1>1, <1>3, <1>8, <1>10, <1>11, <1>12, <1>13, <1>14, <1>16, <1>17

-----------------------------------------------------------------------------
\* One column: what Fill appends, ReadValue reads.

\* buf, padded.
Padded(buf, n) == buf \o Filler(align_to(Len(buf), n) - Len(buf))

\* Padding up to an alignment.
LEMMA PaddedIs ==
    ASSUME NEW buf, IsSeq(buf), NEW n \in Nat \ {0}
    PROVE  /\ IsSeq(Padded(buf, n)) /\ Len(Padded(buf, n)) = align_to(Len(buf), n)
           /\ Len(buf) \in Nat /\ align_to(Len(buf), n) \in Nat /\ Len(buf) <= align_to(Len(buf), n)
           /\ \A k \in 1 .. Len(buf) : Padded(buf, n)[k] = buf[k]
           /\ \A k \in Len(buf) + 1 .. align_to(Len(buf), n) : Padded(buf, n)[k] = Zero
<1>1. PICK l \in Nat : l = Len(buf)
  BY SeqLen
<1>2. PICK m \in Nat : m = align_to(l, n) /\ m >= l
  BY AlignIs
<1>3. PICK f : f = Filler(m - l)
  OBVIOUS
<1>4. IsSeq(f) /\ Len(f) = m - l /\ \A k \in 1 .. m - l : f[k] = Zero
  BY <1>2, <1>3, FillerIs
<1>5. IsSeq(f)
  BY <1>4
<1>6. /\ IsSeq(buf \o f) /\ Len(buf \o f) = Len(buf) + Len(f)
      /\ \A k \in 1 .. Len(buf) : (buf \o f)[k] = buf[k]
      /\ \A k \in 1 .. Len(f) : (buf \o f)[Len(buf) + k] = f[k]
  BY <1>5, Concat
<1>7. PICK p : p = buf \o f
  OBVIOUS
<1>8. Padded(buf, n) = p
  BY <1>1, <1>2, <1>3, <1>7 DEF Padded
<1>9. IsSeq(p) /\ Len(p) = m /\ \A k \in 1 .. l : p[k] = buf[k]
  BY <1>1, <1>2, <1>4, <1>6, <1>7
<1>10. ASSUME NEW k \in l + 1 .. m PROVE p[k] = Zero
  <2>1. PICK j \in 1 .. m - l : k = l + j
    <3>1. k - l \in 1 .. m - l /\ k = l + (k - l)
      BY <1>1, <1>2
    <3> QED
      BY <3>1
  <2> QED
    BY <1>1, <1>4, <1>6, <1>7, <2>1
<1> QED
  BY <1>1, <1>2, <1>8, <1>9, <1>10

\* Two sequences, one behind the other.
LEMMA Join2 ==
    ASSUME NEW s, NEW t, IsSeq(s), IsSeq(t)
    PROVE  IsSeq(s \o t) /\ Len(s \o t) = Len(s) + Len(t) /\ Len(s) \in Nat /\ Len(t) \in Nat
<1>1. IsSeq(s \o t) /\ Len(s \o t) = Len(s) + Len(t)
  BY Concat
<1> QED
  BY <1>1, SeqLen

\* A token, in place.
LEMMA LiesToken ==
    ASSUME NEW data, NEW at, NEW w, Lies(data, at, <<w>>)
    PROVE  at \in Nat /\ at + 1 <= Len(data) /\ data[at + 1] = w
<1>1. Len(<<w>>) = 1 /\ <<w>>[1] = w
  BY ShortSeqs
<1>2. at \in Nat /\ at + Len(<<w>>) <= Len(data) /\ \A k \in 1 .. Len(<<w>>) : data[at + k] = <<w>>[k]
  BY DEF Lies
<1> QED
  BY <1>1, <1>2

\* Where a value stands it is cut out.
LEMMA Sliced ==
    ASSUME NEW data, NEW at, NEW s, IsSeq(data), Lies(data, at, s)
    PROVE  Slice(data, at, Len(s)) = s /\ at \in Nat /\ at + Len(s) <= Len(data) /\ Len(s) \in Nat
<1>1. SubSeq(data, at + 1, at + Len(s)) = s
  BY LiesCut
<1> QED
  BY <1>1, SeqLen DEF Slice, Lies

\* What stands in data behind buf, when F is buf with a column appended.
ReadNext(data, buf, F) ==
    /\ IsSeq(F) /\ Len(F) \in Nat /\ Len(buf) \in Nat /\ Len(F) >= Len(buf)
    /\ Lies(data, 0, F) => Lies(data, 0, buf)

\* A fixed-width value.
LEMMA FixedRead ==
    ASSUME NEW data, IsSeq(data), NEW buf, IsSeq(buf), NEW col, IsColumn(col), NEW a, IsAttr(col, a),
           NEW i, NEW toast, a.form = "fixed", NEW F, F = Fill(buf, col, i, a)
    PROVE  /\ ReadNext(data, buf, F) /\ Len(F) = align_to(Len(buf), col.align) + col.len
           /\ Lies(data, 0, F) => ReadValue(data, Len(buf), col, toast) = Got([v |-> a.v], Len(F))
<1>1. col.align \in Nat \ {0} /\ col.len \in Int /\ col.len >= 0
  BY AttrIs DEF IsColumn
<1>2. PICK n \in Nat : n = col.len
  BY <1>1
<1>3. PICK v : v = a.v
  OBVIOUS
<1>4. IsSeq(v) /\ Len(v) = n
  BY <1>2, <1>3, AttrIs
<1>5. PICK p : p = Padded(buf, col.align)
  OBVIOUS
<1>6. PICK at \in Nat : at = align_to(Len(buf), col.align)
  BY <1>1, PaddedIs
<1>7. /\ IsSeq(p) /\ Len(p) = at /\ Len(buf) \in Nat /\ Len(buf) <= at
      /\ \A k \in 1 .. Len(buf) : p[k] = buf[k]
  BY <1>1, <1>5, <1>6, PaddedIs
<1>8. F = p \o v
  <2>1. Fill(buf, col, i, a) = (buf \o Filler(align_to(Len(buf), col.align) - Len(buf))) \o a.v
    BY DEF Fill, External
  <2> QED
    BY <1>3, <1>5, <2>1 DEF Padded
<1>9. IsSeq(p \o v) /\ Len(p \o v) = Len(p) + Len(v)
  BY <1>4, <1>7, Join2
<1>10. IsSeq(F) /\ Len(F) = at + n
  BY <1>4, <1>7, <1>8, <1>9
<1>11. ASSUME Lies(data, 0, F)
       PROVE  Lies(data, 0, p) /\ Lies(data, at, v)
  <2>1. Lies(data, 0, p \o v)
    BY <1>8, <1>11
  <2>2. Lies(data, 0, p) /\ Lies(data, 0 + Len(p), v)
    BY <1>4, <1>7, <2>1, LiesParts
  <2>3. 0 + Len(p) = at
    BY <1>7
  <2> QED
    BY <2>2, <2>3
<1>12. ASSUME Lies(data, 0, F) PROVE Lies(data, 0, buf)
  BY <1>7, <1>11, <1>12 DEF Lies
<1>13. ASSUME Lies(data, 0, F) PROVE ReadValue(data, Len(buf), col, toast) = Got([v |-> a.v], Len(F))
  <2>1. Slice(data, at, Len(v)) = v /\ at + Len(v) <= Len(data)
    BY <1>11, <1>13, Sliced
  <2>2. ~(col.len < 0) /\ ~(at + col.len > Len(data))
    <3>1. Len(data) \in Nat
      BY SeqLen
    <3> QED
      BY <1>2, <1>4, <2>1, <3>1
  <2>3. ReadValue(data, Len(buf), col, toast) = Got([v |-> Slice(data, at, col.len)], at + col.len)
    BY <1>6, <2>2 DEF ReadValue
  <2> QED
    BY <1>2, <1>3, <1>4, <1>10, <2>1, <2>3
<1> QED
  BY <1>2, <1>6, <1>7, <1>10, <1>12, <1>13 DEF ReadNext

\* A short varlena.
LEMMA ShortRead ==
    ASSUME NEW data, IsSeq(data), NEW buf, IsSeq(buf), NEW col, NEW a, IsAttr(col, a),
           NEW i, NEW toast, a.form = "short", NEW F, F = Fill(buf, col, i, a)
    PROVE  /\ ReadNext(data, buf, F)
           /\ Lies(data, 0, F) => ReadValue(data, Len(buf), col, toast) = Got([v |-> a.v], Len(F))
<1>1. PICK v : v = a.v
  OBVIOUS
<1>2. col.len < 0 /\ IsSeq(v)
  BY <1>1, AttrIs
<1>3. PICK n \in Nat : n = Len(v)
  BY <1>2, SeqLen
<1>4. PICK w : w = <<"short", n + 1>>
  OBVIOUS
<1>5. PICK off \in Nat : off = Len(buf)
  BY SeqLen
<1>6. PICK p : p = buf \o <<w>>
  OBVIOUS
<1>7. F = p \o v
  <2>1. Fill(buf, col, i, a) = (buf \o << <<"short", Len(a.v) + 1>> >>) \o a.v
    BY DEF Fill, External
  <2> QED
    BY <1>1, <1>3, <1>4, <1>6, <2>1
<1>8. IsSeq(<<w>>) /\ Len(<<w>>) = 1
  BY ShortSeqs
<1>9. IsSeq(p) /\ Len(p) = off + 1
  <2>1. IsSeq(buf \o <<w>>) /\ Len(buf \o <<w>>) = Len(buf) + Len(<<w>>)
    BY <1>8, Join2
  <2> QED
    BY <1>5, <1>6, <1>8, <2>1
<1>10. IsSeq(F) /\ Len(F) = off + 1 + n
  <2>1. IsSeq(p \o v) /\ Len(p \o v) = Len(p) + Len(v)
    BY <1>2, <1>9, Join2
  <2> QED
    BY <1>3, <1>7, <1>9, <2>1
<1>11. ASSUME Lies(data, 0, F)
       PROVE  Lies(data, 0, buf) /\ Lies(data, off, <<w>>) /\ Lies(data, off + 1, v)
  <2>1. Lies(data, 0, p \o v)
    BY <1>7, <1>11
  <2>2. Lies(data, 0, p) /\ Lies(data, 0 + Len(p), v)
    BY <1>2, <1>9, <2>1, LiesParts
  <2>3. Lies(data, 0, buf \o <<w>>)
    BY <1>6, <2>2
  <2>4. Lies(data, 0, buf) /\ Lies(data, 0 + Len(buf), <<w>>)
    BY <1>8, <2>3, LiesParts
  <2>5. 0 + Len(p) = off + 1 /\ 0 + Len(buf) = off
    BY <1>5, <1>9
  <2> QED
    BY <2>2, <2>4, <2>5
<1>12. ASSUME Lies(data, 0, F) PROVE ReadValue(data, Len(buf), col, toast) = Got([v |-> a.v], Len(F))
  <2>1. off + 1 <= Len(data) /\ data[off + 1] = w
    BY <1>11, <1>12, LiesToken
  <2>2. Slice(data, off + 1, Len(v)) = v /\ (off + 1) + Len(v) <= Len(data)
    BY <1>11, <1>12, Sliced
  <2>3. w[1] = "short" /\ w[2] = n + 1
    BY <1>4
  <2>4. PICK l \in Nat : l = Len(data)
    BY SeqLen
  <2>5. ~(off >= Len(data)) /\ ~(off + w[2] > Len(data)) /\ w[2] - 1 = n /\ off + w[2] = off + 1 + n
    <3>1. PICK x \in Nat : x = w[2] /\ x = n + 1
      BY <2>3
    <3>2. off + 1 <= l /\ (off + 1) + n <= l
      BY <1>3, <2>1, <2>2, <2>4
    <3>3. ~(off >= l) /\ ~(off + x > l) /\ x - 1 = n /\ off + x = off + 1 + n
      BY <3>1, <3>2
    <3> QED
      BY <2>4, <3>1, <3>3
  <2>6. decode_varlena(data, off, toast) = Got([v |-> Slice(data, off + 1, w[2] - 1)], off + w[2])
    BY <2>1, <2>3, <2>5 DEF decode_varlena
  <2>7. ReadValue(data, off, col, toast) = decode_varlena(data, off, toast)
    BY <1>2 DEF ReadValue
  <2> QED
    BY <1>1, <1>3, <1>5, <1>10, <2>2, <2>5, <2>6, <2>7
<1> QED
  BY <1>5, <1>10, <1>11, <1>12 DEF ReadNext

\* A pointer.
LEMMA PointerRead ==
    ASSUME NEW data, IsSeq(data), NEW buf, IsSeq(buf), NEW col, NEW a, IsAttr(col, a),
           NEW i, NEW toast, a.form \in External, NEW F, F = Fill(buf, col, i, a)
    PROVE  /\ ReadNext(data, buf, F)
           /\ Lies(data, 0, F) =>
                ReadValue(data, Len(buf), col, toast)
                  = IF ValueId(i, a) \notin DOMAIN toast THEN Got(Unresolved, Len(F))
                    ELSE GotBytes(resolve(toast[ValueId(i, a)], Len(a.v), Len(Stored(a)), Method(a.form)), Len(F))
<1>1. col.len < 0
  <2>1. a.form \notin {"null", "fixed"}
    BY DEF External
  <2> QED
    BY <2>1, AttrIs
<1>2. PICK id, raw, ext, m : id = ValueId(i, a) /\ raw = Len(a.v) /\ ext = Len(Stored(a)) /\ m = Method(a.form)
  OBVIOUS
<1>3. PICK w : w = <<"external", id, raw, ext, m>>
  OBVIOUS
<1>4. w[1] = "external" /\ w[2] = id /\ w[3] = raw /\ w[4] = ext /\ w[5] = m
  BY <1>3
<1>5. PICK off \in Nat : off = Len(buf)
  BY SeqLen
<1>6. PtrLen \in Nat \ {0} /\ PtrLen - 1 \in Nat
  BY Widths
<1>7. PICK f : f = Filler(PtrLen - 1)
  OBVIOUS
<1>8. IsSeq(f) /\ Len(f) = PtrLen - 1
  BY <1>6, <1>7, FillerIs
<1>9. PICK p : p = <<w>> \o f
  OBVIOUS
<1>10. IsSeq(<<w>>) /\ Len(<<w>>) = 1
  BY ShortSeqs
<1>11. IsSeq(p) /\ Len(p) = PtrLen
  <2>1. IsSeq(<<w>> \o f) /\ Len(<<w>> \o f) = Len(<<w>>) + Len(f)
    BY <1>8, <1>10, Join2
  <2> QED
    BY <1>6, <1>8, <1>9, <1>10, <2>1
<1>12. F = buf \o p
  <2>1. Pointer(i, a) = p
    BY <1>2, <1>3, <1>7, <1>9 DEF Pointer
  <2>2. Fill(buf, col, i, a) = buf \o Pointer(i, a)
    BY DEF Fill, External
  <2> QED
    BY <2>1, <2>2
<1>13. IsSeq(F) /\ Len(F) = off + PtrLen
  <2>1. IsSeq(buf \o p) /\ Len(buf \o p) = Len(buf) + Len(p)
    BY <1>11, Join2
  <2> QED
    BY <1>5, <1>11, <1>12, <2>1
<1>14. ASSUME Lies(data, 0, F)
       PROVE  Lies(data, 0, buf) /\ Lies(data, off, <<w>>) /\ off + PtrLen <= Len(data)
  <2>1. Lies(data, 0, buf \o p)
    BY <1>12, <1>14
  <2>2. Lies(data, 0, buf) /\ Lies(data, 0 + Len(buf), p)
    BY <1>11, <2>1, LiesParts
  <2>3. 0 + Len(buf) = off
    BY <1>5
  <2>4. Lies(data, off, <<w>> \o f)
    BY <1>9, <2>2, <2>3
  <2>5. Lies(data, off, <<w>>)
    BY <1>8, <1>10, <2>4, LiesParts
  <2>6. off + Len(p) <= Len(data)
    BY <2>2, <2>3 DEF Lies
  <2> QED
    BY <1>11, <2>2, <2>5, <2>6
<1>15. ASSUME Lies(data, 0, F)
       PROVE  ReadValue(data, Len(buf), col, toast)
                = IF ValueId(i, a) \notin DOMAIN toast THEN Got(Unresolved, Len(F))
                  ELSE GotBytes(resolve(toast[ValueId(i, a)], Len(a.v), Len(Stored(a)), Method(a.form)), Len(F))
  <2>1. off + 1 <= Len(data) /\ data[off + 1] = w
    BY <1>14, <1>15, LiesToken
  <2>2. PICK l \in Nat : l = Len(data)
    BY SeqLen
  <2>3. ~(off >= Len(data)) /\ ~(off + PtrLen > Len(data))
    BY <1>6, <1>14, <1>15, <2>1, <2>2
  <2>4. decode_varlena(data, off, toast)
          = IF w[2] \notin DOMAIN toast THEN Got(Unresolved, off + PtrLen)
            ELSE GotBytes(resolve(toast[w[2]], w[3], w[4], w[5]), off + PtrLen)
    BY <1>4, <2>1, <2>3 DEF decode_varlena
  <2>5. ReadValue(data, off, col, toast) = decode_varlena(data, off, toast)
    BY <1>1 DEF ReadValue
  <2> QED
    BY <1>2, <1>4, <1>5, <1>13, <2>4, <2>5
<1> QED
  BY <1>5, <1>6, <1>13, <1>14, <1>15 DEF ReadNext

\* An aligned four-byte header.
LongHead(buf, w) == (Padded(buf, 4) \o <<w>>) \o Filler(3)

\* The header of a value, and what follows it.
LEMMA HeadIs ==
    ASSUME NEW buf, IsSeq(buf), NEW w, NEW at, at = align_to(Len(buf), 4)
    PROVE  /\ IsSeq(LongHead(buf, w)) /\ Len(LongHead(buf, w)) = at + 4
           /\ at \in Nat /\ Len(buf) \in Nat /\ Len(buf) <= at
<1>1. PICK p : p = Padded(buf, 4)
  OBVIOUS
<1>2. IsSeq(p) /\ Len(p) = at /\ Len(buf) \in Nat /\ at \in Nat /\ Len(buf) <= at
  BY <1>1, PaddedIs
<1>3. IsSeq(<<w>>) /\ Len(<<w>>) = 1
  BY ShortSeqs
<1>4. PICK q : q = p \o <<w>>
  OBVIOUS
<1>5. IsSeq(q) /\ Len(q) = at + 1
  <2>1. IsSeq(p \o <<w>>) /\ Len(p \o <<w>>) = Len(p) + Len(<<w>>)
    BY <1>2, <1>3, Join2
  <2> QED
    BY <1>2, <1>3, <1>4, <2>1
<1>6. IsSeq(Filler(3)) /\ Len(Filler(3)) = 3
  BY FillerIs
<1>7. IsSeq(q \o Filler(3)) /\ Len(q \o Filler(3)) = Len(q) + Len(Filler(3))
  BY <1>5, <1>6, Join2
<1>8. LongHead(buf, w) = q \o Filler(3)
  BY <1>1, <1>4 DEF LongHead
<1>9. Len(q) + Len(Filler(3)) = at + 4
  <2>1. PICK x, y \in Nat : x = Len(q) /\ y = Len(Filler(3))
    BY <1>2, <1>5, <1>6
  <2>2. x = at + 1 /\ y = 3
    BY <1>5, <1>6, <2>1
  <2>3. x + y = at + 4
    BY <1>2, <2>2
  <2> QED
    BY <2>1, <2>3
<1> QED
  BY <1>2, <1>7, <1>8, <1>9

\* Reading such a header.
LEMMA HeadRead ==
    ASSUME NEW data, IsSeq(data), NEW buf, IsSeq(buf), NEW w, NEW at, at = align_to(Len(buf), 4),
           Lies(data, 0, LongHead(buf, w))
    PROVE  /\ Lies(data, 0, buf) /\ data[at + 1] = w /\ at + 4 <= Len(data)
           /\ data[Len(buf) + 1] \in {Zero, w} /\ Len(buf) < Len(data)
<1>1. PICK p : p = Padded(buf, 4)
  OBVIOUS
<1>2. PICK off \in Nat : off = Len(buf)
  BY SeqLen
<1>3. /\ IsSeq(p) /\ Len(p) = at /\ at \in Nat /\ off <= at
      /\ \A k \in 1 .. off : p[k] = buf[k]
      /\ \A k \in off + 1 .. at : p[k] = Zero
  <2>1. PICK n \in Nat \ {0} : n = 4
    OBVIOUS
  <2>2. /\ IsSeq(Padded(buf, n)) /\ Len(Padded(buf, n)) = align_to(Len(buf), n)
        /\ Len(buf) \in Nat /\ align_to(Len(buf), n) \in Nat /\ Len(buf) <= align_to(Len(buf), n)
        /\ \A k \in 1 .. Len(buf) : Padded(buf, n)[k] = buf[k]
        /\ \A k \in Len(buf) + 1 .. align_to(Len(buf), n) : Padded(buf, n)[k] = Zero
    BY PaddedIs
  <2> QED
    BY <1>1, <1>2, <2>1, <2>2
<1>4. IsSeq(<<w>>) /\ Len(<<w>>) = 1
  BY ShortSeqs
<1>5. PICK q : q = p \o <<w>>
  OBVIOUS
<1>6. IsSeq(q) /\ Len(q) = at + 1
  <2>1. IsSeq(p \o <<w>>) /\ Len(p \o <<w>>) = Len(p) + Len(<<w>>)
    BY <1>3, <1>4, Join2
  <2> QED
    BY <1>3, <1>4, <1>5, <2>1
<1>7. PICK f : f = Filler(3) /\ IsSeq(f) /\ Len(f) = 3
  BY FillerIs
<1>8. Lies(data, 0, q \o f)
  BY <1>1, <1>5, <1>7 DEF LongHead
<1>9. Lies(data, 0, q) /\ Lies(data, 0 + Len(q), f)
  BY <1>6, <1>7, <1>8, LiesParts
<1>10. Lies(data, 0, p \o <<w>>)
  BY <1>5, <1>9
<1>11. Lies(data, 0, p) /\ Lies(data, 0 + Len(p), <<w>>)
  BY <1>3, <1>4, <1>10, LiesParts
<1>12. Lies(data, at, <<w>>)
  <2>1. 0 + Len(p) = at
    BY <1>3
  <2> QED
    BY <1>11, <2>1
<1>13. at + 1 <= Len(data) /\ data[at + 1] = w
  BY <1>12, LiesToken
<1>14. PICK l \in Nat : l = Len(data)
  BY SeqLen
<1>15. at + 4 <= l
  <2>1. (0 + Len(q)) + Len(f) <= l
    BY <1>9, <1>14 DEF Lies
  <2>4. Len(q) \in Nat /\ Len(f) \in Nat
    BY <1>6, <1>7, SeqLen
  <2>2. PICK x, y \in Nat : x = Len(q) /\ y = Len(f)
    BY <2>4
  <2>3. x = at + 1 /\ y = 3 /\ (0 + x) + y <= l
    BY <1>6, <1>7, <2>1, <2>2
  <2> QED
    BY <1>3, <2>3
<1>16. \A k \in 1 .. at : data[0 + k] = p[k]
  BY <1>3, <1>11 DEF Lies
<1>17. \A k \in 1 .. at : data[k] = p[k]
  <2> SUFFICES ASSUME NEW k \in 1 .. at PROVE data[k] = p[k]
    OBVIOUS
  <2>1. 0 + k = k
    BY <1>3
  <2> QED
    BY <1>16, <2>1
<1>18. Lies(data, 0, buf)
  <2>1. ASSUME NEW k \in 1 .. off PROVE data[0 + k] = buf[k]
    <3>1. k \in 1 .. at /\ 0 + k = k
      BY <1>3
    <3> QED
      BY <1>3, <1>17, <3>1
  <2>2. 0 + off <= Len(data)
    BY <1>3, <1>14, <1>15
  <2> QED
    BY <1>2, <2>1, <2>2 DEF Lies
<1>19. data[off + 1] \in {Zero, w}
  <2>1. CASE off = at
    BY <1>13, <2>1
  <2>2. CASE off # at
    <3>1. off + 1 \in off + 1 .. at /\ off + 1 \in 1 .. at
      BY <1>3, <2>2
    <3> QED
      BY <1>3, <1>17, <3>1
  <2> QED
    BY <2>1, <2>2
<1>20. off < l
  BY <1>3, <1>14, <1>15
<1> QED
  BY <1>2, <1>13, <1>14, <1>15, <1>18, <1>19, <1>20

\* decode_varlena on such a header.
Kind(w) == w[1]
Size(w) == w[2]
Unpacking(data, at, len) ==
    GotBytes(decompress_datum(data[at + 5][3], Slice(data, at + 8, len - 8), data[at + 5][2]), at + len)

Ready(data, buf, w, at, len, col) ==
    /\ IsSeq(data) /\ IsSeq(buf) /\ at = align_to(Len(buf), 4)
    /\ Lies(data, 0, LongHead(buf, w)) /\ col.len < 0
    /\ len \in Nat /\ Size(w) = len /\ at + len <= Len(data) /\ Kind(w) \in {"long", "packed"}

Opened(data, buf, w, at, len, col, toast) ==
    ReadValue(data, Len(buf), col, toast)
      = IF Kind(w) = "long" THEN Got([v |-> Slice(data, at + 4, len - 4)], at + len)
        ELSE Unpacking(data, at, len)

\* Decoding by it.
LEMMA HeadDecodes ==
    ASSUME NEW data, NEW buf, NEW w, NEW at, NEW len, NEW col, NEW toast, Ready(data, buf, w, at, len, col)
    PROVE  Opened(data, buf, w, at, len, col, toast)
<1>a. /\ IsSeq(data) /\ IsSeq(buf) /\ at = align_to(Len(buf), 4)
      /\ Lies(data, 0, LongHead(buf, w)) /\ col.len < 0
      /\ len \in Nat /\ Size(w) = len /\ at + len <= Len(data) /\ Kind(w) \in {"long", "packed"}
  BY DEF Ready
<1>0. w[1] = Kind(w) /\ w[2] = len
  BY <1>a DEF Kind, Size
<1>1. /\ data[at + 1] = w /\ at + 4 <= Len(data)
      /\ data[Len(buf) + 1] \in {Zero, w} /\ Len(buf) < Len(data)
  BY <1>a, HeadRead
<1>2. PICK off \in Nat : off = Len(buf)
  BY <1>a, SeqLen
<1>3. PICK l \in Nat : l = Len(data)
  BY <1>a, SeqLen
<1>4. PICK first : first = data[off + 1]
  OBVIOUS
<1>5. first[1] \notin {"external", "short"}
  <2>1. Zero[1] = "zero"
    BY DEF Zero
  <2> QED
    BY <1>a, <1>0, <1>1, <1>2, <1>4, <2>1
<1>6. at \in Nat /\ ~(off >= Len(data)) /\ ~(at + 4 > Len(data)) /\ ~(at + len > Len(data))
  <2>1. at \in Nat
    BY <1>a, HeadIs
  <2>2. off < l /\ at + 4 <= l /\ at + len <= l
    BY <1>a, <1>1, <1>2, <1>3
  <2>3. ~(off >= l) /\ ~(at + 4 > l) /\ ~(at + len > l)
    BY <1>a, <2>1, <2>2
  <2> QED
    BY <1>3, <2>1, <2>3
<1>7. ReadValue(data, off, col, toast) = decode_varlena(data, off, toast)
  BY <1>a DEF ReadValue
<1>8. decode_varlena(data, off, toast)
          = IF at + 4 > Len(data) \/ w[1] \notin {"long", "packed"} \/ at + len > Len(data) THEN Bad
            ELSE IF w[1] = "long" THEN Got([v |-> Slice(data, at + 4, len - 4)], at + len)
            ELSE Unpacking(data, at, len)
  BY <1>a, <1>0, <1>1, <1>2, <1>4, <1>5, <1>6 DEF decode_varlena, Unpacking
<1> QED
  BY <1>a, <1>0, <1>2, <1>6, <1>7, <1>8 DEF Opened

\* A long varlena.
LEMMA LongRead ==
    ASSUME NEW data, IsSeq(data), NEW buf, IsSeq(buf), NEW col, NEW a, IsAttr(col, a),
           NEW i, NEW toast, a.form = "long", NEW F, F = Fill(buf, col, i, a)
    PROVE  /\ ReadNext(data, buf, F)
           /\ Lies(data, 0, F) => ReadValue(data, Len(buf), col, toast) = Got([v |-> a.v], Len(F))
<1>1. PICK v : v = a.v
  OBVIOUS
<1>2. col.len < 0 /\ IsSeq(v)
  BY <1>1, AttrIs
<1>3. PICK n \in Nat : n = Len(v)
  BY <1>2, SeqLen
<1>4. PICK w : w = <<"long", n + 4>>
  OBVIOUS
<1>5. PICK at : at = align_to(Len(buf), 4)
  OBVIOUS
<1>6. PICK h : h = LongHead(buf, w)
  OBVIOUS
<1>7. IsSeq(h) /\ Len(h) = at + 4 /\ at \in Nat /\ Len(buf) \in Nat /\ Len(buf) <= at
  BY <1>5, <1>6, HeadIs
<1>8. F = h \o v
  <2>1. Fill(buf, col, i, a) = (((buf \o Filler(align_to(Len(buf), 4) - Len(buf)))
                                   \o << <<"long", Len(a.v) + 4>> >>) \o Filler(3)) \o a.v
    BY DEF Fill, External
  <2> QED
    BY <1>1, <1>3, <1>4, <1>6, <2>1 DEF LongHead, Padded
<1>9. IsSeq(F) /\ Len(F) = at + 4 + n
  <2>1. IsSeq(h \o v) /\ Len(h \o v) = Len(h) + Len(v)
    BY <1>2, <1>7, Join2
  <2> QED
    BY <1>3, <1>7, <1>8, <2>1
<1>10. ASSUME Lies(data, 0, F) PROVE Lies(data, 0, h) /\ Lies(data, at + 4, v)
  <2>1. Lies(data, 0, h \o v)
    BY <1>8, <1>10
  <2>2. Lies(data, 0, h) /\ Lies(data, 0 + Len(h), v)
    BY <1>2, <1>7, <2>1, LiesParts
  <2>3. 0 + Len(h) = at + 4
    BY <1>7
  <2> QED
    BY <2>2, <2>3
<1>11. ASSUME Lies(data, 0, F) PROVE Lies(data, 0, buf)
  BY <1>5, <1>6, <1>10, <1>11, HeadRead
<1>12. ASSUME Lies(data, 0, F) PROVE ReadValue(data, Len(buf), col, toast) = Got([v |-> a.v], Len(F))
  <2>1. Slice(data, at + 4, Len(v)) = v /\ (at + 4) + Len(v) <= Len(data)
    BY <1>10, <1>12, Sliced
  <2>2. w[1] = "long" /\ w[2] = n + 4
    BY <1>4
  <2>7. PICK len \in Nat : len = n + 4
    OBVIOUS
  <2>3. w[2] = len /\ len - 4 = n /\ at + len = at + 4 + n
    BY <1>7, <2>2, <2>7
  <2>4. at + len <= Len(data)
    BY <1>3, <1>7, <2>1, <2>3
  <2>5. Lies(data, 0, LongHead(buf, w))
    BY <1>6, <1>10, <1>12
  <2>8. Kind(w) = "long" /\ Size(w) = len
    BY <2>2, <2>3 DEF Kind, Size
  <2>6. ReadValue(data, Len(buf), col, toast)
          = IF Kind(w) = "long" THEN Got([v |-> Slice(data, at + 4, len - 4)], at + len)
            ELSE Unpacking(data, at, len)
    <3>1. Ready(data, buf, w, at, len, col)
      BY <1>2, <1>5, <2>4, <2>5, <2>8 DEF Ready
    <3>2. Opened(data, buf, w, at, len, col, toast)
      BY <3>1, HeadDecodes
    <3> QED
      BY <3>2 DEF Opened
  <2> QED
    BY <1>1, <1>3, <1>9, <2>1, <2>3, <2>6, <2>8
<1> QED
  BY <1>7, <1>9, <1>11, <1>12 DEF ReadNext

\* A compressed value behind such a header.
Behind(data, at, x, p, len) == Lies(data, at + 4, <<x>>) /\ Lies(data, at + 8, p) /\ len = Len(p) + 8

\* A compressed value inside it is inflated.
LEMMA PackedDecodes ==
    ASSUME NEW data, IsSeq(data), NEW buf, IsSeq(buf), NEW w, NEW at, at = align_to(Len(buf), 4),
           Lies(data, 0, LongHead(buf, w)), NEW col, col.len < 0, NEW toast,
           NEW len \in Nat, Kind(w) \in {"long", "packed"}, Kind(w) # "long", Size(w) = len,
           NEW x, NEW p, Behind(data, at, x, p, len)
    PROVE  ReadValue(data, Len(buf), col, toast) = GotBytes(decompress_datum(x[3], p, x[2]), at + len)
<1>1. at \in Nat
  BY HeadIs
<1>2. Slice(data, at + 8, Len(p)) = p /\ (at + 8) + Len(p) <= Len(data) /\ Len(p) \in Nat
  BY Sliced DEF Behind
<1>3. PICK l \in Nat : l = Len(data)
  BY SeqLen
<1>4. PICK n \in Nat : n = Len(p)
  BY <1>2
<1>5. len - 8 = n /\ at + len <= l
  BY <1>1, <1>2, <1>3, <1>4 DEF Behind
<1>8. at + len <= Len(data)
  BY <1>3, <1>5
<1>6. ReadValue(data, Len(buf), col, toast)
        = IF Kind(w) = "long" THEN Got([v |-> Slice(data, at + 4, len - 4)], at + len)
          ELSE Unpacking(data, at, len)
  <2>1. Ready(data, buf, w, at, len, col)
    BY <1>8 DEF Ready
  <2>2. Opened(data, buf, w, at, len, col, toast)
    BY <2>1, HeadDecodes
  <2> QED
    BY <2>2 DEF Opened
<1>7. data[at + 5] = x
  <2>1. data[(at + 4) + 1] = x
    BY LiesToken DEF Behind
  <2>2. (at + 4) + 1 = at + 5
    BY <1>1
  <2> QED
    BY <2>1, <2>2
<1> QED
  BY <1>2, <1>4, <1>5, <1>6, <1>7 DEF Unpacking

\* A compressed value.
LEMMA PackedRead ==
    ASSUME NEW data, IsSeq(data), NEW buf, IsSeq(buf), NEW col, NEW a, IsAttr(col, a),
           NEW i, NEW toast, a.form \in {"pglz", "lz4"}, NEW F, F = Fill(buf, col, i, a)
    PROVE  /\ ReadNext(data, buf, F)
           /\ Lies(data, 0, F) => ReadValue(data, Len(buf), col, toast) = Got([v |-> a.v], Len(F))
<1>1. a.form \in Squeezed /\ a.form \notin {"null", "fixed"}
  BY DEF Squeezed
<1>2. PICK p : p = Packed(a)
  OBVIOUS
<1>3. PICK raw, m : raw = Len(a.v) /\ m = Method(a.form)
  OBVIOUS
<1>4. col.len < 0 /\ a.v # Error /\ IsSeq(p) /\ decompress_datum(m, p, raw) = a.v
  BY <1>1, <1>2, <1>3, AttrIs, PackedIs
<1>5. PICK n \in Nat : n = Len(p)
  BY <1>4, SeqLen
<1>6. PICK w : w = <<"packed", n + 8>>
  OBVIOUS
<1>7. PICK x : x = <<"tcinfo", raw, m>>
  OBVIOUS
<1>8. PICK at : at = align_to(Len(buf), 4)
  OBVIOUS
<1>9. PICK h : h = LongHead(buf, w)
  OBVIOUS
<1>10. IsSeq(h) /\ Len(h) = at + 4 /\ at \in Nat /\ Len(buf) \in Nat /\ Len(buf) <= at
  BY <1>8, <1>9, HeadIs
<1>11. PICK f : f = Filler(3) /\ IsSeq(f) /\ Len(f) = 3
  BY FillerIs
<1>12. PICK y : y = h \o <<x>>
  OBVIOUS
<1>13. PICK z : z = y \o f
  OBVIOUS
<1>14. F = z \o p
  <2>1. Fill(buf, col, i, a) = (((((buf \o Filler(align_to(Len(buf), 4) - Len(buf)))
                                   \o << <<"packed", Len(Packed(a)) + 8>> >>) \o Filler(3))
                                 \o << <<"tcinfo", Len(a.v), Method(a.form)>> >>) \o Filler(3)) \o Packed(a)
    BY DEF Fill, External
  <2> QED
    BY <1>2, <1>3, <1>5, <1>6, <1>7, <1>9, <1>11, <1>12, <1>13, <2>1 DEF LongHead, Padded
<1>15. IsSeq(<<x>>) /\ Len(<<x>>) = 1
  BY ShortSeqs
<1>16. IsSeq(y) /\ Len(y) = at + 5
  <2>1. IsSeq(h \o <<x>>) /\ Len(h \o <<x>>) = Len(h) + Len(<<x>>)
    BY <1>10, <1>15, Join2
  <2> QED
    BY <1>10, <1>12, <1>15, <2>1
<1>17. IsSeq(z) /\ Len(z) = at + 8
  <2>1. IsSeq(y \o f) /\ Len(y \o f) = Len(y) + Len(f)
    BY <1>11, <1>16, Join2
  <2>5. Len(y) \in Nat /\ Len(f) \in Nat
    BY <1>11, <1>16, SeqLen
  <2>2. PICK b, c \in Nat : b = Len(y) /\ c = Len(f)
    BY <2>5
  <2>3. b = at + 5 /\ c = 3
    BY <1>11, <1>16, <2>2
  <2>4. b + c = at + 8
    BY <1>10, <2>3
  <2> QED
    BY <1>13, <2>1, <2>2, <2>4
<1>18. IsSeq(F) /\ Len(F) = at + 8 + n
  <2>1. IsSeq(z \o p) /\ Len(z \o p) = Len(z) + Len(p)
    BY <1>4, <1>17, Join2
  <2> QED
    BY <1>5, <1>14, <1>17, <2>1
<1>19. ASSUME Lies(data, 0, F)
       PROVE  Lies(data, 0, h) /\ Lies(data, at + 4, <<x>>) /\ Lies(data, at + 8, p)
  <2>1. Lies(data, 0, z \o p)
    BY <1>14, <1>19
  <2>2. Lies(data, 0, z) /\ Lies(data, 0 + Len(z), p)
    BY <1>4, <1>17, <2>1, LiesParts
  <2>3. Lies(data, 0, y \o f)
    BY <1>13, <2>2
  <2>4. Lies(data, 0, y)
    BY <1>11, <1>16, <2>3, LiesParts
  <2>5. Lies(data, 0, h \o <<x>>)
    BY <1>12, <2>4
  <2>6. Lies(data, 0, h) /\ Lies(data, 0 + Len(h), <<x>>)
    BY <1>10, <1>15, <2>5, LiesParts
  <2>7. 0 + Len(h) = at + 4 /\ 0 + Len(z) = at + 8
    BY <1>10, <1>17
  <2> QED
    BY <2>2, <2>6, <2>7
<1>20. ASSUME Lies(data, 0, F) PROVE Lies(data, 0, buf)
  BY <1>8, <1>9, <1>19, <1>20, HeadRead
<1>21. ASSUME Lies(data, 0, F) PROVE ReadValue(data, Len(buf), col, toast) = Got([v |-> a.v], Len(F))
  <2>1. Lies(data, 0, LongHead(buf, w)) /\ Lies(data, at + 4, <<x>>) /\ Lies(data, at + 8, p)
    BY <1>9, <1>19, <1>21
  <2>4. PICK len \in Nat : len = n + 8
    OBVIOUS
  <2>2. /\ x[2] = raw /\ x[3] = m
        /\ Kind(w) \in {"long", "packed"} /\ Kind(w) # "long" /\ Size(w) = len
    BY <1>6, <1>7, <2>4 DEF Kind, Size
  <2>5. Behind(data, at, x, p, len)
    BY <1>5, <2>1, <2>4 DEF Behind
  <2>3. ReadValue(data, Len(buf), col, toast) = GotBytes(decompress_datum(x[3], p, x[2]), at + len)
    BY <1>4, <1>8, <2>1, <2>2, <2>5, PackedDecodes
  <2> QED
    <3>1. at + len = at + 8 + n
      BY <1>10, <2>4
    <3> QED
      BY <1>4, <1>18, <2>2, <2>3, <3>1 DEF GotBytes
<1> QED
  BY <1>10, <1>18, <1>20, <1>21 DEF ReadNext
-----------------------------------------------------------------------------
\* Every form.

\* A cache with the chunks of the given out-of-line values.
Serves(toast, ids, all) ==
    all \in BOOLEAN /\ DOMAIN toast = ids /\ \A id \in ids : toast[id] = Cached(ids, all)[id]

\* What decoding a value gives.
Outcome(i, a, ids, all, off) ==
    IF a.form \notin External THEN Got([v |-> a.v], off)
    ELSE IF ValueId(i, a) \notin ids THEN Got(Unresolved, off)
    ELSE IF all THEN Got([v |-> a.v], off)
    ELSE Bad

\* A TOAST pointer, with or without its chunks.
LEMMA PointerOutcome ==
    ASSUME NEW data, IsSeq(data), NEW buf, IsSeq(buf), NEW col, NEW a, IsAttr(col, a), NEW i, NEW toast,
           NEW ids, NEW all, Serves(toast, ids, all), a.form \in External, NEW F, F = Fill(buf, col, i, a)
    PROVE  /\ ReadNext(data, buf, F)
           /\ Lies(data, 0, F) => ReadValue(data, Len(buf), col, toast) = Outcome(i, a, ids, all, Len(F))
<1>1. PICK d : d = ReadValue(data, Len(buf), col, toast)
  OBVIOUS
<1>2. PICK r : r = resolve(toast[ValueId(i, a)], Len(a.v), Len(Stored(a)), Method(a.form))
  OBVIOUS
<1>3. PICK id : id = ValueId(i, a)
  OBVIOUS
<1>4. /\ ReadNext(data, buf, F)
      /\ Lies(data, 0, F) => d = IF id \notin DOMAIN toast THEN Got(Unresolved, Len(F)) ELSE GotBytes(r, Len(F))
  <2>1. /\ ReadNext(data, buf, F)
        /\ Lies(data, 0, F) =>
             ReadValue(data, Len(buf), col, toast)
               = IF ValueId(i, a) \notin DOMAIN toast THEN Got(Unresolved, Len(F))
                 ELSE GotBytes(resolve(toast[ValueId(i, a)], Len(a.v), Len(Stored(a)), Method(a.form)), Len(F))
    BY PointerRead
  <2> QED
    BY <1>1, <1>2, <1>3, <2>1
<1>5. all \in BOOLEAN /\ DOMAIN toast = ids /\ (id \in ids => toast[id] = Cached(ids, all)[id])
  BY DEF Serves
<1>6. id \in ids => r = IF all THEN a.v ELSE Error
  <2> SUFFICES ASSUME id \in ids PROVE r = IF all THEN a.v ELSE Error
    OBVIOUS
  <2>1. /\ resolve(Cached(ids, TRUE)[ValueId(i, a)], Len(a.v), Len(Stored(a)), Method(a.form)) = a.v
        /\ resolve(Cached(ids, FALSE)[ValueId(i, a)], Len(a.v), Len(Stored(a)), Method(a.form)) = Error
    BY <1>3, Resolved
  <2>2. r = resolve(Cached(ids, all)[ValueId(i, a)], Len(a.v), Len(Stored(a)), Method(a.form))
    BY <1>2, <1>3, <1>5
  <2>3. CASE all = TRUE
    BY <2>1, <2>2, <2>3
  <2>4. CASE all = FALSE
    BY <2>1, <2>2, <2>4
  <2> QED
    BY <1>5, <2>3, <2>4
<1>7. a.v # Error
  BY AttrIs
<1>8. ASSUME Lies(data, 0, F) PROVE d = Outcome(i, a, ids, all, Len(F))
  <2>1. d = IF id \notin ids THEN Got(Unresolved, Len(F)) ELSE GotBytes(r, Len(F))
    BY <1>4, <1>5, <1>8
  <2>2. CASE id \notin ids
    BY <1>3, <2>1, <2>2 DEF Outcome
  <2>3. CASE id \in ids
    BY <1>3, <1>6, <1>7, <2>1, <2>3 DEF Outcome, GotBytes
  <2> QED
    BY <2>2, <2>3
<1> QED
  BY <1>1, <1>4, <1>8

\* A value is decoded where it was laid out.
LEMMA FillRead ==
    ASSUME NEW data, IsSeq(data), NEW buf, IsSeq(buf), NEW col, IsColumn(col), NEW a, IsAttr(col, a), NEW i,
           NEW toast, NEW ids, NEW all, Serves(toast, ids, all), a.form # "null", NEW F, F = Fill(buf, col, i, a)
    PROVE  /\ ReadNext(data, buf, F)
           /\ Lies(data, 0, F) => ReadValue(data, Len(buf), col, toast) = Outcome(i, a, ids, all, Len(F))
           /\ col.len >= 0 => Len(F) = align_to(Len(buf), col.align) + col.len
<1>1. /\ a.form \in {"fixed", "short", "long", "pglz", "lz4"} \cup External
      /\ a.form # "fixed" => col.len < 0
  BY AttrIs DEF Squeezed, External
<1>2. CASE a.form = "fixed"
  <2>1. /\ ReadNext(data, buf, F) /\ Len(F) = align_to(Len(buf), col.align) + col.len
        /\ Lies(data, 0, F) => ReadValue(data, Len(buf), col, toast) = Got([v |-> a.v], Len(F))
    BY <1>2, FixedRead
  <2> QED
    BY <1>2, <2>1 DEF Outcome, External
<1>9. ~(a.form # "fixed" /\ col.len >= 0)
  BY <1>1 DEF IsColumn
<1>3. CASE a.form = "short"
  <2>1. /\ ReadNext(data, buf, F)
        /\ Lies(data, 0, F) => ReadValue(data, Len(buf), col, toast) = Got([v |-> a.v], Len(F))
    BY <1>3, ShortRead
  <2> QED
    BY <1>3, <1>9, <2>1 DEF Outcome, External
<1>4. CASE a.form = "long"
  <2>1. /\ ReadNext(data, buf, F)
        /\ Lies(data, 0, F) => ReadValue(data, Len(buf), col, toast) = Got([v |-> a.v], Len(F))
    BY <1>4, LongRead
  <2> QED
    BY <1>4, <1>9, <2>1 DEF Outcome, External
<1>5. CASE a.form \in {"pglz", "lz4"}
  <2>1. /\ ReadNext(data, buf, F)
        /\ Lies(data, 0, F) => ReadValue(data, Len(buf), col, toast) = Got([v |-> a.v], Len(F))
    BY <1>5, PackedRead
  <2> QED
    BY <1>5, <1>9, <2>1 DEF Outcome, External
<1>6. CASE a.form \in External
  <2>1. /\ ReadNext(data, buf, F)
        /\ Lies(data, 0, F) => ReadValue(data, Len(buf), col, toast) = Outcome(i, a, ids, all, Len(F))
    BY <1>6, PointerOutcome
  <2>2. a.form # "fixed"
    BY <1>6 DEF External
  <2> QED
    BY <1>9, <2>1, <2>2
<1> QED
  BY <1>1, <1>2, <1>3, <1>4, <1>5, <1>6

\* A NULL takes no room.
LEMMA NullFill ==
    ASSUME NEW buf, NEW col, NEW i, NEW a, a.form = "null"
    PROVE  Fill(buf, col, i, a) = buf
BY DEF Fill, External

-----------------------------------------------------------------------------
\* The attribute area.

IsTable(cols) == IsSeq(cols) /\ \A i \in 1 .. Len(cols) : IsColumn(cols[i])
IsTuple(cols, t) == IsSeq(t) /\ Len(t) <= Len(cols) /\ \A i \in 1 .. Len(t) : IsAttr(cols[i], t[i])

Area(A, cols, t) ==
    /\ A[0] = <<>>
    /\ \A k \in 0 .. Len(t) : k + 1 <= Len(t) => A[k + 1] = Fill(A[k], cols[k + 1], k + 1, t[k + 1])

\* Column k + 1 of a tuple.
LEMMA ColumnAt ==
    ASSUME NEW cols, IsTable(cols), NEW t, IsTuple(cols, t), NEW k \in Nat, k + 1 <= Len(t)
    PROVE  /\ IsColumn(cols[k + 1]) /\ IsAttr(cols[k + 1], t[k + 1])
           /\ k \in 0 .. Len(t) /\ k + 1 \in 0 .. Len(t) /\ k + 1 \in 1 .. Len(t)
<1>1. Len(t) \in Nat /\ Len(cols) \in Nat /\ Len(t) <= Len(cols)
  BY SeqLen DEF IsTable, IsTuple
<1>2. k + 1 \in 1 .. Len(cols) /\ k + 1 \in 1 .. Len(t) /\ k \in 0 .. Len(t) /\ k + 1 \in 0 .. Len(t)
  BY <1>1
<1> QED
  BY <1>2 DEF IsTable, IsTuple

\* The attribute area grows by a column.
LEMMA AreaStep ==
    ASSUME NEW cols, IsTable(cols), NEW t, IsTuple(cols, t), NEW A, Area(A, cols, t),
           NEW k \in Nat, k + 1 <= Len(t), NEW data, IsSeq(data), IsSeq(A[k])
    PROVE  ReadNext(data, A[k], A[k + 1])
<1>1. /\ IsColumn(cols[k + 1]) /\ IsAttr(cols[k + 1], t[k + 1]) /\ k \in 0 .. Len(t)
  BY ColumnAt
<1>2. A[k + 1] = Fill(A[k], cols[k + 1], k + 1, t[k + 1])
  BY <1>1 DEF Area
<1>3. Len(A[k]) \in Nat
  BY SeqLen
<1>4. CASE t[k + 1].form = "null"
  <2>1. A[k + 1] = A[k]
    BY <1>2, <1>4, NullFill
  <2> QED
    BY <1>3, <2>1 DEF ReadNext
<1>5. CASE t[k + 1].form # "null"
  <2>1. DOMAIN <<>> = {}
    OBVIOUS
  <2>2. Serves(<<>>, {}, TRUE)
    BY <2>1 DEF Serves
  <2>3. PICK b, c, x, F : b = A[k] /\ c = cols[k + 1] /\ x = t[k + 1] /\ F = A[k + 1]
    OBVIOUS
  <2>4. IsSeq(b) /\ IsColumn(c) /\ IsAttr(c, x) /\ x.form # "null" /\ F = Fill(b, c, k + 1, x)
    BY <1>1, <1>2, <1>5, <2>3
  <2>5. ReadNext(data, b, F)
    BY <2>2, <2>4, FillRead
  <2> QED
    BY <2>3, <2>5
<1> QED
  BY <1>4, <1>5

\* Every prefix of the columns is laid out at the front of it.
LEMMA AreaSeqs ==
    ASSUME NEW cols, IsTable(cols), NEW t, IsTuple(cols, t), NEW A, Area(A, cols, t)
    PROVE  \A k \in 0 .. Len(t) : IsSeq(A[k])
<1>1. Len(t) \in Nat
  BY SeqLen DEF IsTuple
<1> DEFINE S == {m \in Nat : m <= Len(t) => IsSeq(A[m])}
<1>2. 0 \in S
  BY ShortSeqs DEF Area
<1>3. ASSUME NEW m \in Nat, m \in S PROVE m + 1 \in S
  <2> SUFFICES ASSUME m + 1 <= Len(t) PROVE IsSeq(A[m + 1])
    OBVIOUS
  <2>1. IsSeq(A[m])
    BY <1>1, <1>3
  <2>2. ReadNext(A[m], A[m], A[m + 1])
    BY <2>1, AreaStep
  <2> QED
    BY <2>2 DEF ReadNext
<1> HIDE DEF S
<1>4. \A m \in Nat : m \in S
  BY <1>2, <1>3, Inductive
<1> QED
  BY <1>1, <1>4 DEF S

\* A sequence stands in itself.
LEMMA LiesWhole ==
    ASSUME NEW s, IsSeq(s)
    PROVE  Lies(s, 0, s)
<1>1. Len(s) \in Nat
  BY SeqLen
<1> QED
  BY <1>1 DEF Lies

\* What comes first stays in front.
LEMMA AreaLies ==
    ASSUME NEW cols, IsTable(cols), NEW t, IsTuple(cols, t), NEW A, Area(A, cols, t), NEW n, n = Len(t)
    PROVE  \A k \in 0 .. n : IsSeq(A[k]) /\ Lies(A[n], 0, A[k])
<1>1. n \in Nat
  BY SeqLen DEF IsTuple
<1>2. \A k \in 0 .. n : IsSeq(A[k])
  BY AreaSeqs
<1>3. PICK data : data = A[n] /\ IsSeq(data)
  BY <1>1, <1>2
<1> DEFINE S == {m \in Nat : m <= n => Lies(data, 0, A[n - m])}
<1>4. 0 \in S
  <2>1. n - 0 = n
    BY <1>1
  <2> QED
    BY <1>3, <2>1, LiesWhole
<1>5. ASSUME NEW m \in Nat, m \in S PROVE m + 1 \in S
  <2> SUFFICES ASSUME m + 1 <= n PROVE Lies(data, 0, A[n - (m + 1)])
    OBVIOUS
  <2>1. PICK k \in Nat : k = n - (m + 1)
    BY <1>1
  <2>2. k + 1 = n - m /\ k + 1 <= n /\ k \in 0 .. n /\ m <= n
    BY <1>1, <2>1
  <2>3. Lies(data, 0, A[k + 1])
    BY <1>5, <2>2
  <2>4. ReadNext(data, A[k], A[k + 1])
    BY <1>2, <1>3, <2>2, AreaStep
  <2> QED
    BY <2>1, <2>3, <2>4 DEF ReadNext
<1> HIDE DEF S
<1>6. \A m \in Nat : m \in S
  BY <1>4, <1>5, Inductive
<1>7. ASSUME NEW k \in 0 .. n PROVE Lies(data, 0, A[k])
  <2>4. k \in Nat /\ k <= n
    BY <1>1
  <2>5. n - k \in Nat
    BY <1>1, <2>4
  <2>1. PICK m \in Nat : m = n - k
    BY <2>5
  <2>2. m <= n /\ n - m = k
    BY <1>1, <2>1, <2>4
  <2>3. m \in S
    BY <1>6
  <2> QED
    BY <2>2, <2>3 DEF S
<1> QED
  BY <1>2, <1>3, <1>7

-----------------------------------------------------------------------------
\* One step of the decoder.

\* What may stand in the previous row for a value whose chunks are not there.
Backed(old, r, col, a) == Len(r) < Len(old) => old[Len(r) + 1] = Shown(col, a)
Missing(col, i, a, ids) == col.live /\ a.form \in External /\ ValueId(i, a) \notin ids

WalkState(row, off) == [row |-> row, off |-> off, bad |-> FALSE]
RowStep(r, col, value) == IF col.live THEN Append(r, value) ELSE r

\* What decode_value makes of the outcome of reading a live column.
Seen(col, i, a, ids, all, off) ==
    IF a.form \notin External THEN Got(Shown(col, a), off)
    ELSE IF ValueId(i, a) \notin ids THEN Got(Unresolved, off)
    ELSE IF all THEN Got(Shown(col, a), off)
    ELSE Bad

Taken(col, i, a, ids, all, off) ==
    IF col.live THEN Seen(col, i, a, ids, all, off) ELSE Outcome(i, a, ids, all, off)

\* The conversion of a stored value does not fail.
LEMMA ConvertedIs ==
    ASSUME NEW col, NEW a, IsAttr(col, a), a.form # "null", NEW i, NEW ids, NEW all, NEW off
    PROVE  Converted(Outcome(i, a, ids, all, off), col) = Seen(col, i, a, ids, all, off)
<1>1. PICK w : w = to_value(col, a.v)
  OBVIOUS
<1>2. w # Error
  BY <1>1 DEF IsAttr
<1>3. Shown(col, a) = [v |-> w]
  BY <1>1 DEF Shown
<1>4. Converted(Got([v |-> a.v], off), col) = Got(Shown(col, a), off)
  <2>1. PICK d : d = Got([v |-> a.v], off)
    OBVIOUS
  <2>2. d # Bad /\ d.v = [v |-> a.v] /\ d.off = off /\ d.v # Unresolved /\ d.v.v = a.v
    BY <2>1 DEF Got, Bad, Unresolved
  <2>3. Converted(d, col) = GotBytes(w, off)
    BY <1>1, <2>2 DEF Converted
  <2> QED
    BY <1>2, <1>3, <2>1, <2>3 DEF GotBytes
<1>5. Converted(Bad, col) = Bad
  BY DEF Converted
<1>6. Converted(Got(Unresolved, off), col) = Got(Unresolved, off)
  <2>1. Got(Unresolved, off).v = Unresolved
    BY DEF Got
  <2> QED
    BY <2>1 DEF Converted
<1> QED
  BY <1>4, <1>5, <1>6 DEF Outcome, Seen

\* A value is not NULL, and no pointer.
LEMMA NotNull == \A col, a : Shown(col, a) # Null /\ Shown(col, a) # Unresolved
BY DEF Shown, Null, Unresolved

\* A decoded value is taken.
LEMMA TakeGot ==
    ASSUME NEW r, NEW off, NEW col, col.live \in BOOLEAN, NEW x, NEW to, NEW old, x # Unresolved
    PROVE  TakeValue(WalkState(r, off), col, Got(x, to), old) = WalkState(RowStep(r, col, x), to)
<1>1. Got(x, to) # Bad /\ Got(x, to).v = x /\ Got(x, to).off = to
  BY DEF Got, Bad
<1>2. CASE col.live
  BY <1>1, <1>2 DEF TakeValue, WalkState, RowStep
<1>3. CASE ~col.live
  BY <1>1, <1>3 DEF TakeValue, WalkState, RowStep
<1> QED
  BY <1>2, <1>3

FromOld(st, r, col, a, to, old) ==
    /\ st.bad = TRUE \/ st = WalkState(RowStep(r, col, Shown(col, a)), to)
    /\ (col.live => Len(r) < Len(old)) => st = WalkState(RowStep(r, col, Shown(col, a)), to)

\* A pointer without chunks takes the old value.
LEMMA TakeUnresolved ==
    ASSUME NEW r, NEW off, NEW col, col.live \in BOOLEAN, NEW a, NEW to, NEW old, col.live => Backed(old, r, col, a),
           NEW st, st = TakeValue(WalkState(r, off), col, Got(Unresolved, to), old)
    PROVE  FromOld(st, r, col, a, to, old)
<1> USE DEF FromOld
<1>1. Got(Unresolved, to) # Bad /\ Got(Unresolved, to).v = Unresolved /\ Got(Unresolved, to).off = to
  BY DEF Got, Bad
<1>2. CASE ~col.live
  BY <1>1, <1>2 DEF TakeValue, WalkState, RowStep
<1>3. CASE col.live /\ Len(r) < Len(old)
  <2>1. old[Len(r) + 1] = Shown(col, a) /\ old[Len(r) + 1] # Null
    BY <1>3, NotNull DEF Backed
  <2> QED
    BY <1>1, <1>3, <2>1 DEF TakeValue, WalkState, RowStep
<1>4. CASE col.live /\ ~(Len(r) < Len(old))
  BY <1>1, <1>4 DEF TakeValue, WalkState, RowStep
<1> QED
  BY <1>2, <1>3, <1>4

\* A value that cannot be decoded ends it.
LEMMA TakeBad ==
    ASSUME NEW r, NEW off, NEW col, NEW old
    PROVE  TakeValue(WalkState(r, off), col, Bad, old).bad = TRUE
BY DEF TakeValue, WalkState

Steps(st, r, col, i, a, ids, all, value, to, old) ==
    /\ st.bad = TRUE \/ st = WalkState(RowStep(r, col, value), to)
    /\ all /\ (Missing(col, i, a, ids) => Len(r) < Len(old)) => st = WalkState(RowStep(r, col, value), to)

Taking(st, r, off, col, i, a, ids, all, to, old) ==
    /\ col.live \in BOOLEAN /\ all \in BOOLEAN
    /\ Missing(col, i, a, ids) => Backed(old, r, col, a)
    /\ st = TakeValue(WalkState(r, off), col, Taken(col, i, a, ids, all, to), old)

\* Each outcome in turn.
LEMMA TakeOutcome ==
    ASSUME NEW r, NEW off, NEW col, NEW i, NEW a, NEW ids, NEW all, NEW to, NEW old, NEW st,
           Taking(st, r, off, col, i, a, ids, all, to, old)
    PROVE  Steps(st, r, col, i, a, ids, all, Shown(col, a), to, old)
<1> USE DEF Steps, Taking
<1>1. Shown(col, a) # Unresolved /\ [v |-> a.v] # Unresolved
  BY NotNull DEF Unresolved
<1>2. CASE a.form \in External /\ ValueId(i, a) \notin ids
  <2>1. Taken(col, i, a, ids, all, to) = Got(Unresolved, to)
    BY <1>2 DEF Taken, Seen, Outcome
  <2>2. col.live <=> Missing(col, i, a, ids)
    BY <1>2 DEF Missing
  <2>3. col.live => Backed(old, r, col, a)
    BY <2>2
  <2>4. st = TakeValue(WalkState(r, off), col, Got(Unresolved, to), old)
    BY <2>1
  <2>5. FromOld(st, r, col, a, to, old)
    BY <2>3, <2>4, TakeUnresolved
  <2> QED
    BY <2>2, <2>5 DEF FromOld
<1>3. CASE a.form \in External /\ ValueId(i, a) \in ids /\ ~all
  <2>1. Taken(col, i, a, ids, all, to) = Bad
    BY <1>3 DEF Taken, Seen, Outcome
  <2> QED
    BY <1>3, <2>1, TakeBad
<1>4. CASE a.form \notin External \/ (ValueId(i, a) \in ids /\ all)
  <2>1. CASE col.live
    <3>1. Taken(col, i, a, ids, all, to) = Got(Shown(col, a), to)
      BY <1>4, <2>1 DEF Taken, Seen
    <3> QED
      BY <1>1, <3>1, TakeGot
  <2>2. CASE ~col.live
    <3>1. Taken(col, i, a, ids, all, to) = Got([v |-> a.v], to)
      BY <1>4, <2>2 DEF Taken, Outcome
    <3>2. st = WalkState(RowStep(r, col, [v |-> a.v]), to)
      BY <1>1, <3>1, TakeGot
    <3>3. RowStep(r, col, [v |-> a.v]) = RowStep(r, col, Shown(col, a))
      BY <2>2 DEF RowStep
    <3> QED
      BY <3>2, <3>3
  <2> QED
    BY <2>1, <2>2
<1> QED
  BY <1>2, <1>3, <1>4

-----------------------------------------------------------------------------
\* decode_tuple_payload, column by column.

ReadsTuple(cols, t, A, tuple, nulls, data, toast, ids, all) ==
    /\ IsTable(cols) /\ IsTuple(cols, t) /\ Area(A, cols, t) /\ data = A[Len(t)]
    /\ Serves(toast, ids, all)
    /\ \A i \in 1 .. Len(t) : (nulls /\ IsNull(tuple, i)) <=> t[i].form = "null"

\* The column is there.
LEMMA ColumnStep ==
    ASSUME NEW cols, NEW t, NEW A, NEW tuple, NEW nulls, NEW data, NEW toast, NEW ids, NEW all,
           ReadsTuple(cols, t, A, tuple, nulls, data, toast, ids, all), NEW old, NEW r,
           NEW k \in Nat, k + 1 <= Len(t), NEW col, col = cols[k + 1], NEW a, a = t[k + 1],
           Missing(col, k + 1, a, ids) => Backed(old, r, col, a), NEW st, NEW off, off = Len(A[k]),
           st = NextColumn(WalkState(r, off), k + 1, tuple, Len(t), nulls, data, cols, toast, old)
    PROVE  Steps(st, r, col, k + 1, a, ids, all, ColumnValue(cols, t, k + 1), Len(A[k + 1]), old)
<1>1. /\ IsColumn(col) /\ IsAttr(col, a) /\ k \in 0 .. Len(t) /\ k + 1 \in 0 .. Len(t) /\ k + 1 \in 1 .. Len(t)
  BY ColumnAt DEF ReadsTuple
<1>2. Len(t) \in Nat
  BY SeqLen DEF ReadsTuple, IsTuple
<1>3. PICK buf, F : buf = A[k] /\ F = A[k + 1]
  OBVIOUS
<1>4. IsSeq(buf) /\ IsSeq(data) /\ Lies(data, 0, F)
  <2>1. \A i \in 0 .. Len(t) : IsSeq(A[i]) /\ Lies(A[Len(t)], 0, A[i])
    BY AreaLies DEF ReadsTuple
  <2>2. Len(t) \in 0 .. Len(t)
    BY <1>2
  <2> QED
    BY <1>1, <1>3, <2>1, <2>2 DEF ReadsTuple
<1>5. F = Fill(buf, col, k + 1, a)
  BY <1>1, <1>3 DEF ReadsTuple, Area
<1>6. ~(k + 1 > Len(t))
  BY <1>2
<1>7. (nulls /\ IsNull(tuple, k + 1)) <=> a.form = "null"
  BY <1>1 DEF ReadsTuple
<1>8. WalkState(r, off).bad = FALSE /\ WalkState(r, off).off = off
  BY DEF WalkState
<1>9. st = DecodeColumn(WalkState(r, off), col, nulls /\ IsNull(tuple, k + 1), data, toast, old)
  BY <1>6, <1>8 DEF NextColumn
<1>10. col.live \in BOOLEAN
  BY <1>1 DEF IsColumn
<1>11. CASE a.form = "null"
  <2>1. F = buf
    BY <1>5, <1>11, NullFill
  <2>2. ColumnValue(cols, t, k + 1) = Null
    BY <1>6, <1>11 DEF ColumnValue
  <2>3. st = [WalkState(r, off) EXCEPT !.row = IF col.live THEN Append(@, Null) ELSE @]
    BY <1>7, <1>9, <1>11 DEF DecodeColumn
  <2>4. st = WalkState(RowStep(r, col, Null), off)
    BY <2>3 DEF WalkState, RowStep
  <2> QED
    BY <1>3, <2>1, <2>2, <2>4 DEF Steps
<1>12. CASE a.form # "null"
  <2>1. ColumnValue(cols, t, k + 1) = Shown(col, a)
    BY <1>6, <1>12 DEF ColumnValue
  <2>2. Serves(toast, ids, all)
    BY DEF ReadsTuple
  <2>3. /\ ReadValue(data, Len(buf), col, toast) = Outcome(k + 1, a, ids, all, Len(F))
        /\ col.len >= 0 => Len(F) = align_to(Len(buf), col.align) + col.len
    BY <1>1, <1>4, <1>5, <1>12, <2>2, FillRead
  <2>4. CASE ~col.live /\ col.len >= 0
    <3>1. st = [WalkState(r, off) EXCEPT !.off = align_to(@, col.align) + col.len]
      BY <1>7, <1>9, <1>12, <2>4 DEF DecodeColumn
    <3>2. st = WalkState(r, align_to(off, col.align) + col.len)
      BY <3>1 DEF WalkState
    <3>3. RowStep(r, col, ColumnValue(cols, t, k + 1)) = r
      BY <2>4 DEF RowStep
    <3> QED
      BY <1>3, <2>3, <2>4, <3>2, <3>3 DEF Steps
  <2>5. CASE ~(~col.live /\ col.len >= 0)
    <3>1. st = TakeValue(WalkState(r, off), col, IF col.live THEN decode_value(data, off, col, toast)
                                                 ELSE ReadValue(data, off, col, toast), old)
      BY <1>7, <1>8, <1>9, <1>12, <2>5 DEF DecodeColumn
    <3>2. PICK to : to = Len(F)
      OBVIOUS
    <3>7. ReadValue(data, off, col, toast) = Outcome(k + 1, a, ids, all, to)
      BY <1>3, <2>3, <3>2
    <3>8. decode_value(data, off, col, toast) = Seen(col, k + 1, a, ids, all, to)
      BY <1>1, <1>12, <3>7, ConvertedIs DEF decode_value
    <3>3. st = TakeValue(WalkState(r, off), col, Taken(col, k + 1, a, ids, all, to), old)
      BY <3>1, <3>7, <3>8 DEF Taken
    <3>4. all \in BOOLEAN
      BY <2>2 DEF Serves
    <3>5. Taking(st, r, off, col, k + 1, a, ids, all, to, old)
      BY <1>10, <3>3, <3>4 DEF Taking
    <3>6. Steps(st, r, col, k + 1, a, ids, all, Shown(col, a), to, old)
      BY <3>5, TakeOutcome
    <3> QED
      BY <1>3, <2>1, <3>2, <3>6
  <2> QED
    BY <2>4, <2>5
<1> QED
  BY <1>11, <1>12

\* The column was added later.
LEMMA ColumnMissing ==
    ASSUME NEW cols, NEW t, NEW tuple, NEW nulls, NEW data, NEW toast, NEW old, NEW r, NEW off,
           NEW k \in Nat, k + 1 > Len(t), NEW col, col = cols[k + 1], NEW st,
           st = NextColumn(WalkState(r, off), k + 1, tuple, Len(t), nulls, data, cols, toast, old)
    PROVE  st = WalkState(RowStep(r, col, ColumnValue(cols, t, k + 1)), off)
<1>1. ColumnValue(cols, t, k + 1) = Null
  BY DEF ColumnValue
<1>2. WalkState(r, off).bad = FALSE
  BY DEF WalkState
<1>3. st = [WalkState(r, off) EXCEPT !.row = IF col.live THEN Append(@, Null) ELSE @]
  BY <1>2 DEF NextColumn
<1> QED
  BY <1>1, <1>3 DEF WalkState, RowStep

\* The columns of the tuple among the first k.
Reach(t, k) == IF k <= Len(t) THEN k ELSE Len(t)

Rowing(R, cols, t) ==
    /\ R[0] = <<>>
    /\ \A k \in 0 .. Len(cols) : k + 1 <= Len(cols) => R[k + 1] = RowStep(R[k], cols[k + 1], ColumnValue(cols, t, k + 1))

Walking(W, tuple, natts, nulls, data, cols, toast, old) ==
    /\ W[0] = DecodeStart
    /\ \A k \in 0 .. Len(cols) : k + 1 <= Len(cols) =>
         W[k + 1] = NextColumn(W[k], k + 1, tuple, natts, nulls, data, cols, toast, old)

OldFits(old, R, cols, t, ids) ==
    \A k \in 0 .. Len(t) : k + 1 <= Len(t) =>
        (Missing(cols[k + 1], k + 1, t[k + 1], ids) => Backed(old, R[k], cols[k + 1], t[k + 1]))
OldHas(old, R, cols, t, ids) ==
    \A k \in 0 .. Len(t) : k + 1 <= Len(t) =>
        (Missing(cols[k + 1], k + 1, t[k + 1], ids) => Len(R[k]) < Len(old))

WalkAt(W, R, A, t, k, good) ==
    /\ W[k].bad = TRUE \/ W[k] = WalkState(R[k], Len(A[Reach(t, k)]))
    /\ good => W[k] = WalkState(R[k], Len(A[Reach(t, k)]))

\* One column further.
LEMMA WalkNext ==
    ASSUME NEW cols, NEW t, NEW A, NEW tuple, NEW nulls, NEW data, NEW toast, NEW ids, NEW all,
           ReadsTuple(cols, t, A, tuple, nulls, data, toast, ids, all), NEW old, NEW R, Rowing(R, cols, t),
           OldFits(old, R, cols, t, ids), NEW W, Walking(W, tuple, Len(t), nulls, data, cols, toast, old),
           NEW k \in Nat, k + 1 <= Len(cols), W[k] = WalkState(R[k], Len(A[Reach(t, k)]))
    PROVE  WalkAt(W, R, A, t, k + 1, all /\ OldHas(old, R, cols, t, ids))
<1>1. Len(t) \in Nat /\ Len(cols) \in Nat
  BY SeqLen DEF ReadsTuple, IsTuple, IsTable
<1>2. k \in 0 .. Len(cols)
  BY <1>1
<1>3. PICK r, off, col, st : r = R[k] /\ off = Len(A[Reach(t, k)]) /\ col = cols[k + 1] /\ st = W[k + 1]
  OBVIOUS
<1>4. st = NextColumn(WalkState(r, off), k + 1, tuple, Len(t), nulls, data, cols, toast, old)
  BY <1>2, <1>3 DEF Walking
<1>5. R[k + 1] = RowStep(r, col, ColumnValue(cols, t, k + 1))
  BY <1>2, <1>3 DEF Rowing
<1>6. CASE k + 1 <= Len(t)
  <2>1. Reach(t, k) = k /\ Reach(t, k + 1) = k + 1 /\ k \in 0 .. Len(t)
    BY <1>1, <1>6 DEF Reach
  <2>2. off = Len(A[k])
    BY <1>3, <2>1
  <2>3. PICK a : a = t[k + 1]
    OBVIOUS
  <2>4. Missing(col, k + 1, a, ids) => Backed(old, r, col, a)
    BY <1>3, <1>6, <2>1, <2>3 DEF OldFits
  <2>5. OldHas(old, R, cols, t, ids) => (Missing(col, k + 1, a, ids) => Len(r) < Len(old))
    BY <1>3, <1>6, <2>1, <2>3 DEF OldHas
  <2>6. Steps(st, r, col, k + 1, a, ids, all, ColumnValue(cols, t, k + 1), Len(A[k + 1]), old)
    BY <1>3, <1>4, <1>6, <2>2, <2>3, <2>4, ColumnStep
  <2> QED
    BY <1>3, <1>5, <2>1, <2>5, <2>6 DEF Steps, WalkAt
<1>7. CASE ~(k + 1 <= Len(t))
  <2>1. Reach(t, k) = Reach(t, k + 1) /\ k + 1 > Len(t)
    BY <1>1, <1>7 DEF Reach
  <2>2. st = WalkState(RowStep(r, col, ColumnValue(cols, t, k + 1)), off)
    <3>1. col = cols[k + 1] /\ k + 1 > Len(t)
      BY <1>3, <2>1
    <3> QED
      BY <1>4, <3>1, ColumnMissing
  <2> QED
    BY <1>3, <1>5, <2>1, <2>2 DEF WalkAt
<1> QED
  BY <1>6, <1>7

\* All columns.
LEMMA Walked ==
    ASSUME NEW cols, NEW t, NEW A, NEW tuple, NEW nulls, NEW data, NEW toast, NEW ids, NEW all,
           ReadsTuple(cols, t, A, tuple, nulls, data, toast, ids, all), NEW old, NEW R, Rowing(R, cols, t),
           OldFits(old, R, cols, t, ids), NEW W, Walking(W, tuple, Len(t), nulls, data, cols, toast, old)
    PROVE  WalkAt(W, R, A, t, Len(cols), all /\ OldHas(old, R, cols, t, ids))
<1>1. Len(t) \in Nat /\ Len(cols) \in Nat
  BY SeqLen DEF ReadsTuple, IsTuple, IsTable
<1>2. PICK good : good = (all /\ OldHas(old, R, cols, t, ids))
  OBVIOUS
<1> DEFINE S == {m \in Nat : m <= Len(cols) => WalkAt(W, R, A, t, m, good)}
<1>3. 0 \in S
  <2>1. Reach(t, 0) = 0
    BY <1>1 DEF Reach
  <2>2. W[0] = WalkState(<<>>, 0)
    BY DEF Walking, DecodeStart, WalkState
  <2>3. R[0] = <<>> /\ A[0] = <<>> /\ Len(<<>>) = 0
    BY DEF Rowing, ReadsTuple, Area
  <2> QED
    BY <2>1, <2>2, <2>3 DEF WalkAt
<1>4. ASSUME NEW m \in Nat, m \in S PROVE m + 1 \in S
  <2> SUFFICES ASSUME m + 1 <= Len(cols) PROVE WalkAt(W, R, A, t, m + 1, good)
    OBVIOUS
  <2>1. WalkAt(W, R, A, t, m, good) /\ m \in 0 .. Len(cols)
    BY <1>1, <1>4
  <2>2. CASE W[m] = WalkState(R[m], Len(A[Reach(t, m)]))
    <3>1. WalkAt(W, R, A, t, m + 1, all /\ OldHas(old, R, cols, t, ids))
      BY <2>2, WalkNext
    <3> QED
      BY <1>2, <3>1
  <2>3. CASE W[m] # WalkState(R[m], Len(A[Reach(t, m)]))
    <3>1. W[m].bad = TRUE /\ ~good
      BY <2>1, <2>3 DEF WalkAt
    <3>2. W[m + 1] = W[m]
      BY <2>1, <3>1 DEF Walking, NextColumn
    <3> QED
      BY <3>1, <3>2 DEF WalkAt
  <2> QED
    BY <2>2, <2>3
<1> HIDE DEF S
<1>5. \A m \in Nat : m \in S
  BY <1>3, <1>4, Inductive
<1>6. Len(cols) \in S
  BY <1>1, <1>5
<1> QED
  BY <1>1, <1>2, <1>6 DEF S

-----------------------------------------------------------------------------
\* The null bitmap.

\* A multiple that fits counts in the quotient.
LEMMA DivLeast ==
    ASSUME NEW a \in Nat, NEW b \in Nat \ {0}, NEW q \in Nat, q * b <= a
    PROVE  q <= a \div b
<1>1. PICK d \in Nat : d = a \div b
  BY DivIs
<1>2. PICK r \in Nat : r = a % b /\ r < b
  BY DivIs
<1>3. a = d * b + r
  BY <1>1, <1>2, DivIs
<1>4. SUFFICES ASSUME q >= d + 1 PROVE FALSE
  BY <1>1
<1>5. PICK e \in Nat : q = d + 1 + e
  <2>1. q - (d + 1) \in Nat
    BY <1>4
  <2> QED
    BY <2>1
<1>6. q * b = d * b + b + e * b
  BY <1>5
<1>7. d * b \in Nat /\ e * b \in Nat /\ q * b \in Nat
  OBVIOUS
<1> QED
  BY <1>2, <1>3, <1>6, <1>7

\* The bits of byte k.
BitsAt(t, k) ==
    {b \in 0 .. BitsPerByte - 1 : LET i == (k - 1) * BitsPerByte + b + 1 IN i <= Len(t) /\ t[i].form # "null"}

\* The bytes of a bitmap.
LEMMA BytesIs ==
    ASSUME NEW t, IsSeq(t)
    PROVE  /\ BitmapBytes(t) \in Nat
           /\ HasNulls(t) => BitmapBytes(t) = (Len(t) + BitsPerByte - 1) \div BitsPerByte
<1>1. Len(t) \in Nat /\ BitsPerByte \in Nat \ {0}
  BY SeqLen, Widths
<1>2. Len(t) + BitsPerByte - 1 \in Nat
  BY <1>1
<1>3. (Len(t) + BitsPerByte - 1) \div BitsPerByte \in Nat
  BY <1>1, <1>2, DivIs
<1> QED
  BY <1>3 DEF BitmapBytes

\* The bitmap, and the padding up to t_hoff.
LEMMA BitmapIs ==
    ASSUME NEW t, IsSeq(t), NEW bits, bits = THoff(t) - HeapHeader
    PROVE  /\ bits \in Nat /\ IsSeq(Bitmap(t)) /\ Len(Bitmap(t)) = bits
           /\ BitmapBytes(t) \in Nat /\ BitmapBytes(t) <= bits
           /\ \A k \in 1 .. BitmapBytes(t) : Bitmap(t)[k] = <<"bits", BitsAt(t, k)>>
<1>1. PICK n \in Nat : n = BitmapBytes(t)
  BY BytesIs
<1>2. PICK h \in Nat : h = THoff(t) /\ h >= 23 + n
  <2>1. 23 + n \in Nat
    OBVIOUS
  <2>2. align_to(23 + n, 8) \in Nat /\ align_to(23 + n, 8) >= 23 + n
    BY <2>1, AlignIs
  <2> QED
    BY <1>1, <2>2 DEF THoff, HeapHeader
<1>3. bits = h - 23 /\ bits \in Nat /\ n <= bits /\ bits - n \in Nat
  BY <1>2 DEF HeapHeader
<1>4. PICK s : s = [k \in 1 .. n |-> <<"bits", BitsAt(t, k)>>]
  OBVIOUS
<1>5. IsSeq(s) /\ Len(s) = n /\ \A k \in 1 .. n : s[k] = <<"bits", BitsAt(t, k)>>
  <2>1. \A k \in 1 .. n : s[k] = <<"bits", BitsAt(t, k)>>
    BY <1>4
  <2>2. s = [k \in 1 .. n |-> s[k]]
    BY <1>4
  <2> QED
    BY <2>1, <2>2, FunSeq
<1>6. PICK f : f = Filler(bits - n) /\ IsSeq(f) /\ Len(f) = bits - n
  BY <1>3, FillerIs
<1>7. Bitmap(t) = s \o f
  <2>1. THoff(t) - HeapHeader - BitmapBytes(t) = bits - n
    BY <1>1
  <2>2. Bitmap(t) = [k \in 1 .. n |-> <<"bits", BitsAt(t, k)>>] \o Filler(bits - n)
    BY <1>1, <2>1 DEF Bitmap, BitsAt
  <2> QED
    BY <1>4, <1>6, <2>2
<1>8. IsSeq(s \o f) /\ Len(s \o f) = Len(s) + Len(f) /\ \A k \in 1 .. Len(s) : (s \o f)[k] = s[k]
  BY <1>5, <1>6, Concat
<1>9. Len(s \o f) = bits
  BY <1>3, <1>5, <1>6, <1>8
<1> QED
  BY <1>1, <1>3, <1>5, <1>7, <1>8, <1>9

\* is_null: bit i of it.
LEMMA NullBits ==
    ASSUME NEW t, IsSeq(t), NEW rest, IsSeq(rest), NEW i \in 1 .. Len(t)
    PROVE  (HasNulls(t) /\ IsNull(Bitmap(t) \o rest, i)) <=> t[i].form = "null"
<1>1. Len(t) \in Nat /\ DOMAIN t = 1 .. Len(t)
  BY SeqLen
<1>2. CASE ~HasNulls(t)
  BY <1>1, <1>2 DEF HasNulls
<1>3. CASE HasNulls(t)
  <2>1. PICK B \in Nat \ {0} : B = BitsPerByte
    BY Widths
  <2>2. PICK j \in Nat : j = i - 1
    BY <1>1
  <2>3. PICK q \in Nat : q = j \div B
    BY DivIs
  <2>4. PICK m \in Nat : m = j % B /\ m < B
    BY DivIs
  <2>5. j = q * B + m /\ q * B \in Nat
    BY <2>3, <2>4, DivIs
  <2>6. PICK nb \in Nat : nb = BitmapBytes(t) /\ nb = (Len(t) + B - 1) \div B
    BY <1>3, <2>1, BytesIs
  <2>7. q + 1 \in 1 .. nb
    <3>6. Len(t) + B - 1 \in Nat
      BY <1>1
    <3>1. PICK c \in Nat : c = Len(t) + B - 1
      BY <3>6
    <3>2. (q + 1) * B = q * B + B
      OBVIOUS
    <3>3. j + 1 <= Len(t)
      BY <1>1, <2>2
    <3>4. (q + 1) * B <= c
      BY <1>1, <2>5, <3>1, <3>2, <3>3
    <3>5. q + 1 <= c \div B
      BY <3>4, DivLeast
    <3> QED
      BY <2>6, <3>1, <3>5
  <2>8. PICK bm : bm = Bitmap(t)
    OBVIOUS
  <2>9. /\ IsSeq(bm) /\ nb <= Len(bm) /\ Len(bm) \in Nat
        /\ \A k \in 1 .. nb : bm[k] = <<"bits", BitsAt(t, k)>>
    <3>1. PICK bits : bits = THoff(t) - HeapHeader
      OBVIOUS
    <3>2. /\ bits \in Nat /\ IsSeq(Bitmap(t)) /\ Len(Bitmap(t)) = bits
          /\ BitmapBytes(t) \in Nat /\ BitmapBytes(t) <= bits
          /\ \A k \in 1 .. BitmapBytes(t) : Bitmap(t)[k] = <<"bits", BitsAt(t, k)>>
      BY <3>1, BitmapIs
    <3> QED
      BY <2>6, <2>8, <3>2
  <2>10. (bm \o rest)[q + 1] = <<"bits", BitsAt(t, q + 1)>>
    <3>1. \A k \in 1 .. Len(bm) : (bm \o rest)[k] = bm[k]
      BY <2>9, Concat
    <3>2. q + 1 \in 1 .. Len(bm)
      BY <2>7, <2>9
    <3> QED
      BY <2>7, <2>9, <3>1, <3>2
  <2>11. (bm \o rest)[q + 1][2] = BitsAt(t, q + 1)
    BY <2>10
  <2>12. IsNull(Bitmap(t) \o rest, i) <=> m \notin BitsAt(t, q + 1)
    BY <2>1, <2>2, <2>3, <2>4, <2>8, <2>11 DEF IsNull
  <2>13. m \in BitsAt(t, q + 1) <=> t[i].form # "null"
    <3>1. m \in 0 .. B - 1
      BY <2>4
    <3>2. ((q + 1) - 1) * B + m + 1 = i
      <4>1. (q + 1) - 1 = q
        OBVIOUS
      <4> QED
        BY <1>1, <2>2, <2>5, <4>1
    <3>3. i <= Len(t)
      BY <1>1
    <3> QED
      BY <2>1, <3>1, <3>2, <3>3 DEF BitsAt
  <2> QED
    BY <1>3, <2>12, <2>13
<1> QED
  BY <1>2, <1>3

-----------------------------------------------------------------------------
\* decode_tuple_payload.

\* The row function of a tuple.
LEMMA RowingIs ==
    ASSUME NEW cols, IsTable(cols), NEW t
    PROVE  \E R : Rowing(R, cols, t) /\ RowOf(cols, t) = R[Len(cols)]
<1>1. Len(cols) \in Nat
  BY SeqLen DEF IsTable
<1>2. PICK R : /\ RowOf(cols, t) = R[Len(cols)]
               /\ R[0] = <<>>
               /\ \A k \in 0 .. Len(cols) : k + 1 <= Len(cols) =>
                    R[k + 1] = (IF cols[k + 1].live THEN Append(R[k], ColumnValue(cols, t, k + 1)) ELSE R[k])
  BY <1>1, RowsAre
<1>3. Rowing(R, cols, t)
  BY <1>2 DEF Rowing, RowStep
<1> QED
  BY <1>2, <1>3

\* The attribute area, column by column.
LEMMA AreaIs ==
    ASSUME NEW cols, NEW t, Len(t) \in Nat
    PROVE  \E A : Area(A, cols, t) /\ Attrs(cols, t) = A[Len(t)]
<1>1. PICK A : /\ Attrs(cols, t) = A[Len(t)]
               /\ A[0] = <<>>
               /\ \A k \in 0 .. Len(t) : k + 1 <= Len(t) => A[k + 1] = Fill(A[k], cols[k + 1], k + 1, t[k + 1])
  BY AreasAre
<1>2. Area(A, cols, t)
  BY <1>1 DEF Area
<1> QED
  BY <1>1, <1>2

\* It is a sequence.
LEMMA AttrsSeq ==
    ASSUME NEW cols, IsTable(cols), NEW t, IsTuple(cols, t)
    PROVE  IsSeq(Attrs(cols, t)) /\ Len(Attrs(cols, t)) \in Nat
<1>1. Len(t) \in Nat
  BY SeqLen DEF IsTuple
<1>2. PICK A : Area(A, cols, t) /\ Attrs(cols, t) = A[Len(t)]
  BY <1>1, AreaIs
<1>3. Len(t) \in 0 .. Len(t)
  BY <1>1
<1>4. IsSeq(A[Len(t)])
  BY <1>2, <1>3, AreaSeqs
<1> QED
  BY <1>2, <1>4, SeqLen

\* The two ways decoding can end.
Ends(d, cols, t, good) ==
    /\ d = Bad \/ d = [row |-> RowOf(cols, t), attrs |-> Attrs(cols, t)]
    /\ good => d = [row |-> RowOf(cols, t), attrs |-> Attrs(cols, t)]

\* A row comes out, or the error.
LEMMA WholeIs ==
    ASSUME NEW W, NEW R, NEW A, NEW t, NEW n, NEW good, WalkAt(W, R, A, t, n, good), NEW data
    PROVE  /\ Whole(W[n], data) = Bad \/ Whole(W[n], data) = [row |-> R[n], attrs |-> data]
           /\ good => Whole(W[n], data) = [row |-> R[n], attrs |-> data]
<1>1. CASE W[n] = WalkState(R[n], Len(A[Reach(t, n)]))
  <2>1. W[n].bad = FALSE /\ W[n].row = R[n]
    BY <1>1 DEF WalkState
  <2> QED
    BY <2>1 DEF Whole
<1>2. CASE W[n] # WalkState(R[n], Len(A[Reach(t, n)]))
  BY <1>2 DEF WalkAt, Whole
<1> QED
  BY <1>1, <1>2

\* decode_tuple_payload gives the row and the bytes of the tuple.
LEMMA PayloadDecodes ==
    ASSUME NEW cols, IsTable(cols), NEW t, IsTuple(cols, t), NEW toast, NEW ids, NEW all, Serves(toast, ids, all),
           NEW old, NEW R, Rowing(R, cols, t), RowOf(cols, t) = R[Len(cols)], OldFits(old, R, cols, t, ids)
    PROVE  Ends(decode_tuple_payload(Payload(cols, t), Len(t), HasNulls(t), THoff(t), cols, toast, old),
                cols, t, all /\ OldHas(old, R, cols, t, ids))
<1>1. Len(t) \in Nat /\ Len(cols) \in Nat /\ Len(t) <= Len(cols) /\ IsSeq(t)
  BY SeqLen DEF IsTuple, IsTable
<1>2. PICK A : Area(A, cols, t) /\ Attrs(cols, t) = A[Len(t)]
  BY <1>1, AreaIs
<1>3. PICK data : data = Attrs(cols, t)
  OBVIOUS
<1>4. IsSeq(data) /\ Len(data) \in Nat
  BY <1>3, AttrsSeq
<1>5. PICK bits, bm : bits = THoff(t) - HeapHeader /\ bm = Bitmap(t)
  OBVIOUS
<1>6. bits \in Nat /\ IsSeq(bm) /\ Len(bm) = bits
  BY <1>1, <1>5, BitmapIs
<1>7. PICK tuple : tuple = bm \o data
  OBVIOUS
<1>8. tuple = Payload(cols, t)
  BY <1>3, <1>5, <1>7 DEF Payload
<1>9. IsSeq(tuple) /\ Len(tuple) = bits + Len(data)
  <2>1. IsSeq(bm \o data) /\ Len(bm \o data) = Len(bm) + Len(data)
    BY <1>4, <1>6, Join2
  <2> QED
    BY <1>6, <1>7, <2>1
<1>10. SubSeq(tuple, bits + 1, Len(tuple)) = data
  <2>1. Lies(tuple, 0, tuple)
    BY <1>9, LiesWhole
  <2>2. Lies(tuple, 0 + Len(bm), data)
    BY <1>4, <1>6, <1>7, <1>9, <2>1, LiesParts
  <2>3. 0 + Len(bm) = bits
    BY <1>6
  <2>4. Lies(tuple, bits, data)
    BY <2>2, <2>3
  <2>5. SubSeq(tuple, bits + 1, bits + Len(data)) = data
    BY <1>9, <2>4, LiesCut
  <2> QED
    BY <1>9, <2>5
<1>11. PICK nulls : nulls = HasNulls(t)
  OBVIOUS
<1>12. \A i \in 1 .. Len(t) : (nulls /\ IsNull(tuple, i)) <=> t[i].form = "null"
  BY <1>1, <1>4, <1>5, <1>7, <1>11, NullBits
<1>13. ReadsTuple(cols, t, A, tuple, nulls, data, toast, ids, all)
  BY <1>2, <1>3, <1>12 DEF ReadsTuple
<1>14. PICK W : /\ DecodeColumns(tuple, Len(t), nulls, data, cols, toast, old) = W[Len(cols)]
                /\ W[0] = DecodeStart
                /\ \A k \in 0 .. Len(cols) : k + 1 <= Len(cols) =>
                     W[k + 1] = NextColumn(W[k], k + 1, tuple, Len(t), nulls, data, cols, toast, old)
  BY <1>1, WalksAre
<1>15. Walking(W, tuple, Len(t), nulls, data, cols, toast, old)
  BY <1>14 DEF Walking
<1>16. PICK good : good = (all /\ OldHas(old, R, cols, t, ids))
  OBVIOUS
<1>17. WalkAt(W, R, A, t, Len(cols), good)
  BY <1>13, <1>15, <1>16, Walked
<1>18. PICK st : st = W[Len(cols)]
  OBVIOUS
<1>19. /\ Whole(st, data) = Bad \/ Whole(st, data) = [row |-> R[Len(cols)], attrs |-> data]
       /\ good => Whole(st, data) = [row |-> R[Len(cols)], attrs |-> data]
  BY <1>17, <1>18, WholeIs
<1>20. decode_tuple_payload(tuple, Len(t), nulls, THoff(t), cols, toast, old) = Whole(st, data)
  <2>1. ~(Len(t) > Len(cols)) /\ ~(bits < 0) /\ ~(Len(tuple) < bits)
    BY <1>1, <1>4, <1>6, <1>9
  <2>2. decode_tuple_payload(tuple, Len(t), nulls, THoff(t), cols, toast, old)
          = Whole(DecodeColumns(tuple, Len(t), nulls, SubSeq(tuple, bits + 1, Len(tuple)), cols, toast, old),
                  SubSeq(tuple, bits + 1, Len(tuple)))
    BY <1>5, <2>1 DEF decode_tuple_payload
  <2> QED
    BY <1>10, <1>14, <1>18, <2>2
<1> QED
  BY <1>3, <1>8, <1>11, <1>16, <1>19, <1>20 DEF Ends

-----------------------------------------------------------------------------
\* Records with the whole tuple.

\* xl_heap_header.
HeaderLen(neon) == IF neon THEN 9 ELSE 5

\* What it says.
LEMMA WalHeaderIs ==
    ASSUME NEW t, NEW neon \in BOOLEAN, NEW h, h = WalHeader(t, neon), NEW n, n = HeaderLen(neon)
    PROVE  /\ IsSeq(h) /\ Len(h) = n /\ n \in {5, 9}
           /\ h[1][2] = Len(t) /\ h[3][2] = HasNulls(t) /\ h[n][2] = THoff(t)
<1>1. n \in {5, 9} /\ n \in Nat
  BY DEF HeaderLen
<1>2. h = [i \in 1 .. n |-> CASE i = 1 -> Num(Len(t)) [] i = 3 -> <<"hasnull", HasNulls(t)>>
                              [] i = n -> Num(THoff(t)) [] OTHER -> Zero]
  BY DEF WalHeader, HeaderLen
<1>3. IsSeq(h) /\ Len(h) = n
  <2>1. h = [i \in 1 .. n |-> h[i]]
    BY <1>2
  <2> QED
    BY <1>1, <2>1, FunSeq
<1>4. h[1] = Num(Len(t)) /\ h[3] = <<"hasnull", HasNulls(t)>> /\ h[n] = Num(THoff(t))
  <2>1. 1 \in 1 .. n /\ 3 \in 1 .. n /\ n \in 1 .. n /\ n # 1 /\ n # 3
    BY <1>1
  <2>2. h[1] = Num(Len(t))
    BY <1>2, <2>1
  <2>3. h[3] = <<"hasnull", HasNulls(t)>>
    BY <1>2, <2>1
  <2>4. h[n] = Num(THoff(t))
    BY <1>2, <2>1
  <2> QED
    BY <2>2, <2>3, <2>4
<1>5. h[1][2] = Len(t) /\ h[3][2] = HasNulls(t) /\ h[n][2] = THoff(t)
  BY <1>4 DEF Num
<1> QED
  BY <1>1, <1>3, <1>5

HeaderRead(b, t, neon, n, rest) ==
    /\ wal_heap_header(b, neon) = [natts |-> Len(t), nulls |-> HasNulls(t), hoff |-> THoff(t), len |-> n]
    /\ wal_heap_header(b, neon) # Bad /\ n \in Nat
    /\ IsSeq(b) /\ Len(b) = n + Len(rest) /\ Lies(b, n, rest)

\* wal_heap_header reads it back.
LEMMA HeaderOf ==
    ASSUME NEW t, NEW neon \in BOOLEAN, NEW rest, IsSeq(rest), NEW b, b = WalHeader(t, neon) \o rest,
           NEW n, n = HeaderLen(neon)
    PROVE  HeaderRead(b, t, neon, n, rest)
<1>1. PICK h : h = WalHeader(t, neon)
  OBVIOUS
<1>2. /\ IsSeq(h) /\ Len(h) = n /\ n \in {5, 9}
      /\ h[1][2] = Len(t) /\ h[3][2] = HasNulls(t) /\ h[n][2] = THoff(t)
  BY <1>1, WalHeaderIs
<1>3. /\ IsSeq(h \o rest) /\ Len(h \o rest) = Len(h) + Len(rest)
      /\ \A k \in 1 .. Len(h) : (h \o rest)[k] = h[k]
  BY <1>2, Concat
<1>4. b = h \o rest /\ IsSeq(b) /\ Len(b) = n + Len(rest) /\ Len(rest) \in Nat /\ n \in Nat
  BY <1>1, <1>2, <1>3, SeqLen
<1>5. b[1] = h[1] /\ b[3] = h[3] /\ b[n] = h[n]
  <2>1. 1 \in 1 .. Len(h) /\ 3 \in 1 .. Len(h) /\ n \in 1 .. Len(h)
    BY <1>2
  <2> QED
    BY <1>3, <1>4, <2>1
<1>6. ~(Len(b) < n)
  BY <1>4
<1>7. wal_heap_header(b, neon) = [natts |-> b[1][2], nulls |-> b[3][2], hoff |-> b[n][2], len |-> n]
  <2>1. (IF neon THEN 9 ELSE 5) = n
    BY DEF HeaderLen
  <2> QED
    BY <1>6, <2>1 DEF wal_heap_header
<1>8. wal_heap_header(b, neon) = [natts |-> Len(t), nulls |-> HasNulls(t), hoff |-> THoff(t), len |-> n]
  BY <1>2, <1>5, <1>7
<1>9. wal_heap_header(b, neon) # Bad
  BY <1>8 DEF Bad
<1>10. Lies(b, n, rest)
  <2>1. Lies(b, 0, h \o rest)
    BY <1>4, LiesWhole
  <2>2. Lies(b, 0 + Len(h), rest)
    BY <1>2, <1>4, <2>1, LiesParts
  <2>3. 0 + Len(h) = n
    BY <1>2, <1>4
  <2> QED
    BY <2>2, <2>3
<1> QED
  BY <1>4, <1>8, <1>9, <1>10 DEF HeaderRead

\* The payload is a sequence.
LEMMA PayloadSeq ==
    ASSUME NEW cols, IsTable(cols), NEW t, IsTuple(cols, t)
    PROVE  IsSeq(Payload(cols, t)) /\ Len(Payload(cols, t)) \in Nat
<1>1. IsSeq(t)
  BY DEF IsTuple
<1>2. PICK bits : bits = THoff(t) - HeapHeader
  OBVIOUS
<1>3. IsSeq(Bitmap(t))
  BY <1>1, <1>2, BitmapIs
<1>4. IsSeq(Attrs(cols, t))
  BY AttrsSeq
<1>5. IsSeq(Bitmap(t) \o Attrs(cols, t))
  BY <1>3, <1>4, Concat
<1>6. IsSeq(Payload(cols, t))
  BY <1>5 DEF Payload
<1> QED
  BY <1>6, SeqLen

\* decode_insert_tuple takes the payload, whatever the columns.
LEMMA InsertReads ==
    ASSUME NEW cols, IsTable(cols), NEW t, IsTuple(cols, t), NEW neon \in BOOLEAN, NEW seen, NEW toast
    PROVE  decode_insert_tuple(WalHeader(t, neon) \o Payload(cols, t), seen, toast, neon)
             = decode_tuple_payload(Payload(cols, t), Len(t), HasNulls(t), THoff(t), seen, toast, <<>>)
<1>1. PICK rest : rest = Payload(cols, t)
  OBVIOUS
<1>2. IsSeq(rest) /\ Len(rest) \in Nat
  BY <1>1, PayloadSeq
<1>3. PICK b : b = WalHeader(t, neon) \o rest
  OBVIOUS
<1>4. PICK n : n = HeaderLen(neon)
  OBVIOUS
<1>5. PICK h : h = wal_heap_header(b, neon)
  OBVIOUS
<1>6. /\ h = [natts |-> Len(t), nulls |-> HasNulls(t), hoff |-> THoff(t), len |-> n]
      /\ h # Bad /\ n \in Nat
      /\ IsSeq(b) /\ Len(b) = n + Len(rest) /\ Lies(b, n, rest)
  <2>1. IsSeq(rest)
    BY <1>2
  <2>2. HeaderRead(b, t, neon, n, rest)
    BY <1>3, <1>4, <2>1, HeaderOf
  <2> QED
    BY <1>5, <2>2 DEF HeaderRead
<1>7. h.natts = Len(t) /\ h.nulls = HasNulls(t) /\ h.hoff = THoff(t) /\ h.len = n
  BY <1>6
<1>8. SubSeq(b, n + 1, Len(b)) = rest
  <2>1. SubSeq(b, n + 1, n + Len(rest)) = rest
    BY <1>6, LiesCut
  <2> QED
    BY <1>6, <2>1
<1>9. decode_insert_tuple(b, seen, toast, neon)
        = decode_tuple_payload(SubSeq(b, h.len + 1, Len(b)), h.natts, h.nulls, h.hoff, seen, toast, <<>>)
  BY <1>5, <1>6 DEF decode_insert_tuple
<1> QED
  BY <1>1, <1>3, <1>7, <1>8, <1>9

\* tuple_on_page.
LEMMA PageReads ==
    ASSUME NEW cols, IsTable(cols), NEW t, IsTuple(cols, t), NEW toast
    PROVE  decode_tuple_from_page(OnPage(cols, t), cols, toast)
             = decode_tuple_payload(Payload(cols, t), Len(t), HasNulls(t), THoff(t), cols, toast, <<>>)
<1>1. PICK rest : rest = Payload(cols, t)
  OBVIOUS
<1>2. IsSeq(rest) /\ Len(rest) \in Nat
  BY <1>1, PayloadSeq
<1>3. PICK h : h = [i \in 1 .. 23 |-> CASE i = 19 -> Num(Len(t)) [] i = 21 -> <<"hasnull", HasNulls(t)>>
                                        [] i = 23 -> Num(THoff(t)) [] OTHER -> Zero]
  OBVIOUS
<1>4. IsSeq(h) /\ Len(h) = 23
  <2>1. h = [i \in 1 .. 23 |-> h[i]]
    BY <1>3
  <2> QED
    BY <2>1, FunSeq
<1>5. h[19][2] = Len(t) /\ h[21][2] = HasNulls(t) /\ h[23][2] = THoff(t)
  <2>1. h[19] = Num(Len(t)) /\ h[21] = <<"hasnull", HasNulls(t)>> /\ h[23] = Num(THoff(t))
    BY <1>3
  <2> QED
    BY <2>1 DEF Num
<1>6. PICK b : b = h \o rest
  OBVIOUS
<1>7. b = OnPage(cols, t)
  BY <1>1, <1>3, <1>6 DEF OnPage, HeapHeader
<1>8. /\ IsSeq(h \o rest) /\ Len(h \o rest) = Len(h) + Len(rest)
      /\ \A k \in 1 .. Len(h) : (h \o rest)[k] = h[k]
  <2>1. IsSeq(h) /\ IsSeq(rest)
    BY <1>2, <1>4
  <2> QED
    BY <2>1, Concat
<1>9. IsSeq(b) /\ Len(b) = 23 + Len(rest)
  BY <1>4, <1>6, <1>8
<1>10. b[19] = h[19] /\ b[21] = h[21] /\ b[23] = h[23]
  <2>1. 19 \in 1 .. Len(h) /\ 21 \in 1 .. Len(h) /\ 23 \in 1 .. Len(h)
    BY <1>4
  <2> QED
    BY <1>6, <1>8, <2>1
<1>11. SubSeq(b, 23 + 1, Len(b)) = rest
  <2>1. Lies(b, 0, h \o rest)
    BY <1>6, <1>9, LiesWhole
  <2>2. Lies(b, 0 + Len(h), rest)
    BY <1>2, <1>4, <1>9, <2>1, LiesParts
  <2>3. Lies(b, 23, rest)
    <3>1. 0 + Len(h) = 23
      BY <1>4
    <3> QED
      BY <2>2, <3>1
  <2>4. SubSeq(b, 23 + 1, 23 + Len(rest)) = rest
    BY <1>9, <2>3, LiesCut
  <2> QED
    BY <1>9, <2>4
<1>12. ~(Len(b) < 23)
  BY <1>2, <1>9
<1>13. decode_tuple_from_page(b, cols, toast)
         = decode_tuple_payload(SubSeq(b, 23 + 1, Len(b)), b[19][2], b[21][2], b[23][2], cols, toast, <<>>)
  BY <1>12 DEF decode_tuple_from_page, HeapHeader
<1> QED
  BY <1>1, <1>5, <1>7, <1>10, <1>11, <1>13

\* xl_multi_insert_tuple.
TupleHead(cols, t) ==
    [i \in 1 .. 7 |->
        CASE i = 1 -> Num(Len(Payload(cols, t))) [] i = 3 -> Num(Len(t))
          [] i = 5 -> <<"hasnull", HasNulls(t)>> [] i = 7 -> Num(THoff(t)) [] OTHER -> Zero]

\* The header of one tuple of a MULTI INSERT.
LEMMA TupleHeadIs ==
    ASSUME NEW cols, NEW t, NEW h, h = TupleHead(cols, t)
    PROVE  /\ IsSeq(h) /\ Len(h) = 7
           /\ h[1][2] = Len(Payload(cols, t)) /\ h[3][2] = Len(t) /\ h[5][2] = HasNulls(t) /\ h[7][2] = THoff(t)
<1>1. IsSeq(h) /\ Len(h) = 7
  <2>1. h = [i \in 1 .. 7 |-> h[i]]
    BY DEF TupleHead
  <2> QED
    BY <2>1, FunSeq
<1>2. /\ h[1] = Num(Len(Payload(cols, t))) /\ h[3] = Num(Len(t))
      /\ h[5] = <<"hasnull", HasNulls(t)>> /\ h[7] = Num(THoff(t))
  BY DEF TupleHead
<1>3. h[1][2] = Len(Payload(cols, t)) /\ h[3][2] = Len(t) /\ h[5][2] = HasNulls(t) /\ h[7][2] = THoff(t)
  BY <1>2 DEF Num
<1> QED
  BY <1>1, <1>3

Batch(off, out) == [off |-> off, out |-> out, bad |-> FALSE]

\* The tuple laid out behind buf.
LaidAs(b, buf, M, cols, t, toast) ==
    /\ IsSeq(M) /\ Len(M) \in Nat
    /\ Lies(b, 0, M) =>
         /\ Lies(b, 0, buf)
         /\ \A out :
              NextTuple(Batch(Len(buf), out), b, cols, toast)
                = Batch(Len(M), Append(out, decode_tuple_payload(Payload(cols, t), Len(t), HasNulls(t), THoff(t),
                                                                 cols, toast, <<>>)))

\* It is read back, and the tuple behind it.
LEMMA TupleReads ==
    ASSUME NEW cols, IsTable(cols), NEW t, IsTuple(cols, t), NEW toast, NEW b, IsSeq(b), NEW buf, IsSeq(buf),
           NEW M, M = MultiTuple(buf, cols, t)
    PROVE  LaidAs(b, buf, M, cols, t, toast)
<1>1. PICK p, h, q, at : /\ p = Payload(cols, t) /\ h = TupleHead(cols, t)
                         /\ q = Padded(buf, 2) /\ at = align_to(Len(buf), 2)
  OBVIOUS
<1>2. IsSeq(p) /\ Len(p) \in Nat
  BY <1>1, PayloadSeq
<1>3. /\ IsSeq(h) /\ Len(h) = 7
      /\ h[1][2] = Len(p) /\ h[3][2] = Len(t) /\ h[5][2] = HasNulls(t) /\ h[7][2] = THoff(t)
  BY <1>1, TupleHeadIs
<1>4. IsSeq(q) /\ Len(q) = at /\ at \in Nat /\ Len(buf) \in Nat /\ Len(buf) <= at
  BY <1>1, PaddedIs
<1>5. M = (q \o h) \o p
  BY <1>1 DEF MultiTuple, Padded, TupleHead, MultiHeader
<1>6. IsSeq(q \o h) /\ Len(q \o h) = Len(q) + Len(h)
  <2>1. IsSeq(q) /\ IsSeq(h)
    BY <1>3, <1>4
  <2> QED
    BY <2>1, Join2
<1>7. PICK g : g = q \o h
  OBVIOUS
<1>8. IsSeq(g) /\ Len(g) = at + 7
  BY <1>3, <1>4, <1>6, <1>7
<1>9. IsSeq(g \o p) /\ Len(g \o p) = Len(g) + Len(p)
  <2>1. IsSeq(g) /\ IsSeq(p)
    BY <1>2, <1>8
  <2> QED
    BY <2>1, Join2
<1>10. M = g \o p /\ IsSeq(M) /\ Len(M) = (at + 7) + Len(p)
  BY <1>5, <1>7, <1>8, <1>9
<1>11. Len(M) \in Nat
  BY <1>2, <1>4, <1>10
<1>12. ASSUME Lies(b, 0, M) PROVE Lies(b, 0, q) /\ Lies(b, at, h) /\ Lies(b, at + 7, p)
  <2>1. Lies(b, 0, g \o p)
    BY <1>10, <1>12
  <2>2. Lies(b, 0, g) /\ Lies(b, 0 + Len(g), p)
    <3>1. IsSeq(g) /\ IsSeq(p)
      BY <1>2, <1>8
    <3> QED
      BY <2>1, <3>1, LiesParts
  <2>3. Lies(b, 0, q \o h)
    BY <1>7, <2>2
  <2>4. Lies(b, 0, q) /\ Lies(b, 0 + Len(q), h)
    <3>1. IsSeq(q) /\ IsSeq(h)
      BY <1>3, <1>4
    <3> QED
      BY <2>3, <3>1, LiesParts
  <2>5. 0 + Len(q) = at /\ 0 + Len(g) = at + 7
    BY <1>4, <1>8
  <2> QED
    BY <2>2, <2>4, <2>5
<1>13. ASSUME Lies(b, 0, M) PROVE Lies(b, 0, buf)
  <2>1. PICK f : f = Filler(at - Len(buf))
    OBVIOUS
  <2>2. at - Len(buf) \in Nat
    BY <1>4
  <2>3. IsSeq(f)
    BY <2>1, <2>2, FillerIs
  <2>4. Lies(b, 0, buf \o f)
    BY <1>1, <1>12, <1>13, <2>1 DEF Padded
  <2> QED
    BY <2>3, <2>4, LiesParts
<1>14. ASSUME Lies(b, 0, M), NEW out
       PROVE  NextTuple(Batch(Len(buf), out), b, cols, toast)
                = Batch(Len(M), Append(out, decode_tuple_payload(p, Len(t), HasNulls(t), THoff(t), cols, toast, <<>>)))
  <2>1. b[at + 1] = h[1] /\ b[at + 3] = h[3] /\ b[at + 5] = h[5] /\ b[at + 7] = h[7]
    <3>1. \A k \in 1 .. 7 : b[at + k] = h[k]
      BY <1>3, <1>12, <1>14 DEF Lies
    <3> QED
      BY <3>1
  <2>2. b[at + 1][2] = Len(p) /\ b[at + 3][2] = Len(t) /\ b[at + 5][2] = HasNulls(t) /\ b[at + 7][2] = THoff(t)
    BY <1>3, <2>1
  <2>3. Slice(b, at + 7, Len(p)) = p /\ (at + 7) + Len(p) <= Len(b)
    BY <1>12, <1>14, Sliced
  <2>4. PICK st : st = Batch(Len(buf), out)
    OBVIOUS
  <2>5. st.off = Len(buf) /\ st.bad = FALSE /\ align_to(st.off, 2) = at
    BY <1>1, <2>4 DEF Batch
  <2>6. PICK l, n \in Nat : l = Len(b) /\ n = Len(p)
    BY <1>2, SeqLen
  <2>7. ~(at + 7 > Len(b)) /\ ~((at + 7) + Len(p) > Len(b))
    <3>1. (at + 7) + n <= l
      BY <2>3, <2>6
    <3>2. ~(at + 7 > l) /\ ~((at + 7) + n > l)
      BY <1>4, <2>6, <3>1
    <3> QED
      BY <2>6, <3>2
  <2>8. NextTuple(st, b, cols, toast)
          = [st EXCEPT !.off = (at + 7) + Len(p),
                       !.out = Append(@, decode_tuple_payload(Slice(b, at + 7, Len(p)), Len(t),
                                           HasNulls(t), THoff(t), cols, toast, <<>>))]
    BY <2>2, <2>5, <2>7 DEF NextTuple, MultiHeader
  <2> QED
    BY <1>10, <2>3, <2>4, <2>8 DEF Batch
<1> QED
  BY <1>1, <1>10, <1>11, <1>13, <1>14 DEF LaidAs

\* decode_multi_insert: the second of two tuples.
LEMMA MultiReads ==
    ASSUME NEW cols, IsTable(cols), NEW t, IsTuple(cols, t), NEW toast
    PROVE  decode_multi_insert(MultiData(cols, <<t, t>>), 2, cols, toast)[2]
             = decode_tuple_payload(Payload(cols, t), Len(t), HasNulls(t), THoff(t), cols, toast, <<>>)
<1>1. PICK ts : ts = <<t, t>>
  OBVIOUS
<1>2. Len(ts) = 2 /\ ts[1] = t /\ ts[2] = t
  BY <1>1
<1>3. PICK M : /\ MultiData(cols, ts) = M[2] /\ M[0] = <<>>
               /\ M[1] = MultiTuple(M[0], cols, t) /\ M[2] = MultiTuple(M[1], cols, t)
  <2>1. PICK N : /\ MultiData(cols, ts) = N[Len(ts)]
                 /\ N[0] = <<>>
                 /\ \A k \in 0 .. Len(ts) : k + 1 <= Len(ts) => N[k + 1] = MultiTuple(N[k], cols, ts[k + 1])
    <3>1. Len(ts) \in Nat
      BY <1>2
    <3> QED
      BY <3>1, MultisAre
  <2>2. N[0 + 1] = MultiTuple(N[0], cols, ts[0 + 1])
    BY <1>2, <2>1
  <2>3. N[1 + 1] = MultiTuple(N[1], cols, ts[1 + 1])
    BY <1>2, <2>1
  <2>4. 0 + 1 = 1 /\ 1 + 1 = 2
    OBVIOUS
  <2> QED
    BY <1>2, <2>1, <2>2, <2>3, <2>4
<1>4. PICK b : b = M[2]
  OBVIOUS
<1>5. PICK D : /\ decode_multi_insert(b, 2, cols, toast) = IF D[2].bad THEN <<Bad>> ELSE D[2].out
               /\ D[0] = MultiStart
               /\ D[1] = NextTuple(D[0], b, cols, toast) /\ D[2] = NextTuple(D[1], b, cols, toast)
  <2>1. PICK n \in Nat : n = 2
    OBVIOUS
  <2>2. PICK E : /\ decode_multi_insert(b, n, cols, toast) = IF E[n].bad THEN <<Bad>> ELSE E[n].out
                 /\ E[0] = MultiStart
                 /\ \A k \in 0 .. n : k + 1 <= n => E[k + 1] = NextTuple(E[k], b, cols, toast)
    BY ReadsAre
  <2>3. E[0 + 1] = NextTuple(E[0], b, cols, toast)
    BY <2>1, <2>2
  <2>4. E[1 + 1] = NextTuple(E[1], b, cols, toast)
    BY <2>1, <2>2
  <2>5. 0 + 1 = 1 /\ 1 + 1 = 2
    OBVIOUS
  <2> QED
    BY <2>1, <2>2, <2>3, <2>4, <2>5
<1>6. IsSeq(<<>>)
  BY ShortSeqs
<1>7. PICK d : d = decode_tuple_payload(Payload(cols, t), Len(t), HasNulls(t), THoff(t), cols, toast, <<>>)
  OBVIOUS
<1>8. IsSeq(M[1])
  <2>1. LaidAs(<<>>, <<>>, M[1], cols, t, toast)
    BY <1>3, <1>6, TupleReads
  <2> QED
    BY <2>1 DEF LaidAs
<1>9. IsSeq(b)
  <2>1. LaidAs(<<>>, M[1], M[2], cols, t, toast)
    BY <1>3, <1>6, <1>8, TupleReads
  <2> QED
    BY <1>4, <2>1 DEF LaidAs
<1>10. LaidAs(b, <<>>, M[1], cols, t, toast)
  BY <1>3, <1>6, <1>9, TupleReads
<1>11. LaidAs(b, M[1], M[2], cols, t, toast)
  BY <1>3, <1>8, <1>9, TupleReads
<1>12. Lies(b, 0, M[2])
  BY <1>4, <1>9, LiesWhole
<1>13. Lies(b, 0, M[1]) /\ \A out : NextTuple(Batch(Len(M[1]), out), b, cols, toast) = Batch(Len(M[2]), Append(out, d))
  BY <1>7, <1>11, <1>12 DEF LaidAs
<1>14. \A out : NextTuple(Batch(Len(<<>>), out), b, cols, toast) = Batch(Len(M[1]), Append(out, d))
  BY <1>7, <1>10, <1>13 DEF LaidAs
<1>15. D[0] = Batch(Len(<<>>), <<>>)
  BY <1>5 DEF MultiStart, Batch
<1>16. D[1] = Batch(Len(M[1]), Append(<<>>, d))
  BY <1>5, <1>14, <1>15
<1>17. D[2] = Batch(Len(M[2]), Append(Append(<<>>, d), d))
  BY <1>5, <1>13, <1>16
<1>18. D[2].bad = FALSE /\ D[2].out = Append(Append(<<>>, d), d)
  BY <1>17 DEF Batch
<1>19. Append(Append(<<>>, d), d)[2] = d
  OBVIOUS
<1> QED
  BY <1>1, <1>3, <1>4, <1>5, <1>7, <1>18, <1>19

-----------------------------------------------------------------------------
\* Rows.

\* One element for each live column.
Sifting(R, cols, f) ==
    /\ R[0] = <<>>
    /\ \A k \in 0 .. Len(cols) : k + 1 <= Len(cols) => R[k + 1] = RowStep(R[k], cols[k + 1], f[k + 1])

\* These are sequences.
LEMMA SiftSeqs ==
    ASSUME NEW cols, NEW n \in Nat, n = Len(cols), NEW f, NEW R, Sifting(R, cols, f)
    PROVE  \A k \in 0 .. n : IsSeq(R[k]) /\ Len(R[k]) \in Nat
<1> DEFINE S == {m \in Nat : m <= n => IsSeq(R[m])}
<1>1. 0 \in S
  BY ShortSeqs DEF Sifting
<1>2. ASSUME NEW m \in Nat, m \in S PROVE m + 1 \in S
  <2> SUFFICES ASSUME m + 1 <= n PROVE IsSeq(R[m + 1])
    OBVIOUS
  <2>1. IsSeq(R[m]) /\ m \in 0 .. Len(cols)
    BY <1>2
  <2>2. R[m + 1] = RowStep(R[m], cols[m + 1], f[m + 1])
    BY <2>1 DEF Sifting
  <2>3. IsSeq(Append(R[m], f[m + 1]))
    BY <2>1, AppendIs
  <2> QED
    BY <2>1, <2>2, <2>3 DEF RowStep
<1> HIDE DEF S
<1>3. \A m \in Nat : m \in S
  BY <1>1, <1>2, Inductive
<1>4. ASSUME NEW k \in 0 .. n PROVE IsSeq(R[k]) /\ Len(R[k]) \in Nat
  <2>1. IsSeq(R[k])
    BY <1>3 DEF S
  <2> QED
    BY <2>1, SeqLen
<1> QED
  BY <1>4

\* A round of it.
RowGrows(R, m, live, x) ==
    /\ IsSeq(R[m]) /\ IsSeq(R[m + 1]) /\ Len(R[m]) \in Nat
    /\ Len(R[m + 1]) = Len(R[m]) + (IF live THEN 1 ELSE 0)
    /\ \A j \in 1 .. Len(R[m]) : R[m + 1][j] = R[m][j]
    /\ live => R[m + 1][Len(R[m]) + 1] = x

\* How one round changes them.
LEMMA SiftRound ==
    ASSUME NEW cols, NEW n \in Nat, n = Len(cols), NEW f, NEW R, Sifting(R, cols, f), NEW m \in Nat, m + 1 <= n
    PROVE  RowGrows(R, m, cols[m + 1].live, f[m + 1])
<1>1. m \in 0 .. n /\ m + 1 \in 0 .. n /\ m \in 0 .. Len(cols)
  OBVIOUS
<1>2. PICK r, s, x : r = R[m] /\ s = R[m + 1] /\ x = f[m + 1]
  OBVIOUS
<1>3. IsSeq(r) /\ IsSeq(s) /\ Len(r) \in Nat
  BY <1>1, <1>2, SiftSeqs
<1>4. s = RowStep(r, cols[m + 1], x)
  BY <1>1, <1>2 DEF Sifting
<1>5. CASE cols[m + 1].live
  <2>1. s = Append(r, x)
    BY <1>4, <1>5 DEF RowStep
  <2>2. /\ Len(Append(r, x)) = Len(r) + 1 /\ Append(r, x)[Len(r) + 1] = x
        /\ \A k \in 1 .. Len(r) : Append(r, x)[k] = r[k]
    BY <1>3, AppendIs
  <2> QED
    BY <1>2, <1>3, <1>5, <2>1, <2>2 DEF RowGrows
<1>6. CASE ~cols[m + 1].live
  <2>1. s = r
    BY <1>4, <1>6 DEF RowStep
  <2> QED
    BY <1>2, <1>3, <1>6, <2>1 DEF RowGrows
<1> QED
  BY <1>5, <1>6

\* Their length depends on the columns only.
LEMMA SiftLens ==
    ASSUME NEW cols, NEW n \in Nat, n = Len(cols), NEW f, NEW R, Sifting(R, cols, f), NEW g, NEW Q, Sifting(Q, cols, g)
    PROVE  \A k \in 0 .. n : Len(R[k]) = Len(Q[k])
<1> DEFINE S == {m \in Nat : m <= n => Len(R[m]) = Len(Q[m])}
<1>1. 0 \in S
  BY DEF Sifting
<1>2. ASSUME NEW m \in Nat, m \in S PROVE m + 1 \in S
  <2> SUFFICES ASSUME m + 1 <= n PROVE Len(R[m + 1]) = Len(Q[m + 1])
    OBVIOUS
  <2>1. Len(R[m]) = Len(Q[m])
    BY <1>2
  <2>2. RowGrows(R, m, cols[m + 1].live, f[m + 1])
    BY SiftRound
  <2>3. RowGrows(Q, m, cols[m + 1].live, g[m + 1])
    BY SiftRound
  <2> QED
    BY <2>1, <2>2, <2>3 DEF RowGrows
<1> HIDE DEF S
<1>3. \A m \in Nat : m \in S
  BY <1>1, <1>2, Inductive
<1> QED
  BY <1>3 DEF S

\* What is in a row stays where it is.
LEMMA SiftKeeps ==
    ASSUME NEW cols, NEW n \in Nat, n = Len(cols), NEW f, NEW R, Sifting(R, cols, f), NEW k \in 0 .. n
    PROVE  Len(R[k]) <= Len(R[n]) /\ \A j \in 1 .. Len(R[k]) : R[n][j] = R[k][j]
<1>1. \A i \in 0 .. n : IsSeq(R[i]) /\ Len(R[i]) \in Nat
  BY SiftSeqs
<1> DEFINE S == {m \in Nat : k + m <= n => /\ Len(R[k]) <= Len(R[k + m])
                                           /\ \A j \in 1 .. Len(R[k]) : R[k + m][j] = R[k][j]}
<1>2. 0 \in S
  <2>1. k + 0 = k /\ Len(R[k]) \in Nat
    BY <1>1
  <2> QED
    BY <2>1
<1>3. ASSUME NEW m \in Nat, m \in S PROVE m + 1 \in S
  <2> SUFFICES ASSUME k + (m + 1) <= n
               PROVE  Len(R[k]) <= Len(R[k + (m + 1)]) /\ \A j \in 1 .. Len(R[k]) : R[k + (m + 1)][j] = R[k][j]
    OBVIOUS
  <2>1. PICK i \in Nat : i = k + m
    OBVIOUS
  <2>2. k + (m + 1) = i + 1 /\ i + 1 <= n /\ i \in 0 .. n
    BY <2>1
  <2>3. Len(R[k]) <= Len(R[i]) /\ \A j \in 1 .. Len(R[k]) : R[i][j] = R[k][j]
    BY <1>3, <2>1, <2>2
  <2>4. /\ Len(R[i + 1]) = Len(R[i]) + (IF cols[i + 1].live THEN 1 ELSE 0)
        /\ \A j \in 1 .. Len(R[i]) : R[i + 1][j] = R[i][j]
    <3>1. RowGrows(R, i, cols[i + 1].live, f[i + 1])
      BY <2>2, SiftRound
    <3> QED
      BY <3>1 DEF RowGrows
  <2>5. PICK a, b, c : a = Len(R[k]) /\ b = Len(R[i]) /\ c = Len(R[i + 1])
    OBVIOUS
  <2>6. a \in Nat /\ b \in Nat /\ a <= b /\ c \in {b, b + 1}
    <3>1. a \in Nat /\ b \in Nat
      BY <1>1, <2>2, <2>5
    <3>2. a <= b
      BY <2>3, <2>5
    <3>3. c = b + (IF cols[i + 1].live THEN 1 ELSE 0)
      BY <2>4, <2>5
    <3> QED
      BY <3>1, <3>2, <3>3
  <2>7. a <= c /\ \A j \in 1 .. a : j \in 1 .. b
    BY <2>6
  <2> QED
    BY <2>2, <2>3, <2>4, <2>5, <2>7
<1> HIDE DEF S
<1>4. \A m \in Nat : m \in S
  BY <1>2, <1>3, Inductive
<1>5. n - k \in Nat /\ k + (n - k) = n
  OBVIOUS
<1>6. n - k \in S
  BY <1>4, <1>5
<1> QED
  BY <1>5, <1>6 DEF S

\* The value of a live column.
LEMMA SiftHolds ==
    ASSUME NEW cols, NEW n \in Nat, n = Len(cols), NEW f, NEW R, Sifting(R, cols, f),
           NEW k \in Nat, k + 1 <= n, cols[k + 1].live
    PROVE  Len(R[k]) \in Nat /\ Len(R[k]) < Len(R[n]) /\ R[n][Len(R[k]) + 1] = f[k + 1]
<1>1. /\ Len(R[k]) \in Nat /\ Len(R[k + 1]) = Len(R[k]) + 1
      /\ R[k + 1][Len(R[k]) + 1] = f[k + 1]
  <2>1. RowGrows(R, k, cols[k + 1].live, f[k + 1])
    BY SiftRound
  <2> QED
    BY <2>1 DEF RowGrows
<1>2. k + 1 \in 0 .. n /\ n \in 0 .. n
  OBVIOUS
<1>3. Len(R[k + 1]) <= Len(R[n]) /\ \A j \in 1 .. Len(R[k + 1]) : R[n][j] = R[k + 1][j]
  BY <1>2, SiftKeeps
<1>4. Len(R[n]) \in Nat
  BY <1>2, SiftSeqs
<1>5. Len(R[k]) + 1 \in 1 .. Len(R[k + 1])
  BY <1>1
<1> QED
  BY <1>1, <1>3, <1>4, <1>5

\* The values of a tuple's columns.
ColumnValues(cols, t) == [i \in 1 .. Len(cols) |-> ColumnValue(cols, t, i)]

\* A row is made that way.
LEMMA RowSifts ==
    ASSUME NEW cols, NEW n \in Nat, n = Len(cols), NEW t, NEW R, Rowing(R, cols, t), NEW f, f = ColumnValues(cols, t)
    PROVE  Sifting(R, cols, f) /\ \A k \in Nat : k + 1 <= n => f[k + 1] = ColumnValue(cols, t, k + 1)
<1>1. ASSUME NEW k \in Nat, k + 1 <= n PROVE f[k + 1] = ColumnValue(cols, t, k + 1)
  <2>1. k + 1 \in 1 .. Len(cols)
    BY <1>1
  <2> QED
    BY <2>1 DEF ColumnValues
<1>2. ASSUME NEW k \in 0 .. Len(cols), k + 1 <= Len(cols) PROVE R[k + 1] = RowStep(R[k], cols[k + 1], f[k + 1])
  <2>1. k \in Nat /\ k + 1 <= n
    BY <1>2
  <2>2. f[k + 1] = ColumnValue(cols, t, k + 1)
    BY <1>1, <2>1
  <2>3. R[k + 1] = RowStep(R[k], cols[k + 1], ColumnValue(cols, t, k + 1))
    BY <1>2 DEF Rowing
  <2> QED
    BY <2>2, <2>3
<1>3. R[0] = <<>>
  BY DEF Rowing
<1> QED
  BY <1>1, <1>2, <1>3 DEF Sifting

\* So rows are sequences.
LEMMA RowSeqs ==
    ASSUME NEW cols, NEW n \in Nat, n = Len(cols), NEW t, NEW R, Rowing(R, cols, t)
    PROVE  \A k \in 0 .. n : IsSeq(R[k]) /\ Len(R[k]) \in Nat
<1>1. PICK f : f = ColumnValues(cols, t)
  OBVIOUS
<1>2. Sifting(R, cols, f)
  BY <1>1, RowSifts
<1> QED
  BY <1>2, SiftSeqs

\* Two rows of a table are equally long.
LEMMA RowLens ==
    ASSUME NEW cols, NEW n \in Nat, n = Len(cols), NEW t, NEW R, Rowing(R, cols, t), NEW u, NEW Q, Rowing(Q, cols, u)
    PROVE  \A k \in 0 .. n : Len(R[k]) = Len(Q[k])
<1>1. PICK f, g : f = ColumnValues(cols, t) /\ g = ColumnValues(cols, u)
  OBVIOUS
<1>2. Sifting(R, cols, f) /\ Sifting(Q, cols, g)
  BY <1>1, RowSifts
<1> QED
  BY <1>2, SiftLens

\* The value of a live column has its place in the row.
LEMMA RowHolds ==
    ASSUME NEW cols, NEW n \in Nat, n = Len(cols), NEW t, NEW R, Rowing(R, cols, t),
           NEW k \in Nat, k + 1 <= n, cols[k + 1].live
    PROVE  Len(R[k]) \in Nat /\ Len(R[k]) < Len(R[n]) /\ R[n][Len(R[k]) + 1] = ColumnValue(cols, t, k + 1)
<1>1. PICK f : f = ColumnValues(cols, t)
  OBVIOUS
<1>2. Sifting(R, cols, f) /\ f[k + 1] = ColumnValue(cols, t, k + 1)
  BY <1>1, RowSifts
<1>3. Len(R[k]) \in Nat /\ Len(R[k]) < Len(R[n]) /\ R[n][Len(R[k]) + 1] = f[k + 1]
  BY <1>2, SiftHolds
<1> QED
  BY <1>2, <1>3

\* A table with a live column has no empty row.
LEMMA RowThere ==
    ASSUME NEW cols, IsTable(cols), NEW i \in 1 .. Len(cols), cols[i].live, NEW t
    PROVE  RowOf(cols, t) # <<>>
<1>1. PICK n \in Nat : n = Len(cols)
  BY SeqLen DEF IsTable
<1>2. PICK R : Rowing(R, cols, t) /\ RowOf(cols, t) = R[Len(cols)]
  BY RowingIs
<1>3. PICK k \in Nat : k + 1 = i
  <2>1. i - 1 \in Nat /\ (i - 1) + 1 = i
    BY <1>1
  <2> QED
    BY <2>1
<1>4. k + 1 <= n /\ cols[k + 1].live
  BY <1>1, <1>3
<1>5. Len(R[k]) \in Nat /\ Len(R[k]) < Len(R[n])
  BY <1>1, <1>2, <1>4, RowHolds
<1>6. Len(R[n]) # 0
  <2>1. n \in 0 .. n
    OBVIOUS
  <2>2. Len(R[n]) \in Nat
    BY <1>1, <1>2, <2>1, RowSeqs
  <2> QED
    BY <1>5, <2>2
<1> QED
  BY <1>1, <1>2, <1>6

-----------------------------------------------------------------------------
\* Out-of-line values that come with the record, and those that do not.

\* An out-of-line value is among those of its tuple.
LEMMA ExternalIn ==
    ASSUME NEW t, IsSeq(t), NEW k \in Nat, k + 1 <= Len(t), t[k + 1].form \in External
    PROVE  ValueId(k + 1, t[k + 1]) \in ExternalOf(t)
<1>1. DOMAIN t = 1 .. Len(t) /\ Len(t) \in Nat
  BY SeqLen
<1>2. k + 1 \in DOMAIN t
  BY <1>1
<1>3. k + 1 \in {j \in DOMAIN t : t[j].form \in External}
  BY <1>2
<1> QED
  BY <1>3 DEF ExternalOf

\* With all chunks there the previous version is not needed.
LEMMA FreshDecodes ==
    ASSUME NEW cols, IsTable(cols), NEW t, IsTuple(cols, t), NEW toast, NEW ids, NEW all, Serves(toast, ids, all)
    PROVE  Ends(decode_tuple_payload(Payload(cols, t), Len(t), HasNulls(t), THoff(t), cols, toast, <<>>),
                cols, t, all /\ ExternalOf(t) \subseteq ids)
<1>1. PICK n, m \in Nat : n = Len(cols) /\ m = Len(t) /\ m <= n
  BY SeqLen DEF IsTable, IsTuple
<1>2. PICK R : Rowing(R, cols, t) /\ RowOf(cols, t) = R[Len(cols)]
  BY RowingIs
<1>3. OldFits(<<>>, R, cols, t, ids)
  <2> SUFFICES ASSUME NEW k \in 0 .. Len(t), k + 1 <= Len(t) PROVE Backed(<<>>, R[k], cols[k + 1], t[k + 1])
    BY DEF OldFits
  <2>1. k \in 0 .. n
    BY <1>1
  <2>2. Len(R[k]) \in Nat
    BY <1>1, <1>2, <2>1, RowSeqs
  <2>3. ~(Len(R[k]) < Len(<<>>))
    BY <2>2
  <2> QED
    BY <2>3 DEF Backed
<1>4. ExternalOf(t) \subseteq ids => OldHas(<<>>, R, cols, t, ids)
  <2> SUFFICES ASSUME ExternalOf(t) \subseteq ids, NEW k \in 0 .. Len(t), k + 1 <= Len(t)
               PROVE  ~Missing(cols[k + 1], k + 1, t[k + 1], ids)
    BY DEF OldHas
  <2>1. k \in Nat
    BY <1>1
  <2>2. t[k + 1].form \in External => ValueId(k + 1, t[k + 1]) \in ExternalOf(t)
    BY <2>1, ExternalIn DEF IsTuple
  <2> QED
    BY <2>2 DEF Missing
<1>5. PICK d : d = decode_tuple_payload(Payload(cols, t), Len(t), HasNulls(t), THoff(t), cols, toast, <<>>)
  OBVIOUS
<1>6. Ends(d, cols, t, all /\ OldHas(<<>>, R, cols, t, ids))
  BY <1>2, <1>3, <1>5, PayloadDecodes
<1>7. Ends(d, cols, t, all /\ ExternalOf(t) \subseteq ids)
  BY <1>4, <1>6 DEF Ends
<1> QED
  BY <1>5, <1>7

\* An out-of-line value left alone is in the old row.
LEMMA KeptBacked ==
    ASSUME NEW cols, IsTable(cols), NEW t, IsTuple(cols, t), NEW u, IsTuple(cols, u),
           NEW R, Rowing(R, cols, u), NEW k \in Nat, k + 1 <= Len(u),
           Missing(cols[k + 1], k + 1, u[k + 1], Logged(t, u))
    PROVE  /\ Len(R[k]) < Len(RowOf(cols, t)) /\ RowOf(cols, t)[Len(R[k]) + 1] = Shown(cols[k + 1], u[k + 1])
           /\ Kept(t, u) # {}
<1>1. PICK n \in Nat : n = Len(cols) /\ Len(t) \in Nat /\ Len(u) \in Nat /\ Len(u) <= n /\ DOMAIN t = 1 .. Len(t)
  BY SeqLen DEF IsTable, IsTuple
<1>2. PICK a : a = u[k + 1]
  OBVIOUS
<1>3. cols[k + 1].live /\ a.form \in External /\ ValueId(k + 1, a) \notin Logged(t, u)
  BY <1>2 DEF Missing
<1>4. ValueId(k + 1, a) \in ExternalOf(u)
  BY <1>2, <1>3, ExternalIn DEF IsTuple
<1>5. ValueId(k + 1, a) \in Kept(t, u)
  BY <1>3, <1>4 DEF Logged
<1>6. PICK j \in DOMAIN t : ValueId(k + 1, a) = ValueId(j, t[j])
  BY <1>5 DEF Kept, ExternalOf
<1>7. j = k + 1 /\ t[j] = a
  BY <1>6 DEF ValueId
<1>8. k + 1 <= Len(t) /\ t[k + 1] = a
  BY <1>1, <1>7
<1>9. ColumnValue(cols, t, k + 1) = Shown(cols[k + 1], a)
  <2>1. ~(k + 1 > Len(t))
    BY <1>1, <1>8
  <2>2. a.form # "null"
    BY <1>3 DEF External
  <2> QED
    BY <1>8, <2>1, <2>2 DEF ColumnValue
<1>10. PICK Q : Rowing(Q, cols, t) /\ RowOf(cols, t) = Q[Len(cols)]
  BY RowingIs
<1>11. k + 1 <= n /\ k \in 0 .. n
  BY <1>1
<1>12. Len(Q[k]) < Len(Q[n]) /\ Q[n][Len(Q[k]) + 1] = ColumnValue(cols, t, k + 1)
  <2>1. cols[k + 1].live
    BY <1>3
  <2> QED
    BY <1>1, <1>10, <1>11, <2>1, RowHolds
<1>13. Len(R[k]) = Len(Q[k])
  BY <1>1, <1>10, <1>11, RowLens
<1>14. PICK row, j1 : row = RowOf(cols, t) /\ j1 = Len(R[k])
  OBVIOUS
<1>15. j1 < Len(row) /\ row[j1 + 1] = Shown(cols[k + 1], a)
  BY <1>1, <1>9, <1>10, <1>12, <1>13, <1>14
<1> QED
  BY <1>2, <1>5, <1>14, <1>15

\* With the logged chunks, and the previous row for the others.
LEMMA KeptDecodes ==
    ASSUME NEW cols, IsTable(cols), NEW t, IsTuple(cols, t), NEW u, IsTuple(cols, u), NEW toast, NEW all,
           Serves(toast, Logged(t, u), all), NEW old, old \in {<<>>, RowOf(cols, t)}
    PROVE  Ends(decode_tuple_payload(Payload(cols, u), Len(u), HasNulls(u), THoff(u), cols, toast, old),
                cols, u, all /\ (old # <<>> \/ Kept(t, u) = {}))
<1>1. PICK n, m \in Nat : n = Len(cols) /\ m = Len(u) /\ m <= n
  BY SeqLen DEF IsTable, IsTuple
<1>2. PICK R : Rowing(R, cols, u) /\ RowOf(cols, u) = R[Len(cols)]
  BY RowingIs
<1>3. PICK ids : ids = Logged(t, u)
  OBVIOUS
<1>4. ASSUME NEW k \in 0 .. Len(u), k + 1 <= Len(u), Missing(cols[k + 1], k + 1, u[k + 1], ids)
      PROVE  /\ Len(R[k]) < Len(RowOf(cols, t)) /\ RowOf(cols, t)[Len(R[k]) + 1] = Shown(cols[k + 1], u[k + 1])
             /\ Kept(t, u) # {} /\ Len(R[k]) \in Nat
  <2>1. k \in Nat /\ k \in 0 .. n
    BY <1>1
  <2>2. Len(R[k]) \in Nat
    BY <1>1, <1>2, <2>1, RowSeqs
  <2>3. Missing(cols[k + 1], k + 1, u[k + 1], Logged(t, u))
    BY <1>3, <1>4
  <2>4. /\ Len(R[k]) < Len(RowOf(cols, t)) /\ RowOf(cols, t)[Len(R[k]) + 1] = Shown(cols[k + 1], u[k + 1])
        /\ Kept(t, u) # {}
    BY <1>2, <1>4, <2>1, <2>3, KeptBacked
  <2> QED
    BY <2>2, <2>4
<1>5. OldFits(old, R, cols, u, ids)
  <2> SUFFICES ASSUME NEW k \in 0 .. Len(u), k + 1 <= Len(u), Missing(cols[k + 1], k + 1, u[k + 1], ids)
               PROVE  Backed(old, R[k], cols[k + 1], u[k + 1])
    BY DEF OldFits
  <2>1. RowOf(cols, t)[Len(R[k]) + 1] = Shown(cols[k + 1], u[k + 1]) /\ Len(R[k]) \in Nat
    BY <1>4
  <2>2. CASE old = <<>>
    <3>1. ~(Len(R[k]) < Len(<<>>))
      BY <2>1
    <3> QED
      BY <2>2, <3>1 DEF Backed
  <2>3. CASE old = RowOf(cols, t)
    BY <2>1, <2>3 DEF Backed
  <2> QED
    BY <2>2, <2>3
<1>6. (old # <<>> \/ Kept(t, u) = {}) => OldHas(old, R, cols, u, ids)
  <2> SUFFICES ASSUME old # <<>> \/ Kept(t, u) = {}, NEW k \in 0 .. Len(u), k + 1 <= Len(u),
                      Missing(cols[k + 1], k + 1, u[k + 1], ids)
               PROVE  Len(R[k]) < Len(old)
    BY DEF OldHas
  <2>1. Len(R[k]) < Len(RowOf(cols, t)) /\ Kept(t, u) # {}
    BY <1>4
  <2> QED
    BY <2>1
<1>7. PICK d : d = decode_tuple_payload(Payload(cols, u), Len(u), HasNulls(u), THoff(u), cols, toast, old)
  OBVIOUS
<1>8. Ends(d, cols, u, all /\ OldHas(old, R, cols, u, ids))
  BY <1>2, <1>3, <1>5, <1>7, PayloadDecodes
<1>9. Ends(d, cols, u, all /\ (old # <<>> \/ Kept(t, u) = {}))
  BY <1>6, <1>8 DEF Ends
<1> QED
  BY <1>7, <1>9

-----------------------------------------------------------------------------
\* What two attribute areas share.

\* A bounded set of numbers has a greatest element.
LEMMA MaxExists ==
    ASSUME NEW n \in Nat, NEW S, S \subseteq 0 .. n, S # {}
    PROVE  \E x \in S : \A y \in S : x >= y
<1> DEFINE Good(m) == \A T : T \subseteq 0 .. m /\ T # {} => \E x \in T : \A y \in T : x >= y
           N == {m \in Nat : Good(m)}
<1>1. 0 \in N
  <2> SUFFICES ASSUME NEW T, T \subseteq 0 .. 0, T # {} PROVE \E x \in T : \A y \in T : x >= y
    OBVIOUS
  <2>1. \A x \in T : x = 0
    OBVIOUS
  <2>2. PICK w : w \in T
    OBVIOUS
  <2>3. w = 0 /\ 0 >= 0
    BY <2>1, <2>2
  <2>4. \A y \in T : w >= y
    BY <2>1, <2>3
  <2> QED
    BY <2>2, <2>4
<1>2. ASSUME NEW m \in Nat, m \in N PROVE m + 1 \in N
  <2> SUFFICES ASSUME NEW T, T \subseteq 0 .. m + 1, T # {} PROVE \E x \in T : \A y \in T : x >= y
    OBVIOUS
  <2>1. CASE m + 1 \in T
    BY <2>1
  <2>2. CASE m + 1 \notin T
    <3>1. T \subseteq 0 .. m
      <4> SUFFICES ASSUME NEW x \in T PROVE x \in 0 .. m
        OBVIOUS
      <4>1. x \in 0 .. m + 1 /\ x # m + 1
        BY <2>2
      <4> QED
        BY <4>1
    <3>2. Good(m)
      BY <1>2
    <3> QED
      BY <3>1, <3>2
  <2> QED
    BY <2>1, <2>2
<1> HIDE DEF N, Good
<1>3. n \in N
  BY <1>1, <1>2, Inductive
<1>4. Good(n)
  BY <1>3 DEF N
<1> QED
  BY <1>4 DEF Good

\* Max is it.
LEMMA MaxIs ==
    ASSUME NEW n \in Nat, NEW S, S \subseteq 0 .. n, S # {}
    PROVE  Max(S) \in S
<1>1. \E x \in S : \A y \in S : x >= y
  BY MaxExists
<1> QED
  BY <1>1 DEF Max

\* The lesser of two.
LEMMA Min2 ==
    ASSUME NEW a \in Nat, NEW b \in Nat
    PROVE  Min({a, b}) \in Nat /\ Min({a, b}) <= a /\ Min({a, b}) <= b
<1>1. \E x \in {a, b} : \A y \in {a, b} : x <= y
  <2>1. CASE a <= b
    BY <2>1
  <2>2. CASE b <= a
    BY <2>2
  <2> QED
    BY <2>1, <2>2
<1>2. Min({a, b}) \in {a, b} /\ \A y \in {a, b} : Min({a, b}) <= y
  BY <1>1 DEF Min
<1> QED
  BY <1>2

\* The least of three.
LEMMA Min3 ==
    ASSUME NEW a \in Nat, NEW b \in Nat, NEW c \in Nat
    PROVE  Min({a, b, c}) \in Nat /\ Min({a, b, c}) <= a /\ Min({a, b, c}) <= b /\ Min({a, b, c}) <= c
<1>1. \E x \in {a, b, c} : \A y \in {a, b, c} : x <= y
  <2>1. CASE a <= b /\ a <= c
    BY <2>1
  <2>2. CASE b <= a /\ b <= c
    BY <2>2
  <2>3. CASE c <= a /\ c <= b
    BY <2>3
  <2> QED
    BY <2>1, <2>2, <2>3
<1>2. Min({a, b, c}) \in {a, b, c} /\ \A y \in {a, b, c} : Min({a, b, c}) <= y
  BY <1>1 DEF Min
<1> QED
  BY <1>2

\* Shared is a common prefix.
LEMMA SharedIs ==
    ASSUME NEW a, IsSeq(a), NEW b, IsSeq(b), NEW n, n = Shared(a, b)
    PROVE  n \in Nat /\ n <= Len(a) /\ n <= Len(b) /\ \A k \in 1 .. n : a[k] = b[k]
<1>1. PICK la, lb \in Nat : la = Len(a) /\ lb = Len(b)
  BY SeqLen
<1>2. PICK m \in Nat : m = Min({la, lb}) /\ m <= la /\ m <= lb
  BY Min2
<1> DEFINE S == {0} \cup {i \in 1 .. m : SubSeq(a, 1, i) = SubSeq(b, 1, i)}
<1>3. S \subseteq 0 .. m /\ S # {}
  OBVIOUS
<1>4. n = Max(S)
  BY <1>1, <1>2 DEF Shared
<1>5. n \in S
  <2> HIDE DEF S
  <2> QED
    BY <1>3, <1>4, MaxIs
<1>6. CASE n = 0
  BY <1>1, <1>6
<1>7. CASE n \in 1 .. m /\ SubSeq(a, 1, n) = SubSeq(b, 1, n)
  <2>1. n \in Nat /\ 1 <= n /\ n <= la /\ n <= lb
    BY <1>2, <1>7
  <2>2. \A k \in 1 .. n : SubSeq(a, 1, n)[k] = a[k]
    <3>1. \A k \in 1 .. n + 1 - 1 : SubSeq(a, 1, n)[k] = a[1 - 1 + k]
      BY <1>1, <2>1, Part
    <3> QED
      BY <2>1, <3>1
  <2>3. \A k \in 1 .. n : SubSeq(b, 1, n)[k] = b[k]
    <3>1. \A k \in 1 .. n + 1 - 1 : SubSeq(b, 1, n)[k] = b[1 - 1 + k]
      BY <1>1, <2>1, Part
    <3> QED
      BY <2>1, <3>1
  <2> QED
    BY <1>1, <1>7, <2>1, <2>2, <2>3
<1> QED
  BY <1>5, <1>6, <1>7

\* A sequence from the back.
LEMMA ReverseIs ==
    ASSUME NEW s, IsSeq(s)
    PROVE  /\ IsSeq(Reverse(s)) /\ Len(Reverse(s)) = Len(s)
           /\ \A k \in 1 .. Len(s) : Reverse(s)[k] = s[(Len(s) - k) + 1]
<1>1. Len(s) \in Nat
  BY SeqLen
<1>2. PICK r : r = Reverse(s)
  OBVIOUS
<1>3. r = [k \in 1 .. Len(s) |-> s[(Len(s) - k) + 1]]
  BY <1>2 DEF Reverse
<1>4. r = [k \in 1 .. Len(s) |-> r[k]]
  BY <1>3
<1>5. IsSeq(r) /\ Len(r) = Len(s)
  BY <1>1, <1>4, FunSeq
<1> QED
  BY <1>2, <1>3, <1>5

\* Nothing is taken twice, and what is left out of a is in o.
Shares(o, a, p, s) ==
    /\ p \in Nat /\ s \in Nat /\ p + s <= Len(a) /\ p + s <= Len(o)
    /\ \A k \in 1 .. p : o[k] = a[k]
    /\ \A k \in 1 .. s : o[(Len(o) - k) + 1] = a[(Len(a) - k) + 1]

\* What an UPDATE leaves out is such a part.
LEMMA SharesIs ==
    ASSUME NEW o, IsSeq(o), NEW a, IsSeq(a), NEW p \in {0, Shared(o, a)}, NEW s \in {0, SharedEnd(o, a, p)}
    PROVE  Shares(o, a, p, s)
<1>1. PICK lo, la \in Nat : lo = Len(o) /\ la = Len(a)
  BY SeqLen
<1>2. p \in Nat /\ p <= lo /\ p <= la /\ \A k \in 1 .. p : o[k] = a[k]
  <2>1. CASE p = 0
    BY <1>1, <2>1
  <2>2. CASE p = Shared(o, a)
    BY <1>1, <2>2, SharedIs
  <2> QED
    BY <2>1, <2>2
<1>3. /\ s \in Nat /\ s <= la - p /\ s <= lo - p
      /\ \A k \in 1 .. s : o[(Len(o) - k) + 1] = a[(Len(a) - k) + 1]
  <2>1. CASE s = 0
    BY <1>1, <1>2, <2>1
  <2>2. CASE s = SharedEnd(o, a, p)
    <3>1. /\ IsSeq(Reverse(o)) /\ Len(Reverse(o)) = Len(o)
          /\ \A k \in 1 .. Len(o) : Reverse(o)[k] = o[(Len(o) - k) + 1]
      BY ReverseIs
    <3>2. /\ IsSeq(Reverse(a)) /\ Len(Reverse(a)) = Len(a)
          /\ \A k \in 1 .. Len(a) : Reverse(a)[k] = a[(Len(a) - k) + 1]
      BY ReverseIs
    <3>3. PICK ro, ra : ro = Reverse(o) /\ ra = Reverse(a)
      OBVIOUS
    <3>4. PICK n : n = Shared(ro, ra)
      OBVIOUS
    <3>5. n \in Nat /\ n <= Len(ro) /\ n <= Len(ra) /\ \A k \in 1 .. n : ro[k] = ra[k]
      <4>1. IsSeq(ro) /\ IsSeq(ra)
        BY <3>1, <3>2, <3>3
      <4> QED
        BY <3>4, <4>1, SharedIs
    <3>6. PICK x, y \in Nat : x = la - p /\ y = lo - p
      <4>1. la - p \in Nat /\ lo - p \in Nat
        BY <1>2
      <4> QED
        BY <4>1
    <3>7. s = Min({n, x, y})
      BY <1>1, <2>2, <3>3, <3>4, <3>6 DEF SharedEnd
    <3>8. s \in Nat /\ s <= n /\ s <= x /\ s <= y
      BY <3>5, <3>6, <3>7, Min3
    <3>9. \A k \in 1 .. s : k \in 1 .. n /\ k \in 1 .. Len(o) /\ k \in 1 .. Len(a)
      BY <1>1, <1>2, <3>5, <3>6, <3>8
    <3>10. \A k \in 1 .. s : o[(Len(o) - k) + 1] = a[(Len(a) - k) + 1]
      <4> SUFFICES ASSUME NEW k \in 1 .. s PROVE o[(Len(o) - k) + 1] = a[(Len(a) - k) + 1]
        OBVIOUS
      <4>1. k \in 1 .. n /\ k \in 1 .. Len(o) /\ k \in 1 .. Len(a)
        BY <3>9
      <4>2. ro[k] = ra[k]
        BY <3>5, <4>1
      <4>3. ro[k] = o[(Len(o) - k) + 1]
        BY <3>1, <3>3, <4>1
      <4>4. ra[k] = a[(Len(a) - k) + 1]
        BY <3>2, <3>3, <4>1
      <4> QED
        BY <4>2, <4>3, <4>4
    <3> QED
      BY <3>6, <3>8, <3>10
  <2> QED
    BY <2>1, <2>2
<1>4. p + s <= la /\ p + s <= lo
  BY <1>1, <1>2, <1>3
<1> QED
  BY <1>1, <1>2, <1>3, <1>4 DEF Shares

-----------------------------------------------------------------------------
\* An UPDATE's new version.

\* Concatenation is associative.
LEMMA ConcatAssoc ==
    ASSUME NEW x, IsSeq(x), NEW y, IsSeq(y), NEW z, IsSeq(z)
    PROVE  (x \o y) \o z = x \o (y \o z) /\ IsSeq(x \o (y \o z))
<1>1. PICK S : x \in Seq(S) /\ y \in Seq(S)
  BY SeqTogether
<1>2. PICK T : z \in Seq(T)
  BY DEF IsSeq
<1>3. PICK U : U = S \cup T
  OBVIOUS
<1>4. x \in Seq(U) /\ y \in Seq(U) /\ z \in Seq(U)
  BY <1>1, <1>2, <1>3
<1>5. /\ IsSeq(x \o y) /\ Len(x \o y) = Len(x) + Len(y)
      /\ \A k \in 1 .. Len(x) : (x \o y)[k] = x[k]
      /\ \A k \in 1 .. Len(y) : (x \o y)[Len(x) + k] = y[k]
  BY Concat
<1>6. /\ IsSeq(y \o z) /\ Len(y \o z) = Len(y) + Len(z)
      /\ \A k \in 1 .. Len(y) : (y \o z)[k] = y[k]
      /\ \A k \in 1 .. Len(z) : (y \o z)[Len(y) + k] = z[k]
  BY Concat
<1>7. PICK xy, yz : xy = x \o y /\ yz = y \o z
  OBVIOUS
<1>8. /\ IsSeq(xy \o z) /\ Len(xy \o z) = Len(xy) + Len(z)
      /\ \A k \in 1 .. Len(xy) : (xy \o z)[k] = xy[k]
      /\ \A k \in 1 .. Len(z) : (xy \o z)[Len(xy) + k] = z[k]
  <2>1. IsSeq(xy)
    BY <1>5, <1>7
  <2> QED
    BY <2>1, Concat
<1>9. /\ IsSeq(x \o yz) /\ Len(x \o yz) = Len(x) + Len(yz)
      /\ \A k \in 1 .. Len(x) : (x \o yz)[k] = x[k]
      /\ \A k \in 1 .. Len(yz) : (x \o yz)[Len(x) + k] = yz[k]
  <2>1. IsSeq(yz)
    BY <1>6, <1>7
  <2> QED
    BY <2>1, Concat
<1>10. PICK l, m, n \in Nat : l = Len(x) /\ m = Len(y) /\ n = Len(z)
  BY SeqLen
<1>11. PICK p, q : p = xy \o z /\ q = x \o yz
  OBVIOUS
<1>12. Len(xy) = l + m /\ Len(yz) = m + n /\ Len(p) = (l + m) + n /\ Len(q) = l + (m + n)
  BY <1>5, <1>6, <1>7, <1>8, <1>9, <1>10, <1>11
<1>13. ASSUME NEW k \in 1 .. (l + m) + n PROVE p[k] = q[k]
  <2>1. CASE k <= l
    <3>1. k \in 1 .. Len(x) /\ k \in 1 .. Len(xy)
      BY <1>10, <1>12, <2>1
    <3>2. p[k] = xy[k] /\ xy[k] = x[k] /\ q[k] = x[k]
      BY <1>5, <1>7, <1>8, <1>9, <1>11, <3>1
    <3> QED
      BY <3>2
  <2>2. CASE l < k /\ k <= l + m
    <3>1. PICK j \in 1 .. m : k = l + j
      <4>1. k - l \in 1 .. m /\ k = l + (k - l)
        BY <2>2
      <4> QED
        BY <4>1
    <3>2. k \in 1 .. Len(xy) /\ j \in 1 .. Len(y) /\ j \in 1 .. Len(yz)
      BY <1>10, <1>12, <2>2, <3>1
    <3>3. p[k] = xy[k]
      BY <1>8, <1>11, <3>2
    <3>4. xy[k] = y[j]
      BY <1>5, <1>7, <1>10, <3>1, <3>2
    <3>5. q[k] = yz[j]
      BY <1>9, <1>10, <1>11, <3>1, <3>2
    <3>6. yz[j] = y[j]
      BY <1>6, <1>7, <3>2
    <3> QED
      BY <3>3, <3>4, <3>5, <3>6
  <2>3. CASE l + m < k
    <3>1. PICK j \in 1 .. n : k = (l + m) + j
      <4>1. k - (l + m) \in 1 .. n /\ k = (l + m) + (k - (l + m))
        BY <2>3
      <4> QED
        BY <4>1
    <3>2. j \in 1 .. Len(z) /\ m + j \in 1 .. Len(yz) /\ k = l + (m + j)
      BY <1>10, <1>12, <3>1
    <3>3. p[k] = z[j]
      BY <1>8, <1>11, <1>12, <3>1, <3>2
    <3>4. q[k] = yz[m + j]
      BY <1>9, <1>10, <1>11, <3>2
    <3>5. yz[m + j] = z[j]
      BY <1>6, <1>7, <1>10, <3>2
    <3> QED
      BY <3>3, <3>4, <3>5
  <2> QED
    BY <2>1, <2>2, <2>3
<1>14. Len(p) = Len(q) /\ \A k \in 1 .. Len(p) : p[k] = q[k]
  BY <1>12, <1>13
<1>15. IsSeq(p) /\ IsSeq(q)
  BY <1>8, <1>9, <1>11
<1>16. p = q
  BY <1>14, <1>15, SeqEq
<1> QED
  BY <1>7, <1>11, <1>15, <1>16

\* The lengths that open the block data.
LenPart(p) == IF p > 0 THEN <<Num(p), Zero>> ELSE <<>>
LenFields(p, s) == LenPart(p) \o LenPart(s)
Skipped(p, s) == (IF p > 0 THEN 2 ELSE 0) + (IF s > 0 THEN 2 ELSE 0)

\* One of them.
LEMMA LenPartIs ==
    ASSUME NEW p \in Nat
    PROVE  /\ IsSeq(LenPart(p)) /\ Len(LenPart(p)) = (IF p > 0 THEN 2 ELSE 0)
           /\ p > 0 => LenPart(p)[1][2] = p
<1>1. CASE p > 0
  <2>1. LenPart(p) = <<Num(p), Zero>>
    BY <1>1 DEF LenPart
  <2>2. IsSeq(<<Num(p), Zero>>) /\ Len(<<Num(p), Zero>>) = 2 /\ <<Num(p), Zero>>[1] = Num(p)
    BY ShortSeqs
  <2>3. Num(p)[2] = p
    BY DEF Num
  <2> QED
    BY <1>1, <2>1, <2>2, <2>3
<1>2. CASE ~(p > 0)
  <2>1. LenPart(p) = <<>>
    BY <1>2 DEF LenPart
  <2> QED
    BY <1>2, <2>1, ShortSeqs
<1> QED
  BY <1>1, <1>2

\* Both.
LEMMA LenFieldsAre ==
    ASSUME NEW p \in Nat, NEW s \in Nat
    PROVE  /\ IsSeq(LenFields(p, s)) /\ Len(LenFields(p, s)) = Skipped(p, s)
           /\ p > 0 => 1 \in 1 .. Skipped(p, s) /\ LenFields(p, s)[1][2] = p
           /\ s > 0 => LET i == IF p > 0 THEN 3 ELSE 1 IN i \in 1 .. Skipped(p, s) /\ LenFields(p, s)[i][2] = s
<1>1. PICK x, y : x = LenPart(p) /\ y = LenPart(s)
  OBVIOUS
<1>2. IsSeq(x) /\ Len(x) = (IF p > 0 THEN 2 ELSE 0) /\ (p > 0 => x[1][2] = p)
  BY <1>1, LenPartIs
<1>3. IsSeq(y) /\ Len(y) = (IF s > 0 THEN 2 ELSE 0) /\ (s > 0 => y[1][2] = s)
  BY <1>1, LenPartIs
<1>4. /\ IsSeq(x \o y) /\ Len(x \o y) = Len(x) + Len(y)
      /\ \A k \in 1 .. Len(x) : (x \o y)[k] = x[k]
      /\ \A k \in 1 .. Len(y) : (x \o y)[Len(x) + k] = y[k]
  <2>1. IsSeq(x) /\ IsSeq(y)
    BY <1>2, <1>3
  <2> QED
    BY <2>1, Concat
<1>5. PICK z : z = x \o y
  OBVIOUS
<1>6. z = LenFields(p, s)
  BY <1>1, <1>5 DEF LenFields
<1>7. IsSeq(z) /\ Len(z) = Skipped(p, s)
  BY <1>2, <1>3, <1>4, <1>5 DEF Skipped
<1>8. ASSUME p > 0 PROVE 1 \in 1 .. Skipped(p, s) /\ z[1][2] = p
  <2>1. 1 \in 1 .. Len(x) /\ 1 \in 1 .. Skipped(p, s)
    BY <1>2, <1>8 DEF Skipped
  <2>2. z[1] = x[1]
    BY <1>4, <1>5, <2>1
  <2> QED
    BY <1>2, <1>8, <2>1, <2>2
<1>9. ASSUME s > 0, NEW i, i = IF p > 0 THEN 3 ELSE 1 PROVE i \in 1 .. Skipped(p, s) /\ z[i][2] = s
  <2>1. 1 \in 1 .. Len(y) /\ i \in 1 .. Skipped(p, s) /\ i = Len(x) + 1
    BY <1>2, <1>3, <1>9 DEF Skipped
  <2>2. z[i] = y[1]
    BY <1>4, <1>5, <2>1
  <2> QED
    BY <1>3, <1>9, <2>1, <2>2
<1> QED
  BY <1>6, <1>7, <1>8, <1>9

\* What is logged, between what is left out.
Middle(a, p, s) == SubSeq(a, p + 1, Len(a) - s)

\* With the old bytes around it the area is whole again.
LEMMA Rebuilt ==
    ASSUME NEW o, IsSeq(o), NEW a, IsSeq(a), NEW p, NEW s, Shares(o, a, p, s)
    PROVE  /\ IsSeq(Middle(a, p, s)) /\ IsSeq(SubSeq(o, 1, p)) /\ IsSeq(SubSeq(o, Len(o) - s + 1, Len(o)))
           /\ (SubSeq(o, 1, p) \o Middle(a, p, s)) \o SubSeq(o, Len(o) - s + 1, Len(o)) = a
<1>1. PICK lo, la \in Nat : lo = Len(o) /\ la = Len(a)
  BY SeqLen
<1>2. p \in Nat /\ s \in Nat /\ p + s <= la /\ p + s <= lo
  BY <1>1 DEF Shares
<1>3. /\ \A k \in 1 .. p : o[k] = a[k]
      /\ \A k \in 1 .. s : o[(lo - k) + 1] = a[(la - k) + 1]
  BY <1>1 DEF Shares
<1>4. PICK x, y, z : x = SubSeq(o, 1, p) /\ y = SubSeq(a, p + 1, la - s) /\ z = SubSeq(o, lo - s + 1, lo)
  OBVIOUS
<1>5. IsSeq(x) /\ Len(x) = p /\ \A k \in 1 .. p : x[k] = o[k]
  <2>1. 1 \in Nat /\ 1 <= 1 /\ 1 <= p + 1 /\ p <= Len(o)
    BY <1>1, <1>2
  <2>2. /\ IsSeq(x) /\ Len(x) = p + 1 - 1
        /\ \A k \in 1 .. p + 1 - 1 : x[k] = o[1 - 1 + k]
    BY <1>2, <1>4, <2>1, Part
  <2> QED
    BY <1>2, <2>2
<1>6. PICK m \in Nat : m = la - s - p /\ p + m = la - s
  <2>1. la - s - p \in Nat /\ p + (la - s - p) = la - s
    BY <1>2
  <2> QED
    BY <2>1
<1>7. IsSeq(y) /\ Len(y) = m /\ \A k \in 1 .. m : y[k] = a[p + k]
  <2>1. PICK i, j \in Nat : i = p + 1 /\ j = la - s
    <3>1. p + 1 \in Nat /\ la - s \in Nat
      BY <1>2
    <3> QED
      BY <3>1
  <2>2. 1 <= i /\ i <= j + 1 /\ j <= Len(a) /\ j + 1 - i = m
    BY <1>1, <1>2, <1>6, <2>1
  <2>3. y = SubSeq(a, i, j)
    BY <1>4, <2>1
  <2>4. /\ IsSeq(y) /\ Len(y) = j + 1 - i
        /\ \A k \in 1 .. j + 1 - i : y[k] = a[i - 1 + k]
    BY <2>2, <2>3, Part
  <2>5. \A k \in 1 .. m : i - 1 + k = p + k
    BY <1>2, <2>1
  <2> QED
    BY <2>2, <2>4, <2>5
<1>8. IsSeq(z) /\ Len(z) = s /\ \A k \in 1 .. s : z[k] = o[lo - s + k]
  <2>1. PICK i \in Nat : i = lo - s + 1
    <3>1. lo - s + 1 \in Nat
      BY <1>2
    <3> QED
      BY <3>1
  <2>2. 1 <= i /\ i <= lo + 1 /\ lo <= Len(o) /\ lo + 1 - i = s
    BY <1>1, <1>2, <2>1
  <2>3. z = SubSeq(o, i, lo)
    BY <1>4, <2>1
  <2>4. /\ IsSeq(z) /\ Len(z) = lo + 1 - i
        /\ \A k \in 1 .. lo + 1 - i : z[k] = o[i - 1 + k]
    BY <2>2, <2>3, Part
  <2>5. \A k \in 1 .. s : i - 1 + k = lo - s + k
    BY <1>2, <2>1
  <2> QED
    BY <2>2, <2>4, <2>5
<1>9. /\ IsSeq(x \o y) /\ Len(x \o y) = Len(x) + Len(y)
      /\ \A k \in 1 .. Len(x) : (x \o y)[k] = x[k]
      /\ \A k \in 1 .. Len(y) : (x \o y)[Len(x) + k] = y[k]
  <2>1. IsSeq(x) /\ IsSeq(y)
    BY <1>5, <1>7
  <2> QED
    BY <2>1, Concat
<1>10. PICK xy : xy = x \o y
  OBVIOUS
<1>11. /\ IsSeq(xy \o z) /\ Len(xy \o z) = Len(xy) + Len(z)
       /\ \A k \in 1 .. Len(xy) : (xy \o z)[k] = xy[k]
       /\ \A k \in 1 .. Len(z) : (xy \o z)[Len(xy) + k] = z[k]
  <2>1. IsSeq(xy) /\ IsSeq(z)
    BY <1>8, <1>9, <1>10
  <2> QED
    BY <2>1, Concat
<1>12. PICK w : w = xy \o z
  OBVIOUS
<1>13. Len(xy) = p + m /\ Len(w) = la
  BY <1>2, <1>5, <1>6, <1>7, <1>8, <1>9, <1>10, <1>11, <1>12
<1>14. ASSUME NEW k \in 1 .. la PROVE w[k] = a[k]
  <2>1. CASE k <= p
    <3>1. k \in 1 .. p /\ k \in 1 .. Len(x) /\ k \in 1 .. Len(xy)
      BY <1>2, <1>5, <1>13, <2>1
    <3>2. w[k] = xy[k]
      BY <1>11, <1>12, <3>1
    <3>3. xy[k] = x[k]
      BY <1>9, <1>10, <3>1
    <3>4. x[k] = o[k] /\ o[k] = a[k]
      BY <1>3, <1>5, <3>1
    <3> QED
      BY <3>2, <3>3, <3>4
  <2>2. CASE p < k /\ k <= p + m
    <3>1. PICK j \in 1 .. m : k = p + j
      <4>1. k - p \in 1 .. m /\ k = p + (k - p)
        BY <1>2, <2>2
      <4> QED
        BY <4>1
    <3>2. k \in 1 .. Len(xy) /\ j \in 1 .. Len(y)
      BY <1>2, <1>7, <1>13, <2>2, <3>1
    <3>3. w[k] = xy[k]
      BY <1>11, <1>12, <3>2
    <3>4. xy[k] = y[j]
      BY <1>5, <1>9, <1>10, <3>1, <3>2
    <3>5. y[j] = a[k]
      BY <1>7, <3>1
    <3> QED
      BY <3>3, <3>4, <3>5
  <2>3. CASE p + m < k
    <3>1. PICK j \in 1 .. s : k = (p + m) + j
      <4>1. k - (p + m) \in 1 .. s /\ k = (p + m) + (k - (p + m))
        BY <1>2, <1>6, <2>3
      <4> QED
        BY <4>1
    <3>2. j \in 1 .. Len(z)
      BY <1>8
    <3>3. w[k] = z[j]
      BY <1>11, <1>12, <1>13, <3>1, <3>2
    <3>4. z[j] = o[lo - s + j]
      BY <1>8
    <3>5. PICK i \in 1 .. s : i = s + 1 - j
      <4>1. s + 1 - j \in 1 .. s
        BY <1>2
      <4> QED
        BY <4>1
    <3>6. (lo - i) + 1 = lo - s + j /\ (la - i) + 1 = k
      BY <1>2, <1>6, <3>1, <3>5
    <3>7. o[(lo - i) + 1] = a[(la - i) + 1]
      BY <1>3
    <3> QED
      BY <3>3, <3>4, <3>6, <3>7
  <2> QED
    BY <1>2, <2>1, <2>2, <2>3
<1>15. IsSeq(w) /\ Len(w) = Len(a) /\ \A k \in 1 .. Len(w) : w[k] = a[k]
  BY <1>1, <1>11, <1>12, <1>13, <1>14
<1>16. w = a
  BY <1>15, SeqEq
<1> QED
  BY <1>1, <1>4, <1>5, <1>7, <1>8, <1>10, <1>12, <1>16 DEF Middle

\* Four parts.
LEMMA ConcatFour ==
    ASSUME NEW x, IsSeq(x), NEW h, IsSeq(h), NEW m, IsSeq(m), NEW y, IsSeq(y)
    PROVE  ((x \o h) \o m) \o y = x \o (h \o (m \o y)) /\ IsSeq(x \o (h \o (m \o y)))
<1>1. (x \o h) \o m = x \o (h \o m) /\ IsSeq(x \o (h \o m))
  BY ConcatAssoc
<1>2. (h \o m) \o y = h \o (m \o y) /\ IsSeq(h \o (m \o y))
  BY ConcatAssoc
<1>3. PICK hm : hm = h \o m
  OBVIOUS
<1>4. IsSeq(hm)
  <2>1. IsSeq(h \o m)
    BY Concat
  <2> QED
    BY <1>3, <2>1
<1>5. (x \o hm) \o y = x \o (hm \o y) /\ IsSeq(x \o (hm \o y))
  BY <1>4, ConcatAssoc
<1>6. ((x \o h) \o m) \o y = (x \o hm) \o y
  BY <1>1, <1>3
<1>7. x \o (hm \o y) = x \o (h \o (m \o y))
  BY <1>2, <1>3
<1> QED
  BY <1>5, <1>6, <1>7

\* The block data, part by part.
InParts(b, x, c) == b = x \o c
UpdateParts(cols, u, p, s, mid, rest, c, b) ==
    /\ IsSeq(u) /\ p \in Nat /\ s \in Nat /\ IsSeq(mid) /\ mid = Middle(Attrs(cols, u), p, s)
    /\ rest = Bitmap(u) \o mid /\ c = WalHeader(u, FALSE) \o rest /\ b = UpdateData(cols, u, p, s, FALSE)

\* They are one after the other.
LEMMA UpdateLaid ==
    ASSUME NEW cols, NEW u, NEW p, NEW s, NEW mid, NEW rest, NEW c, NEW b,
           UpdateParts(cols, u, p, s, mid, rest, c, b)
    PROVE  InParts(b, LenFields(p, s), c)
<1>0. /\ IsSeq(u) /\ p \in Nat /\ s \in Nat /\ IsSeq(mid) /\ mid = Middle(Attrs(cols, u), p, s)
      /\ rest = Bitmap(u) \o mid /\ c = WalHeader(u, FALSE) \o rest /\ b = UpdateData(cols, u, p, s, FALSE)
  BY DEF UpdateParts
<1>1. PICK x, h, m : x = LenFields(p, s) /\ h = WalHeader(u, FALSE) /\ m = Bitmap(u)
  OBVIOUS
<1>2. IsSeq(x)
  BY <1>0, <1>1, LenFieldsAre
<1>3. IsSeq(h)
  <2>1. PICK n : n = HeaderLen(FALSE)
    OBVIOUS
  <2> QED
    BY <1>1, <2>1, WalHeaderIs
<1>4. IsSeq(m)
  <2>1. PICK bits : bits = THoff(u) - HeapHeader
    OBVIOUS
  <2> QED
    BY <1>0, <1>1, <2>1, BitmapIs
<1>5. UpdateData(cols, u, p, s, FALSE) = ((x \o h) \o m) \o mid
  BY <1>0, <1>1 DEF UpdateData, LenFields, LenPart, Middle
<1>6. ((x \o h) \o m) \o mid = x \o (h \o (m \o mid)) /\ IsSeq(x \o (h \o (m \o mid)))
  <2>1. PICK y : y = mid
    OBVIOUS
  <2>2. IsSeq(y)
    BY <1>0, <2>1
  <2>3. ((x \o h) \o m) \o y = x \o (h \o (m \o y)) /\ IsSeq(x \o (h \o (m \o y)))
    BY <1>2, <1>3, <1>4, <2>2, ConcatFour
  <2> QED
    BY <2>1, <2>3
<1>7. c = h \o (m \o mid)
  BY <1>0, <1>1
<1> QED
  BY <1>0, <1>1, <1>5, <1>6, <1>7 DEF InParts

\* Where things are in it.
Placed(b, p, s, h, bits, mid, bm, u) ==
    /\ IsSeq(b) /\ Len(b) \in Nat /\ bits \in Nat /\ IsSeq(bm) /\ IsSeq(mid) /\ bm = Bitmap(u)
    /\ (IF p > 0 THEN b[1][2] ELSE 0) = p
    /\ (IF s > 0 THEN b[IF p > 0 THEN 3 ELSE 1][2] ELSE 0) = s
    /\ h = wal_heap_header(SubSeq(b, Skipped(p, s) + 1, Len(b)), FALSE) /\ h # Bad
    /\ h.natts = Len(u) /\ h.nulls = HasNulls(u) /\ h.hoff = THoff(u) /\ h.len = 5
    /\ h.hoff - HeapHeader = bits
    /\ SubSeq(b, (Skipped(p, s) + 5) + 1, Len(b)) = bm \o mid
    /\ SubSeq(b, (Skipped(p, s) + 5) + 1, (Skipped(p, s) + 5) + bits) = bm
    /\ SubSeq(b, ((Skipped(p, s) + 5) + bits) + 1, Len(b)) = mid

\* Everything is where decode_update_new_tuple looks.
LEMMA UpdatePlaced ==
    ASSUME NEW cols, NEW u, IsSeq(u), NEW p \in Nat, NEW s \in Nat, NEW mid, IsSeq(mid), mid = Middle(Attrs(cols, u), p, s),
           NEW b, b = UpdateData(cols, u, p, s, FALSE), NEW bits, bits = THoff(u) - HeapHeader, NEW bm, bm = Bitmap(u)
    PROVE  \E h : Placed(b, p, s, h, bits, mid, bm, u)
<1>1. PICK x : x = LenFields(p, s)
  OBVIOUS
<1>2. PICK k : k = Skipped(p, s)
  OBVIOUS
<1>3. k \in Nat /\ IsSeq(x) /\ Len(x) = k
  <2>1. IsSeq(x) /\ Len(x) = Skipped(p, s)
    BY <1>1, LenFieldsAre
  <2> QED
    BY <1>2, <2>1 DEF Skipped
<1>4. p > 0 => 1 \in 1 .. k /\ x[1][2] = p
  BY <1>1, <1>2, LenFieldsAre
<1>5. PICK i : i = IF p > 0 THEN 3 ELSE 1
  OBVIOUS
<1>6. s > 0 => i \in 1 .. k /\ x[i][2] = s
  BY <1>1, <1>2, <1>5, LenFieldsAre
<1>7. bits \in Nat /\ IsSeq(bm) /\ Len(bm) = bits
  BY BitmapIs
<1>8. PICK rest : rest = bm \o mid
  OBVIOUS
<1>9. IsSeq(rest) /\ Len(rest) = bits + Len(mid) /\ Len(mid) \in Nat
  <2>1. IsSeq(bm)
    BY <1>7
  <2>2. IsSeq(bm \o mid) /\ Len(bm \o mid) = Len(bm) + Len(mid) /\ Len(mid) \in Nat
    BY <2>1, Join2
  <2> QED
    BY <1>7, <1>8, <2>2
<1>10. PICK c : c = WalHeader(u, FALSE) \o rest
  OBVIOUS
<1>11. HeaderRead(c, u, FALSE, 5, rest)
  <2>1. 5 = HeaderLen(FALSE) /\ FALSE \in BOOLEAN
    BY DEF HeaderLen
  <2>2. IsSeq(rest)
    BY <1>9
  <2> QED
    BY <1>10, <2>1, <2>2, HeaderOf
<1>12. PICK h : h = wal_heap_header(c, FALSE)
  OBVIOUS
<1>13. /\ h # Bad /\ h = [natts |-> Len(u), nulls |-> HasNulls(u), hoff |-> THoff(u), len |-> 5]
       /\ IsSeq(c) /\ Len(c) = 5 + Len(rest) /\ Lies(c, 5, rest)
  BY <1>11, <1>12 DEF HeaderRead
<1>14. b = x \o c
  <2>1. UpdateParts(cols, u, p, s, mid, rest, c, b)
    BY <1>8, <1>10 DEF UpdateParts
  <2>2. InParts(b, LenFields(p, s), c)
    BY <2>1, UpdateLaid
  <2> QED
    BY <1>1, <2>2 DEF InParts
<1>15. /\ IsSeq(x \o c) /\ Len(x \o c) = Len(x) + Len(c)
       /\ \A j \in 1 .. Len(x) : (x \o c)[j] = x[j]
  <2>1. IsSeq(x) /\ IsSeq(c)
    BY <1>3, <1>13
  <2> QED
    BY <2>1, Concat
<1>16. IsSeq(b) /\ Len(b) = k + (5 + (bits + Len(mid))) /\ \A j \in 1 .. k : b[j] = x[j]
  BY <1>3, <1>9, <1>13, <1>14, <1>15
<1>17. Lies(b, k, c)
  <2>1. IsSeq(b) /\ IsSeq(x) /\ IsSeq(c)
    BY <1>3, <1>13, <1>16
  <2>2. Lies(b, 0, x \o c)
    BY <1>14, <2>1, LiesWhole
  <2>3. Lies(b, 0 + Len(x), c)
    BY <2>1, <2>2, LiesParts
  <2>4. 0 + Len(x) = k
    BY <1>3
  <2> QED
    BY <2>3, <2>4
<1>18. SubSeq(b, k + 1, Len(b)) = c
  <2>1. SubSeq(b, k + 1, k + Len(c)) = c
    BY <1>16, <1>17, LiesCut
  <2>2. k + Len(c) = Len(b)
    BY <1>9, <1>13, <1>16
  <2> QED
    BY <2>1, <2>2
<1>19. Lies(b, k + 5, rest)
  <2>1. PICK g : g = WalHeader(u, FALSE)
    OBVIOUS
  <2>2. IsSeq(g) /\ Len(g) = 5
    <3>1. 5 = HeaderLen(FALSE) /\ FALSE \in BOOLEAN
      BY DEF HeaderLen
    <3> QED
      BY <2>1, <3>1, WalHeaderIs
  <2>3. c = g \o rest /\ IsSeq(g) /\ IsSeq(rest) /\ IsSeq(b)
    BY <1>9, <1>10, <1>16, <2>1, <2>2
  <2>4. Lies(b, k + Len(g), rest)
    BY <1>17, <2>3, LiesParts
  <2> QED
    BY <2>2, <2>4
<1>20. PICK off \in Nat : off = k + 5
  BY <1>3
<1>21. Len(b) = off + (bits + Len(mid)) /\ Len(b) \in Nat
  <2>1. PICK lm \in Nat : lm = Len(mid)
    BY <1>9
  <2>2. PICK lb : lb = Len(b)
    OBVIOUS
  <2>3. lb = k + (5 + (bits + lm)) /\ bits \in Nat
    BY <1>7, <1>16, <2>1, <2>2
  <2>4. lb = off + (bits + lm) /\ lb \in Nat
    BY <1>3, <1>20, <2>3
  <2> QED
    BY <2>1, <2>2, <2>4
<1>22. SubSeq(b, off + 1, Len(b)) = rest
  <2>1. SubSeq(b, off + 1, off + Len(rest)) = rest
    BY <1>16, <1>19, <1>20, LiesCut
  <2> QED
    BY <1>9, <1>21, <2>1
<1>23. Lies(b, off, bm) /\ Lies(b, off + bits, mid)
  <2>1. IsSeq(b) /\ IsSeq(bm) /\ IsSeq(mid)
    BY <1>7, <1>16
  <2>2. Lies(b, off, bm \o mid)
    BY <1>8, <1>19, <1>20
  <2>3. Lies(b, off, bm) /\ Lies(b, off + Len(bm), mid)
    BY <2>1, <2>2, LiesParts
  <2> QED
    BY <1>7, <2>3
<1>24. SubSeq(b, off + 1, off + bits) = bm
  <2>1. SubSeq(b, off + 1, off + Len(bm)) = bm
    BY <1>16, <1>23, LiesCut
  <2> QED
    BY <1>7, <2>1
<1>25. SubSeq(b, (off + bits) + 1, Len(b)) = mid
  <2>1. SubSeq(b, (off + bits) + 1, (off + bits) + Len(mid)) = mid
    BY <1>16, <1>23, LiesCut
  <2>2. (off + bits) + Len(mid) = Len(b)
    <3>1. PICK lm \in Nat : lm = Len(mid)
      BY <1>9
    <3>2. PICK lb : lb = Len(b)
      OBVIOUS
    <3>3. lb = off + (bits + lm) /\ bits \in Nat
      BY <1>7, <1>21, <3>1, <3>2
    <3>4. (off + bits) + lm = lb
      BY <3>3
    <3> QED
      BY <3>1, <3>2, <3>4
  <2> QED
    BY <2>1, <2>2
<1>26. (IF p > 0 THEN b[1][2] ELSE 0) = p
  <2>1. p > 0 => b[1] = x[1]
    BY <1>4, <1>16
  <2>2. p > 0 => b[1][2] = p
    BY <1>4, <2>1
  <2>3. ~(p > 0) => p = 0
    OBVIOUS
  <2> QED
    BY <2>2, <2>3
<1>27. (IF s > 0 THEN b[i][2] ELSE 0) = s
  <2>1. s > 0 => b[i] = x[i]
    BY <1>6, <1>16
  <2>2. s > 0 => b[i][2] = s
    BY <1>6, <2>1
  <2>3. ~(s > 0) => s = 0
    OBVIOUS
  <2> QED
    BY <2>2, <2>3
<1>28. h.natts = Len(u) /\ h.nulls = HasNulls(u) /\ h.hoff = THoff(u) /\ h.len = 5
  BY <1>13
<1>29. Placed(b, p, s, h, bits, mid, bm, u)
  <2>1. h = wal_heap_header(SubSeq(b, k + 1, Len(b)), FALSE)
    BY <1>12, <1>18
  <2>2. h # Bad
    BY <1>13
  <2>3. IsSeq(b) /\ IsSeq(bm) /\ bits \in Nat /\ Len(b) \in Nat
    BY <1>7, <1>16, <1>21
  <2> QED
    BY <1>2, <1>5, <1>8, <1>20, <1>22, <1>24, <1>25, <1>26, <1>27, <1>28, <2>1, <2>2, <2>3 DEF Placed
<1> QED
  BY <1>29

\* Bitmap, prefix, logged bytes and suffix make the payload.
LEMMA PayloadRebuilt ==
    ASSUME NEW bm, IsSeq(bm), NEW o, IsSeq(o), NEW a, IsSeq(a), NEW p, NEW s, Shares(o, a, p, s),
           NEW mid, mid = Middle(a, p, s)
    PROVE  InParts(((bm \o SubSeq(o, 1, p)) \o mid) \o SubSeq(o, Len(o) - s + 1, Len(o)), bm, a)
<1>1. PICK x, z : x = SubSeq(o, 1, p) /\ z = SubSeq(o, Len(o) - s + 1, Len(o))
  OBVIOUS
<1>2. /\ IsSeq(Middle(a, p, s)) /\ IsSeq(SubSeq(o, 1, p)) /\ IsSeq(SubSeq(o, Len(o) - s + 1, Len(o)))
      /\ (SubSeq(o, 1, p) \o Middle(a, p, s)) \o SubSeq(o, Len(o) - s + 1, Len(o)) = a
  BY Rebuilt
<1>3. IsSeq(mid) /\ IsSeq(x) /\ IsSeq(z) /\ (x \o mid) \o z = a
  BY <1>1, <1>2
<1>4. PICK y : y = mid
  OBVIOUS
<1>5. IsSeq(y)
  BY <1>3, <1>4
<1>6. ((bm \o x) \o y) \o z = bm \o (x \o (y \o z)) /\ IsSeq(bm \o (x \o (y \o z)))
  BY <1>3, <1>5, ConcatFour
<1>7. (x \o y) \o z = x \o (y \o z) /\ IsSeq(x \o (y \o z))
  BY <1>3, <1>5, ConcatAssoc
<1>8. ((bm \o x) \o y) \o z = bm \o a
  BY <1>3, <1>4, <1>6, <1>7
<1> QED
  BY <1>1, <1>4, <1>8 DEF InParts

\* With nothing left out it is the whole area.
LEMMA MiddleWhole ==
    ASSUME NEW a, IsSeq(a), NEW p \in Nat, NEW s \in Nat, p + s = 0
    PROVE  Middle(a, p, s) = a
<1>1. PICK n \in Nat : n = Len(a)
  BY SeqLen
<1>2. p = 0 /\ s = 0 /\ n - s = n
  OBVIOUS
<1>3. Lies(a, 0, a)
  BY LiesWhole
<1>4. SubSeq(a, 0 + 1, 0 + Len(a)) = a
  BY <1>3, LiesCut
<1>5. 0 + Len(a) = n
  BY <1>1
<1> QED
  BY <1>1, <1>2, <1>4, <1>5 DEF Middle

\* decode_update_new_tuple puts the new version together.
UpdateRead(d, cols, u, p, s, toast, old) ==
    d = IF p + s > 0 /\ old.attrs = NoAttrs THEN Bad
        ELSE decode_tuple_payload(Payload(cols, u), Len(u), HasNulls(u), THoff(u), cols, toast, old.row)

Updates(d, cols, u, o, p, s, toast, old) ==
    /\ IsTable(cols) /\ IsTuple(cols, u) /\ IsSeq(o) /\ Shares(o, Attrs(cols, u), p, s)
    /\ old.attrs \in {NoAttrs, o}
    /\ d = decode_update_new_tuple(UpdateData(cols, u, p, s, FALSE), p > 0, s > 0, old, cols, toast, FALSE)

\* What it finds in the record on the way: lengths, header and payload.
Unfolds(d, b, hp, hs, old, cols, toast, p, s, k, h, pay) ==
    /\ d = decode_update_new_tuple(b, hp, hs, old, cols, toast, FALSE)
    /\ p = IF hp THEN b[1][2] ELSE 0
    /\ s = IF hs THEN b[IF hp THEN 3 ELSE 1][2] ELSE 0
    /\ k = (IF hp THEN 2 ELSE 0) + (IF hs THEN 2 ELSE 0)
    /\ h = wal_heap_header(SubSeq(b, k + 1, Len(b)), FALSE) /\ h # Bad
    /\ pay = IF p + s = 0 THEN SubSeq(b, (k + h.len) + 1, Len(b))
             ELSE UpdatePayload(b, k + h.len, h.hoff - HeapHeader, p, s, old.attrs)

\* It decodes that payload unless it misses old bytes.
Unfolded(old, cols, toast, p, s, h, pay) ==
    IF p + s > (IF old.attrs = NoAttrs THEN 0 ELSE Len(old.attrs)) THEN Bad
    ELSE decode_tuple_payload(pay, h.natts, h.nulls, h.hoff, cols, toast, old.row)

\* So it does, whatever it finds.
LEMMA UpdateUnfolds ==
    ASSUME NEW d, NEW b, NEW hp, NEW hs, NEW old, NEW cols, NEW toast,
           NEW p, NEW s, NEW k, NEW h, NEW pay,
           Unfolds(d, b, hp, hs, old, cols, toast, p, s, k, h, pay)
    PROVE  d = Unfolded(old, cols, toast, p, s, h, pay)
  BY SMT DEF decode_update_new_tuple, Unfolds, Unfolded

\* It puts the new version together if the old bytes are known or not needed.
LEMMA UpdateReads ==
    ASSUME NEW d, NEW cols, NEW u, NEW o, NEW p, NEW s, NEW toast, NEW old, Updates(d, cols, u, o, p, s, toast, old)
    PROVE  UpdateRead(d, cols, u, p, s, toast, old)
<1>0. /\ IsTable(cols) /\ IsTuple(cols, u) /\ IsSeq(o) /\ Shares(o, Attrs(cols, u), p, s)
      /\ old.attrs \in {NoAttrs, o}
  BY DEF Updates
<1>1. PICK a : a = Attrs(cols, u)
  OBVIOUS
<1>2. IsSeq(a) /\ IsSeq(u)
  BY <1>0, <1>1, AttrsSeq DEF IsTuple
<1>3. p \in Nat /\ s \in Nat /\ p + s <= Len(o) /\ Len(o) \in Nat
  BY <1>0, SeqLen DEF Shares
<1>4. PICK mid : mid = Middle(a, p, s)
  OBVIOUS
<1>5. Shares(o, a, p, s)
  BY <1>0, <1>1
<1>6. IsSeq(mid)
  BY <1>0, <1>2, <1>4, <1>5, Rebuilt
<1>7. PICK b, bits, bm : b = UpdateData(cols, u, p, s, FALSE) /\ bits = THoff(u) - HeapHeader /\ bm = Bitmap(u)
  OBVIOUS
<1>8. PICK h : Placed(b, p, s, h, bits, mid, bm, u)
  <2>1. mid = Middle(Attrs(cols, u), p, s)
    BY <1>1, <1>4
  <2> QED
    BY <1>2, <1>3, <1>6, <1>7, <2>1, UpdatePlaced
<1>9. PICK k : k = Skipped(p, s)
  OBVIOUS
<1>10. /\ (IF p > 0 THEN b[1][2] ELSE 0) = p
       /\ (IF s > 0 THEN b[IF p > 0 THEN 3 ELSE 1][2] ELSE 0) = s
       /\ h = wal_heap_header(SubSeq(b, k + 1, Len(b)), FALSE) /\ h # Bad
       /\ h.natts = Len(u) /\ h.nulls = HasNulls(u) /\ h.hoff = THoff(u) /\ h.len = 5
  BY <1>8, <1>9 DEF Placed
<1>11. k = (IF p > 0 THEN 2 ELSE 0) + (IF s > 0 THEN 2 ELSE 0)
  BY <1>9 DEF Skipped
<1>12. PICK pay : pay = IF p + s = 0 THEN SubSeq(b, (k + 5) + 1, Len(b))
                        ELSE UpdatePayload(b, k + 5, h.hoff - HeapHeader, p, s, old.attrs)
  OBVIOUS
<1>13. d = decode_update_new_tuple(b, p > 0, s > 0, old, cols, toast, FALSE)
  BY <1>7 DEF Updates
<1>14. d = IF p + s > (IF old.attrs = NoAttrs THEN 0 ELSE Len(old.attrs)) THEN Bad
           ELSE decode_tuple_payload(pay, h.natts, h.nulls, h.hoff, cols, toast, old.row)
  <2>1. PICK hp, hs : hp = (p > 0) /\ hs = (s > 0)
    BY Zenon
  <2>2. /\ p = IF hp THEN b[1][2] ELSE 0
        /\ s = IF hs THEN b[IF hp THEN 3 ELSE 1][2] ELSE 0
        /\ k = (IF hp THEN 2 ELSE 0) + (IF hs THEN 2 ELSE 0)
    BY <1>10, <1>11, <2>1
  <2>3. pay = IF p + s = 0 THEN SubSeq(b, (k + h.len) + 1, Len(b))
              ELSE UpdatePayload(b, k + h.len, h.hoff - HeapHeader, p, s, old.attrs)
    BY <1>10, <1>12
  <2>4. d = decode_update_new_tuple(b, hp, hs, old, cols, toast, FALSE)
    BY <1>13, <2>1, Zenon
  <2>5. Unfolds(d, b, hp, hs, old, cols, toast, p, s, k, h, pay)
    BY <1>10, <2>2, <2>3, <2>4 DEF Unfolds
  <2>6. d = Unfolded(old, cols, toast, p, s, h, pay)
    BY <2>5, UpdateUnfolds
  <2> QED
    BY <2>6, Zenon DEF Unfolded
<1>15. (p + s > (IF old.attrs = NoAttrs THEN 0 ELSE Len(old.attrs))) <=> (p + s > 0 /\ old.attrs = NoAttrs)
  <2>1. CASE old.attrs = NoAttrs
    BY <2>1
  <2>2. CASE old.attrs # NoAttrs
    <3>1. Len(old.attrs) = Len(o)
      BY <1>0, <2>2
    <3>2. ~(p + s > Len(o))
      BY <1>3
    <3> QED
      BY <2>2, <3>1, <3>2
  <2> QED
    BY <2>1, <2>2
<1>16. ASSUME ~(p + s > 0 /\ old.attrs = NoAttrs) PROVE pay = Payload(cols, u)
  <2>1. Payload(cols, u) = bm \o a
    BY <1>1, <1>7 DEF Payload
  <2>2. CASE p + s = 0
    <3>1. mid = a
      BY <1>2, <1>3, <1>4, <2>2, MiddleWhole
    <3>2. pay = SubSeq(b, (k + 5) + 1, Len(b))
      BY <1>12, <2>2
    <3>3. SubSeq(b, (k + 5) + 1, Len(b)) = bm \o mid
      BY <1>8, <1>9 DEF Placed
    <3> QED
      BY <2>1, <3>1, <3>2, <3>3
  <2>3. CASE p + s # 0
    <3>1. old.attrs = o
      <4>1. p + s > 0
        BY <1>3, <2>3
      <4> QED
        BY <1>0, <1>16, <4>1
    <3>2. h.hoff - HeapHeader = bits
      BY <1>8 DEF Placed
    <3>3. pay = UpdatePayload(b, k + 5, bits, p, s, o)
      BY <1>12, <2>3, <3>1, <3>2
    <3>4. /\ SubSeq(b, (k + 5) + 1, (k + 5) + bits) = bm
          /\ SubSeq(b, ((k + 5) + bits) + 1, Len(b)) = mid
          /\ IsSeq(bm)
      BY <1>8, <1>9 DEF Placed
    <3>5. pay = ((bm \o SubSeq(o, 1, p)) \o mid) \o SubSeq(o, Len(o) - s + 1, Len(o))
      BY <3>3, <3>4 DEF UpdatePayload
    <3>6. InParts(((bm \o SubSeq(o, 1, p)) \o mid) \o SubSeq(o, Len(o) - s + 1, Len(o)), bm, a)
      BY <1>0, <1>2, <1>4, <1>5, <3>4, PayloadRebuilt
    <3>7. pay = bm \o a
      BY <3>5, <3>6 DEF InParts
    <3> QED
      BY <2>1, <3>7
  <2> QED
    BY <2>2, <2>3
<1>17. d = IF p + s > 0 /\ old.attrs = NoAttrs THEN Bad
           ELSE decode_tuple_payload(Payload(cols, u), Len(u), HasNulls(u), THoff(u), cols, toast, old.row)
  <2>1. CASE p + s > 0 /\ old.attrs = NoAttrs
    BY <1>14, <1>15, <2>1
  <2>2. CASE ~(p + s > 0 /\ old.attrs = NoAttrs)
    BY <1>10, <1>14, <1>15, <1>16, <2>2
  <2> QED
    BY <2>1, <2>2
<1> QED
  BY <1>17 DEF UpdateRead

-----------------------------------------------------------------------------
\* encode_attrs.

\* Where a value keeps the form the server gave it.
IsPlain(col, a) ==
    /\ a.form \in {"null", "fixed", "short", "long"} /\ (~col.live => a.form = "null")
    /\ a.form # "null" => from_value(col, to_value(col, a.v)) = a.v

\* Encoding such a value lays it out as the server does.
LEMMA EncodeIs ==
    ASSUME NEW buf, NEW col, IsColumn(col), NEW i, NEW a, IsAttr(col, a), IsPlain(col, a), a.form # "null"
    PROVE  EncodeStep(buf, col, Shown(col, a)) \in {NoAttrs, Fill(buf, col, i, a)}
<1>1. PICK v, x : v = a.v /\ x = Shown(col, a)
  OBVIOUS
<1>2. x # Null /\ from_value(col, x.v) = v /\ v # Error
  <2>1. x.v = to_value(col, v)
    BY <1>1 DEF Shown
  <2>2. from_value(col, to_value(col, v)) = v
    BY <1>1 DEF IsPlain
  <2> QED
    BY <1>1, <2>1, <2>2, NotNull, AttrIs
<1>3. CASE buf = NoAttrs \/ (col.len < 0 /\ Len(v) > ShortMax)
  BY <1>1, <1>2, <1>3 DEF EncodeStep
<1>4. CASE buf # NoAttrs /\ ~(col.len < 0 /\ Len(v) > ShortMax)
  <2>1. EncodeStep(buf, col, x) = EncodeValue(buf, col, v)
    BY <1>2, <1>4 DEF EncodeStep
  <2>2. col.len \in Int
    BY DEF IsColumn
  <2>3. CASE a.form = "fixed"
    <3>1. ~(col.len < 0)
      <4>1. col.len >= 0
        BY <2>3, AttrIs
      <4> QED
        BY <2>2, <4>1
    <3>2. EncodeValue(buf, col, v) = buf \o Filler(align_to(Len(buf), col.align) - Len(buf)) \o v
      BY <3>1 DEF EncodeValue
    <3>3. Fill(buf, col, i, a) = buf \o Filler(align_to(Len(buf), col.align) - Len(buf)) \o v
      BY <1>1, <2>3 DEF Fill, External
    <3> QED
      BY <1>1, <2>1, <3>2, <3>3
  <2>4. CASE a.form = "short"
    <3>1. col.len < 0
      BY <2>4, AttrIs
    <3>2. EncodeValue(buf, col, v) = buf \o << <<"short", Len(v) + 1>> >> \o v
      BY <3>1 DEF EncodeValue
    <3>3. Fill(buf, col, i, a) = buf \o << <<"short", Len(v) + 1>> >> \o v
      BY <1>1, <2>4 DEF Fill, External
    <3> QED
      BY <1>1, <2>1, <3>2, <3>3
  <2>5. CASE a.form = "long"
    <3>1. col.len < 0 /\ Len(v) > ShortMax
      BY <1>1, <2>5, AttrIs
    <3> QED
      BY <1>4, <3>1
  <2> QED
    BY <2>3, <2>4, <2>5 DEF IsPlain
<1> QED
  BY <1>3, <1>4

\* The columns encode_attrs goes by.
LEMMA LivesSift ==
    ASSUME NEW cols, IsTable(cols)
    PROVE  \E L : Sifting(L, cols, cols) /\ LiveCols(cols) = L[Len(cols)]
<1>1. Len(cols) \in Nat
  BY SeqLen DEF IsTable
<1>2. PICK L : /\ LiveCols(cols) = L[Len(cols)]
               /\ L[0] = <<>>
               /\ \A k \in 0 .. Len(cols) : k + 1 <= Len(cols) =>
                    L[k + 1] = (IF cols[k + 1].live THEN Append(L[k], cols[k + 1]) ELSE L[k])
  BY <1>1, LivesAre
<1>3. Sifting(L, cols, cols)
  BY <1>2 DEF Sifting, RowStep
<1> QED
  BY <1>2, <1>3

Encoding(E, live, row) ==
    /\ E[0] = <<>>
    /\ \A k \in 0 .. Len(live) : k + 1 <= Len(live) => E[k + 1] = EncodeStep(E[k], live[k + 1], row[k + 1])

\* The bytes, column by column.
LEMMA EncodingIs ==
    ASSUME NEW live, NEW row, Len(live) \in Nat
    PROVE  \E E : Encoding(E, live, row) /\ EncodeRow(row, live) = E[Len(live)]
<1>1. PICK E : /\ EncodeRow(row, live) = E[Len(live)]
               /\ E[0] = <<>>
               /\ \A k \in 0 .. Len(live) : k + 1 <= Len(live) => E[k + 1] = EncodeStep(E[k], live[k + 1], row[k + 1])
  BY EncodingsAre
<1>2. Encoding(E, live, row)
  BY <1>1 DEF Encoding
<1> QED
  BY <1>1, <1>2

\* All that encode_attrs works with.
Encodes(cols, n, t, R, A, L, E) ==
    /\ IsTable(cols) /\ n \in Nat /\ n = Len(cols) /\ IsTuple(cols, t) /\ Rowing(R, cols, t) /\ Area(A, cols, t)
    /\ \A i \in 1 .. Len(t) : IsPlain(cols[i], t[i])
    /\ Sifting(L, cols, cols) /\ Encoding(E, L[n], R[n])

\* A column the row does not see leaves no bytes.
LEMMA AreaStays ==
    ASSUME NEW cols, NEW n, NEW t, NEW R, NEW A, NEW L, NEW E, Encodes(cols, n, t, R, A, L, E),
           NEW m \in Nat, m + 1 <= n, m + 1 <= Len(t) => t[m + 1].form = "null"
    PROVE  A[Reach(t, m + 1)] = A[Reach(t, m)]
<1>1. Len(t) \in Nat
  BY SeqLen DEF Encodes, IsTuple
<1>2. CASE m + 1 <= Len(t)
  <2>1. Reach(t, m) = m /\ Reach(t, m + 1) = m + 1 /\ m \in 0 .. Len(t)
    BY <1>1, <1>2 DEF Reach
  <2>2. A[m + 1] = Fill(A[m], cols[m + 1], m + 1, t[m + 1])
    BY <1>2, <2>1 DEF Encodes, Area
  <2>3. Fill(A[m], cols[m + 1], m + 1, t[m + 1]) = A[m]
    BY <1>2, NullFill
  <2> QED
    BY <2>1, <2>2, <2>3
<1>3. CASE ~(m + 1 <= Len(t))
  BY <1>1, <1>3 DEF Reach
<1> QED
  BY <1>2, <1>3

\* One column.
LEMMA EncodeColumn ==
    ASSUME NEW cols, NEW n, NEW t, NEW R, NEW A, NEW L, NEW E, Encodes(cols, n, t, R, A, L, E),
           NEW m \in Nat, m + 1 <= n, E[Len(L[m])] \in {NoAttrs, A[Reach(t, m)]}
    PROVE  E[Len(L[m + 1])] \in {NoAttrs, A[Reach(t, m + 1)]}
<1>1. /\ IsTable(cols) /\ n \in Nat /\ n = Len(cols) /\ IsTuple(cols, t) /\ Rowing(R, cols, t)
      /\ Sifting(L, cols, cols) /\ Len(t) \in Nat
  BY SeqLen DEF Encodes, IsTuple
<1>2. PICK col : col = cols[m + 1]
  OBVIOUS
<1>3. IsColumn(col)
  <2>1. m + 1 \in 1 .. Len(cols)
    BY <1>1
  <2> QED
    BY <1>1, <1>2, <2>1 DEF IsTable
<1>4. RowGrows(L, m, cols[m + 1].live, cols[m + 1])
  BY <1>1, SiftRound
<1>5. ASSUME m + 1 <= Len(t) PROVE IsAttr(col, t[m + 1]) /\ IsPlain(col, t[m + 1])
  <2>1. m + 1 \in 1 .. Len(t)
    BY <1>1, <1>5
  <2> QED
    BY <1>1, <1>2, <2>1 DEF Encodes, IsTuple
<1>6. CASE ~col.live
  <2>1. Len(L[m + 1]) = Len(L[m])
    BY <1>2, <1>4, <1>6 DEF RowGrows
  <2>2. m + 1 <= Len(t) => t[m + 1].form = "null"
    BY <1>5, <1>6 DEF IsPlain
  <2>3. A[Reach(t, m + 1)] = A[Reach(t, m)]
    BY <2>2, AreaStays
  <2> QED
    BY <2>1, <2>3
<1>7. CASE col.live
  <2>1. PICK j : j = Len(L[m])
    OBVIOUS
  <2>2. j \in Nat /\ Len(L[m + 1]) = j + 1
    BY <1>2, <1>4, <1>7, <2>1 DEF RowGrows
  <2>3. j < Len(L[n]) /\ L[n][j + 1] = col
    <3>1. cols[m + 1].live
      BY <1>2, <1>7
    <3>2. Len(L[m]) < Len(L[n]) /\ L[n][Len(L[m]) + 1] = cols[m + 1]
      BY <1>1, <3>1, SiftHolds
    <3> QED
      BY <1>2, <2>1, <3>2
  <2>4. PICK ll \in Nat : ll = Len(L[n])
    <3>1. n \in 0 .. n
      BY <1>1
    <3> QED
      BY <1>1, <3>1, SiftSeqs
  <2>5. Len(R[m]) = j
    <3>1. PICK f : f = ColumnValues(cols, t)
      OBVIOUS
    <3>2. Sifting(R, cols, f)
      BY <1>1, <3>1, RowSifts
    <3>3. m \in 0 .. n
      BY <1>1
    <3>4. Len(R[m]) = Len(L[m])
      BY <1>1, <3>2, <3>3, SiftLens
    <3> QED
      BY <2>1, <3>4
  <2>6. R[n][j + 1] = ColumnValue(cols, t, m + 1)
    <3>1. cols[m + 1].live
      BY <1>2, <1>7
    <3>2. R[n][Len(R[m]) + 1] = ColumnValue(cols, t, m + 1)
      BY <1>1, <3>1, RowHolds
    <3> QED
      BY <2>5, <3>2
  <2>7. E[j + 1] = EncodeStep(E[j], col, ColumnValue(cols, t, m + 1))
    <3>1. j \in 0 .. Len(L[n]) /\ j + 1 <= Len(L[n])
      BY <2>2, <2>3, <2>4
    <3>2. E[j + 1] = EncodeStep(E[j], L[n][j + 1], R[n][j + 1])
      BY <3>1 DEF Encodes, Encoding
    <3> QED
      BY <2>3, <2>6, <3>2
  <2>8. CASE m + 1 <= Len(t) /\ t[m + 1].form # "null"
    <3>1. PICK a : a = t[m + 1]
      OBVIOUS
    <3>2. IsAttr(col, a) /\ IsPlain(col, a) /\ a.form # "null"
      BY <1>5, <2>8, <3>1
    <3>3. ColumnValue(cols, t, m + 1) = Shown(col, a)
      <4>1. ~(m + 1 > Len(t))
        BY <1>1, <2>8
      <4> QED
        BY <1>2, <2>8, <3>1, <4>1 DEF ColumnValue
    <3>4. PICK e : e = E[j]
      OBVIOUS
    <3>5. EncodeStep(e, col, Shown(col, a)) \in {NoAttrs, Fill(e, col, m + 1, a)}
      BY <1>3, <3>2, EncodeIs
    <3>6. Reach(t, m) = m /\ Reach(t, m + 1) = m + 1 /\ m \in 0 .. Len(t)
      BY <1>1, <2>8 DEF Reach
    <3>7. A[m + 1] = Fill(A[m], col, m + 1, a)
      BY <1>2, <2>8, <3>1, <3>6 DEF Encodes, Area
    <3>8. CASE e = NoAttrs
      BY <2>1, <2>2, <2>7, <3>4, <3>8 DEF EncodeStep
    <3>9. CASE e = A[m]
      BY <2>1, <2>2, <2>7, <3>3, <3>4, <3>5, <3>6, <3>7, <3>9
    <3> QED
      BY <2>1, <3>4, <3>6, <3>8, <3>9
  <2>9. CASE ~(m + 1 <= Len(t) /\ t[m + 1].form # "null")
    <3>1. ColumnValue(cols, t, m + 1) = Null
      BY <1>1, <2>9 DEF ColumnValue
    <3>2. E[j + 1] = E[j]
      BY <2>7, <3>1 DEF EncodeStep
    <3>3. A[Reach(t, m + 1)] = A[Reach(t, m)]
      BY <2>9, AreaStays
    <3> QED
      BY <2>1, <2>2, <3>2, <3>3
  <2> QED
    BY <2>8, <2>9
<1> QED
  BY <1>6, <1>7

\* Bytes made up for a plain tuple are those on the page, or there are none.
LEMMA EncodeExact ==
    ASSUME NEW cols, IsTable(cols), NEW t, IsTuple(cols, t), Plain(cols, t)
    PROVE  encode_attrs(RowOf(cols, t), cols) \in {NoAttrs, Attrs(cols, t)}
<1>1. PICK n \in Nat : n = Len(cols)
  BY SeqLen DEF IsTable
<1>2. Len(t) \in Nat /\ DOMAIN t = 1 .. Len(t) /\ Len(t) <= n
  BY <1>1, SeqLen DEF IsTuple
<1>3. PICK R : Rowing(R, cols, t) /\ RowOf(cols, t) = R[Len(cols)]
  BY RowingIs
<1>4. PICK A : Area(A, cols, t) /\ Attrs(cols, t) = A[Len(t)]
  BY <1>2, AreaIs
<1>5. PICK L : Sifting(L, cols, cols) /\ LiveCols(cols) = L[Len(cols)]
  BY LivesSift
<1>6. Len(L[n]) \in Nat
  <2>1. n \in 0 .. n
    OBVIOUS
  <2> QED
    BY <1>1, <1>5, <2>1, SiftSeqs
<1>7. PICK live, row : live = L[n] /\ row = R[n]
  OBVIOUS
<1>8. PICK E : Encoding(E, live, row) /\ EncodeRow(row, live) = E[Len(live)]
  <2>1. Len(live) \in Nat
    BY <1>6, <1>7
  <2> QED
    BY <2>1, EncodingIs
<1>9. \A i \in 1 .. Len(t) : IsPlain(cols[i], t[i])
  BY <1>2 DEF Plain, IsPlain, NullAttr, Attr
<1>10. Encodes(cols, n, t, R, A, L, E)
  <2>1. Encoding(E, L[n], R[n])
    BY <1>7, <1>8
  <2> QED
    BY <1>1, <1>3, <1>4, <1>5, <1>9, <2>1 DEF Encodes
<1> DEFINE S == {m \in Nat : m <= n => E[Len(L[m])] \in {NoAttrs, A[Reach(t, m)]}}
<1>11. 0 \in S
  <2>1. Reach(t, 0) = 0
    BY <1>2 DEF Reach
  <2>2. L[0] = <<>> /\ A[0] = <<>> /\ E[0] = <<>> /\ Len(<<>>) = 0
    BY <1>4, <1>5, <1>8 DEF Sifting, Area, Encoding
  <2> QED
    BY <2>1, <2>2
<1>12. ASSUME NEW m \in Nat, m \in S PROVE m + 1 \in S
  <2> SUFFICES ASSUME m + 1 <= n PROVE E[Len(L[m + 1])] \in {NoAttrs, A[Reach(t, m + 1)]}
    OBVIOUS
  <2>1. E[Len(L[m])] \in {NoAttrs, A[Reach(t, m)]}
    BY <1>12
  <2> HIDE DEF S
  <2> QED
    BY <1>10, <2>1, EncodeColumn
<1> HIDE DEF S
<1>13. n \in S
  BY <1>11, <1>12, Inductive
<1>14. E[Len(L[n])] \in {NoAttrs, A[Reach(t, n)]}
  BY <1>13 DEF S
<1>15. Reach(t, n) = Len(t)
  <2>1. PICK l \in Nat : l = Len(t)
    BY <1>2
  <2>2. l <= n
    BY <1>2, <2>1
  <2>3. (IF n <= l THEN n ELSE l) = l
    BY <2>2
  <2> QED
    BY <2>1, <2>3 DEF Reach
<1>16. encode_attrs(RowOf(cols, t), cols) = E[Len(L[n])]
  <2>1. encode_attrs(RowOf(cols, t), cols) = EncodeRow(row, live)
    BY <1>1, <1>3, <1>5, <1>7 DEF encode_attrs
  <2> QED
    BY <1>7, <1>8, <2>1
<1> QED
  BY <1>4, <1>14, <1>15, <1>16

-----------------------------------------------------------------------------
\* The life of a row.

\* The tables considered are well-formed.
LEMMA LayoutIs ==
    ASSUME NEW cols \in Layouts
    PROVE  IsTable(cols) /\ \E i \in 1 .. Len(cols) : cols[i].live
<1>1. /\ IsSeq(cols) /\ \E i \in DOMAIN cols : cols[i].live
      /\ \A i \in DOMAIN cols : IsColumn(cols[i])
  BY HeapTupleAssumption
<1>2. DOMAIN cols = 1 .. Len(cols)
  BY <1>1, SeqLen
<1> QED
  BY <1>1, <1>2 DEF IsTable

\* So are their tuples.
LEMMA TuplesAre ==
    ASSUME NEW cols \in Layouts, NEW t \in Tuples[cols] \cup {NoTuple}
    PROVE  IsTuple(cols, t)
<1>1. PICK l \in Nat : l = Len(cols) /\ l > 0
  <2>1. IsSeq(cols) /\ \E i \in 1 .. Len(cols) : cols[i].live
    BY LayoutIs DEF IsTable
  <2>2. Len(cols) \in Nat
    BY <2>1, SeqLen
  <2>3. Len(cols) > 0
    BY <2>1, <2>2
  <2> QED
    BY <2>2, <2>3
<1>2. DOMAIN cols = 1 .. l /\ \A i \in DOMAIN cols : \A a \in AttrChoices(cols[i]) : IsAttr(cols[i], a)
  <2>1. IsSeq(cols)
    BY LayoutIs DEF IsTable
  <2>2. DOMAIN cols = 1 .. l
    BY <1>1, <2>1, SeqLen
  <2> QED
    BY <2>2, HeapTupleAssumption
<1>3. CASE t = NoTuple
  <2>1. IsSeq(t) /\ Len(t) = 0
    BY <1>3, ShortSeqs DEF NoTuple
  <2> QED
    BY <1>1, <2>1 DEF IsTuple
<1>4. CASE t \in Tuples[cols]
  <2>1. PICK n \in {l, l - 1} : t \in TuplesOf(cols, n)
    BY <1>1, <1>4 DEF Tuples
  <2>2. n \in Nat /\ n <= l
    BY <1>1, <2>1
  <2>3. PICK V : t \in [1 .. n -> V] /\ \A i \in 1 .. n : t[i] \in AttrChoices(cols[i])
    BY <2>1 DEF TuplesOf
  <2>4. t = [k \in 1 .. n |-> t[k]]
    BY <2>3
  <2>5. IsSeq(t) /\ Len(t) = n
    BY <2>2, <2>4, FunSeq
  <2>6. ASSUME NEW i \in 1 .. n PROVE IsAttr(cols[i], t[i])
    <3>1. i \in 1 .. l
      BY <2>2
    <3> QED
      BY <1>2, <2>3, <3>1
  <2> QED
    BY <1>1, <2>2, <2>5, <2>6 DEF IsTuple
<1> QED
  BY <1>3, <1>4

\* The cache of an action.
LEMMA CacheServes ==
    ASSUME NEW ids, NEW all \in BOOLEAN
    PROVE  Serves(Cached(ids, all), ids, all \/ ids = {})
<1>1. DOMAIN Cached(ids, all) = ids
  BY DEF Cached
<1>2. CASE ids = {}
  BY <1>1, <1>2 DEF Serves
<1>3. CASE ids # {}
  <2>1. (all \/ ids = {}) = all
    BY <1>3
  <2>2. Serves(Cached(ids, all), ids, all)
    BY <1>1 DEF Serves
  <2> QED
    BY <2>1, <2>2
<1> QED
  BY <1>2, <1>3

\* What may be known of a row.
KnownOf(cols, t) == {Absent} \cup {[row |-> RowOf(cols, t), attrs |-> x] : x \in {NoAttrs, Attrs(cols, t)}}

\* A known row is not mistaken for a missing one.
LEMMA KnownIs ==
    ASSUME NEW cols \in Layouts, NEW t, NEW x
    PROVE  [row |-> RowOf(cols, t), attrs |-> x] # Absent /\ RowOf(cols, t) # <<>>
<1>1. RowOf(cols, t) # <<>>
  <2>1. IsTable(cols)
    BY LayoutIs
  <2>2. PICK i \in 1 .. Len(cols) : cols[i].live
    BY LayoutIs
  <2> QED
    BY <2>1, <2>2, RowThere
<1>2. PICK r : r = RowOf(cols, t)
  OBVIOUS
<1>3. [row |-> r, attrs |-> x].row = r /\ Absent.row = <<>>
  BY DEF Absent
<1> QED
  BY <1>1, <1>2, <1>3

\* A change is decoded or dropped.
LEMMA DecodedIs ==
    ASSUME NEW cols \in Layouts, NEW t, NEW d, NEW good, Ends(d, cols, t, good)
    PROVE  Decoded(d) \in KnownOf(cols, t) /\ (good => Decoded(d) # Absent)
<1>1. PICK k : k = [row |-> RowOf(cols, t), attrs |-> Attrs(cols, t)]
  OBVIOUS
<1>2. k # Absent
  BY <1>1, KnownIs
<1>3. k \in KnownOf(cols, t) /\ Absent \in KnownOf(cols, t)
  BY <1>1 DEF KnownOf
<1>4. k # Bad /\ k # SchemaDrift
  BY <1>1 DEF Bad, SchemaDrift
<1>5. (d = Bad \/ d = k) /\ (good => d = k)
  BY <1>1 DEF Ends
<1> QED
  BY <1>2, <1>3, <1>4, <1>5 DEF Decoded

\* Every way an inserted tuple is read.
InsertDecoded(cols, t, path, all) ==
    LET toast == Cached(ExternalOf(t), all)
        neon  == path = "neon"
        b     == WalHeader(t, neon) \o Payload(cols, t)
        early == SubSeq(cols, 1, Len(t) - 1)
    IN  CASE path \in {"wal", "neon"} -> decode_insert_tuple(b, cols, toast, neon)
          [] path = "early" -> decode_insert_tuple(b, early, toast, neon)
          [] path = "multi" -> decode_multi_insert(MultiData(cols, <<t, t>>), 2, cols, toast)[2]
          [] path = "image" -> decode_tuple_from_page(OnPage(cols, t), cols, toast)

\* The whole tuple is there: it is decoded unless chunks are missing.
LEMMA InsertEnds ==
    ASSUME NEW cols, IsTable(cols), NEW t, IsTuple(cols, t), NEW path \in {"wal", "neon", "multi", "image"},
           NEW all \in BOOLEAN
    PROVE  Ends(InsertDecoded(cols, t, path, all), cols, t, all \/ ExternalOf(t) = {})
<1>1. PICK ids, toast : ids = ExternalOf(t) /\ toast = Cached(ids, all)
  OBVIOUS
<1>2. PICK good : good = (all \/ ids = {})
  OBVIOUS
<1>3. Serves(toast, ids, good)
  BY <1>1, <1>2, CacheServes
<1>4. PICK d : d = decode_tuple_payload(Payload(cols, t), Len(t), HasNulls(t), THoff(t), cols, toast, <<>>)
  OBVIOUS
<1>5. Ends(d, cols, t, good /\ ExternalOf(t) \subseteq ids)
  BY <1>3, <1>4, FreshDecodes
<1>6. Ends(d, cols, t, good)
  BY <1>1, <1>5 DEF Ends
<1>7. InsertDecoded(cols, t, path, all) = d
  <2>1. CASE path \in {"wal", "neon"}
    <3>1. PICK neon \in BOOLEAN : neon = (path = "neon")
      OBVIOUS
    <3>2. decode_insert_tuple(WalHeader(t, neon) \o Payload(cols, t), cols, toast, neon) = d
      BY <1>4, InsertReads
    <3>3. InsertDecoded(cols, t, path, all)
            = decode_insert_tuple(WalHeader(t, neon) \o Payload(cols, t), cols, toast, neon)
      BY <1>1, <2>1, <3>1 DEF InsertDecoded
    <3> QED
      BY <3>2, <3>3
  <2>2. CASE path = "multi"
    <3>1. decode_multi_insert(MultiData(cols, <<t, t>>), 2, cols, toast)[2] = d
      BY <1>4, MultiReads
    <3>2. InsertDecoded(cols, t, path, all) = decode_multi_insert(MultiData(cols, <<t, t>>), 2, cols, toast)[2]
      BY <1>1, <2>2 DEF InsertDecoded
    <3> QED
      BY <3>1, <3>2
  <2>3. CASE path = "image"
    <3>1. decode_tuple_from_page(OnPage(cols, t), cols, toast) = d
      BY <1>4, PageReads
    <3>2. InsertDecoded(cols, t, path, all) = decode_tuple_from_page(OnPage(cols, t), cols, toast)
      BY <1>1, <2>3 DEF InsertDecoded
    <3> QED
      BY <3>1, <3>2
  <2> QED
    BY <2>1, <2>2, <2>3
<1> QED
  BY <1>1, <1>2, <1>6, <1>7

\* A tuple with a column the engine has not heard of.
LEMMA EarlyDrifts ==
    ASSUME NEW cols, IsTable(cols), NEW t, IsTuple(cols, t), Len(t) > 1, NEW all \in BOOLEAN
    PROVE  InsertDecoded(cols, t, "early", all) = SchemaDrift
<1>1. PICK n \in Nat : n = Len(t) /\ n > 1
  BY SeqLen DEF IsTuple
<1>2. PICK l \in Nat : l = Len(cols) /\ n <= l
  BY <1>1, SeqLen DEF IsTable, IsTuple
<1>3. PICK toast, early : toast = Cached(ExternalOf(t), all) /\ early = SubSeq(cols, 1, Len(t) - 1)
  OBVIOUS
<1>4. Len(early) = n - 1
  <2>1. PICK j \in Nat : j = n - 1
    BY <1>1
  <2>2. 1 \in Nat /\ 1 <= 1 /\ 1 <= j + 1 /\ j <= Len(cols) /\ IsSeq(cols)
    BY <1>2, <2>1 DEF IsTable
  <2>3. Len(SubSeq(cols, 1, j)) = j + 1 - 1
    BY <2>2, Part
  <2> QED
    BY <1>1, <1>3, <2>1, <2>3
<1>5. InsertDecoded(cols, t, "early", all)
        = decode_insert_tuple(WalHeader(t, FALSE) \o Payload(cols, t), early, toast, FALSE)
  BY <1>3 DEF InsertDecoded
<1>6. decode_insert_tuple(WalHeader(t, FALSE) \o Payload(cols, t), early, toast, FALSE)
        = decode_tuple_payload(Payload(cols, t), Len(t), HasNulls(t), THoff(t), early, toast, <<>>)
  BY InsertReads
<1>7. Len(t) > Len(early)
  BY <1>1, <1>4
<1>8. decode_tuple_payload(Payload(cols, t), Len(t), HasNulls(t), THoff(t), early, toast, <<>>) = SchemaDrift
  BY <1>7 DEF decode_tuple_payload
<1> QED
  BY <1>5, <1>6, <1>8

\* The inductive invariant: unless it holds a guess, the entry is that of the
\* row's current version, or none for want of something (or after an image).
RowInv ==
    /\ phys \in Layouts /\ cur \in Tuples[phys] \cup {NoTuple} /\ blind \in BOOLEAN
    /\ ~blind => known \in KnownOf(phys, cur) /\ (cur # NoTuple /\ ~lost /\ ~imaged => known # Absent)

\* Nothing is known of a row that is not there.
LEMMA InitRowInv == InitRow => RowInv
<1> SUFFICES ASSUME InitRow PROVE RowInv
  OBVIOUS
<1>1. phys \in Layouts /\ cur = NoTuple /\ known = Absent /\ lost = FALSE /\ blind = FALSE
  BY DEF InitRow
<1>2. known \in KnownOf(phys, cur)
  BY <1>1 DEF KnownOf
<1> QED
  BY <1>1, <1>2 DEF RowInv

\* INSERT.
LEMMA InsertInv ==
    ASSUME RowInv, NEW t \in Tuples[phys], NEW path \in {"wal", "neon", "multi", "image", "early"},
           NEW all \in BOOLEAN, InsertRow(t, path, all)
    PROVE  RowInv'
<1>1. phys \in Layouts /\ blind \in BOOLEAN
  BY DEF RowInv
<1>2. PICK cols : cols = phys
  OBVIOUS
<1>3. cols \in Layouts /\ IsTable(cols) /\ IsTuple(cols, t)
  BY <1>1, <1>2, LayoutIs, TuplesAre
<1>4. phys' = cols /\ cur' = t /\ blind' = blind
  BY <1>2 DEF InsertRow
<1>5. /\ known' = Decoded(InsertDecoded(cols, t, path, all))
      /\ lost' = (path = "early" \/ (~all /\ ExternalOf(t) # {}))
      /\ path = "early" => Len(t) > 1
  BY <1>2 DEF InsertRow, InsertDecoded
<1>6. known' \in KnownOf(cols, t) /\ (~lost' => known' # Absent)
  <2>1. CASE path = "early"
    <3>1. InsertDecoded(cols, t, path, all) = SchemaDrift
      BY <1>3, <1>5, <2>1, EarlyDrifts
    <3>2. known' = Absent
      BY <1>5, <3>1 DEF Decoded
    <3> QED
      BY <1>5, <2>1, <3>2 DEF KnownOf
  <2>2. CASE path # "early"
    <3>1. PICK d, good : d = InsertDecoded(cols, t, path, all) /\ good = (all \/ ExternalOf(t) = {})
      OBVIOUS
    <3>2. path \in {"wal", "neon", "multi", "image"}
      BY <2>2
    <3>3. Ends(d, cols, t, good)
      BY <1>3, <3>1, <3>2, InsertEnds
    <3>4. Decoded(d) \in KnownOf(cols, t) /\ (good => Decoded(d) # Absent)
      BY <1>3, <3>3, DecodedIs
    <3> QED
      BY <1>5, <2>2, <3>1, <3>4
  <2> QED
    BY <2>1, <2>2
<1> QED
  BY <1>1, <1>2, <1>4, <1>6 DEF RowInv

\* UPDATE, from the record.
LEMMA UpdateInv ==
    ASSUME RowInv, cur # NoTuple, NEW u \in NewVersions[phys],
           NEW p \in {0, Shared(Attrs(phys, cur), Attrs(phys, u))},
           NEW s \in {0, SharedEnd(Attrs(phys, cur), Attrs(phys, u), p)},
           NEW seen \in {"all", "some", "none"}, UpdateRow(u, p, s, seen)
    PROVE  RowInv'
<1>1. phys \in Layouts /\ cur \in Tuples[phys] /\ blind \in BOOLEAN
  BY DEF RowInv
<1>2. PICK cols, t, k : cols = phys /\ t = cur /\ k = known
  OBVIOUS
<1>3. cols \in Layouts /\ u \in Tuples[cols]
  BY <1>1, <1>2 DEF NewVersions
<1>4. IsTable(cols) /\ IsTuple(cols, t) /\ IsTuple(cols, u)
  BY <1>1, <1>2, <1>3, LayoutIs, TuplesAre
<1>5. phys' = cols /\ cur' = u /\ blind' = (blind \/ seen = "none")
  BY <1>2 DEF UpdateRow
<1>6. ASSUME ~blind' PROVE known' \in KnownOf(cols, u) /\ (~lost' => known' # Absent)
  <2>1. ~blind /\ seen \in {"all", "some"}
    BY <1>5, <1>6
  <2>2. k \in KnownOf(cols, t)
    BY <1>2, <2>1 DEF RowInv
  <2>3. k.attrs \in {NoAttrs, Attrs(cols, t)} /\ k.row \in {<<>>, RowOf(cols, t)} /\ (k # Absent => k.row # <<>>)
    <3>1. CASE k = Absent
      BY <3>1 DEF Absent
    <3>2. CASE k # Absent
      <4>1. PICK x \in {NoAttrs, Attrs(cols, t)} : k = [row |-> RowOf(cols, t), attrs |-> x]
        BY <2>2, <3>2 DEF KnownOf
      <4>2. k.attrs = x /\ k.row = RowOf(cols, t)
        BY <4>1
      <4>3. RowOf(cols, t) # <<>>
        BY <1>3, KnownIs
      <4> QED
        BY <4>1, <4>2, <4>3
    <3> QED
      BY <3>1, <3>2
  <2>4. PICK o, a, ids, toast : /\ o = Attrs(cols, t) /\ a = Attrs(cols, u) /\ ids = Logged(t, u)
                                /\ toast = Cached(ids, seen = "all")
    OBVIOUS
  <2>5. IsSeq(o) /\ IsSeq(a)
    BY <1>4, <2>4, AttrsSeq
  <2>6. Shares(o, a, p, s)
    <3>1. p \in {0, Shared(o, a)} /\ s \in {0, SharedEnd(o, a, p)}
      BY <1>2, <2>4
    <3> QED
      BY <2>5, <3>1, SharesIs
  <2>7. PICK d : d = decode_update_new_tuple(UpdateData(cols, u, p, s, FALSE), p > 0, s > 0, k, cols, toast, FALSE)
    OBVIOUS
  <2>8. UpdateRead(d, cols, u, p, s, toast, k)
    <3>1. Shares(o, Attrs(cols, u), p, s) /\ k.attrs \in {NoAttrs, o}
      BY <2>3, <2>4, <2>6
    <3>2. Updates(d, cols, u, o, p, s, toast, k)
      BY <1>4, <2>5, <2>7, <3>1 DEF Updates
    <3> QED
      BY <3>2, UpdateReads
  <2>9. known' = Decoded(d)
    BY <1>2, <2>1, <2>4, <2>7 DEF UpdateRow
  <2>10. lost' = \/ p + s > 0 /\ k.attrs = NoAttrs
                 \/ (IF seen = "all" THEN {} ELSE ids) # {}
                 \/ Kept(t, u) # {} /\ k = Absent
    BY <1>2, <2>4 DEF UpdateRow
  <2>11. CASE p + s > 0 /\ k.attrs = NoAttrs
    <3>1. d = Bad /\ lost' = TRUE
      BY <2>8, <2>10, <2>11 DEF UpdateRead
    <3>2. known' = Absent
      BY <2>9, <3>1 DEF Decoded
    <3> QED
      BY <3>1, <3>2 DEF KnownOf
  <2>12. CASE ~(p + s > 0 /\ k.attrs = NoAttrs)
    <3>1. d = decode_tuple_payload(Payload(cols, u), Len(u), HasNulls(u), THoff(u), cols, toast, k.row)
      BY <2>8, <2>12 DEF UpdateRead
    <3>2. PICK all \in BOOLEAN : all = (seen = "all" \/ ids = {})
      OBVIOUS
    <3>3. Serves(toast, Logged(t, u), all)
      <4>1. Serves(Cached(ids, seen = "all"), ids, (seen = "all") \/ ids = {})
        BY CacheServes
      <4> QED
        BY <2>4, <3>2, <4>1
    <3>4. PICK old : old = k.row /\ old \in {<<>>, RowOf(cols, t)}
      BY <2>3
    <3>5. d = decode_tuple_payload(Payload(cols, u), Len(u), HasNulls(u), THoff(u), cols, toast, old)
      BY <3>1, <3>4
    <3>6. Ends(d, cols, u, all /\ (old # <<>> \/ Kept(t, u) = {}))
      BY <1>4, <3>3, <3>4, <3>5, KeptDecodes
    <3>7. PICK good : good = (all /\ (old # <<>> \/ Kept(t, u) = {}))
      OBVIOUS
    <3>8. Decoded(d) \in KnownOf(cols, u) /\ (good => Decoded(d) # Absent)
      BY <1>3, <3>6, <3>7, DecodedIs
    <3>9. ~lost' => good
      BY <2>3, <2>10, <3>2, <3>4, <3>7
    <3> QED
      BY <2>9, <3>8, <3>9
  <2> QED
    BY <2>11, <2>12
<1>7. blind' \in BOOLEAN
  BY <1>1, <1>5
<1> QED
  BY <1>3, <1>5, <1>6, <1>7 DEF RowInv

\* UPDATE, from a page image.
LEMMA ImageInv ==
    ASSUME RowInv, cur # NoTuple, NEW u \in NewVersions[phys], UpdateImage(u)
    PROVE  RowInv'
<1>1. phys \in Layouts /\ cur \in Tuples[phys] /\ blind \in BOOLEAN
  BY DEF RowInv
<1>2. PICK cols, t : cols = phys /\ t = cur
  OBVIOUS
<1>3. cols \in Layouts /\ u \in Tuples[cols]
  BY <1>1, <1>2 DEF NewVersions
<1>4. IsTable(cols) /\ IsTuple(cols, t) /\ IsTuple(cols, u)
  BY <1>1, <1>2, <1>3, LayoutIs, TuplesAre
<1>5. PICK ids, toast : ids = Logged(t, u) /\ toast = Cached(ids, TRUE)
  OBVIOUS
<1>6. PICK d : d = decode_tuple_from_page(OnPage(cols, u), cols, toast)
  OBVIOUS
<1>7. /\ phys' = cols /\ cur' = u /\ blind' = blind /\ known' = Decoded(d)
      /\ lost' = (Kept(t, u) # {} /\ known = Absent) /\ imaged' = (Kept(t, u) # {} /\ known # Absent)
  BY <1>2, <1>5, <1>6 DEF UpdateImage
<1>8. d = decode_tuple_payload(Payload(cols, u), Len(u), HasNulls(u), THoff(u), cols, toast, <<>>)
  BY <1>4, <1>6, PageReads
<1>9. Serves(toast, Logged(t, u), TRUE)
  <2>1. Serves(Cached(ids, TRUE), ids, TRUE \/ ids = {})
    BY CacheServes
  <2> QED
    BY <1>5, <2>1
<1>10. PICK old : old = <<>>
  OBVIOUS
<1>11. Ends(d, cols, u, TRUE /\ (old # <<>> \/ Kept(t, u) = {}))
  <2>1. old \in {<<>>, RowOf(cols, t)}
    BY <1>10
  <2>2. d = decode_tuple_payload(Payload(cols, u), Len(u), HasNulls(u), THoff(u), cols, toast, old)
    BY <1>8, <1>10
  <2> QED
    BY <1>4, <1>9, <2>1, <2>2, KeptDecodes
<1>12. PICK good : good = (TRUE /\ (old # <<>> \/ Kept(t, u) = {}))
  OBVIOUS
<1>13. Decoded(d) \in KnownOf(cols, u) /\ (good => Decoded(d) # Absent)
  BY <1>3, <1>11, <1>12, DecodedIs
<1>14. ~lost' /\ ~imaged' => good
  BY <1>7, <1>12
<1> QED
  BY <1>1, <1>3, <1>7, <1>13, <1>14 DEF RowInv

\* Restart.
LEMMA RestartInv ==
    ASSUME RowInv, known # Absent, NEW page, Restart(page)
    PROVE  RowInv'
<1>1. phys \in Layouts /\ cur \in Tuples[phys] \cup {NoTuple} /\ blind \in BOOLEAN
  BY DEF RowInv
<1>2. PICK cols, t, k, made : cols = phys /\ t = cur /\ k = known /\ made = encode_attrs(k.row, cols)
  OBVIOUS
<1>3. cols \in Layouts /\ IsTable(cols) /\ IsTuple(cols, t)
  BY <1>1, <1>2, LayoutIs, TuplesAre
<1>4. PICK x : x = IF made = NoAttrs THEN page ELSE made
  OBVIOUS
<1>5. /\ phys' = phys /\ cur' = cur /\ lost' = lost /\ k # Absent /\ known' = [k EXCEPT !.attrs = x]
      /\ blind' = (blind \/ IF made = NoAttrs THEN page \notin {NoAttrs, Attrs(cols, t)} ELSE ~Plain(cols, t))
  BY <1>2, <1>4 DEF Restart
<1>6. ASSUME ~blind' PROVE known' \in KnownOf(cols, t) /\ known' # Absent
  <2>1. ~blind /\ (IF made = NoAttrs THEN page \in {NoAttrs, Attrs(cols, t)} ELSE Plain(cols, t))
    BY <1>5, <1>6
  <2>2. PICK y : k = [row |-> RowOf(cols, t), attrs |-> y]
    BY <1>2, <1>5, <2>1 DEF RowInv, KnownOf
  <2>3. made = encode_attrs(RowOf(cols, t), cols)
    <3>1. k.row = RowOf(cols, t)
      BY <2>2
    <3> QED
      BY <1>2, <3>1
  <2>4. made # NoAttrs => made = Attrs(cols, t)
    BY <1>3, <2>1, <2>3, EncodeExact
  <2>5. x \in {NoAttrs, Attrs(cols, t)}
    BY <1>4, <2>1, <2>4
  <2>6. known' = [row |-> RowOf(cols, t), attrs |-> x]
    BY <1>5, <2>2
  <2>7. known' # Absent
    BY <1>3, <2>6, KnownIs
  <2> QED
    BY <2>5, <2>6, <2>7 DEF KnownOf
<1>7. blind' \in BOOLEAN
  BY <1>1, <1>5
<1> QED
  BY <1>1, <1>2, <1>5, <1>6, <1>7 DEF RowInv

\* Every step keeps it.
LEMMA NextRowInv == RowInv /\ [NextRow]_rowVars => RowInv'
<1> SUFFICES ASSUME RowInv, [NextRow]_rowVars PROVE RowInv'
  OBVIOUS
<1>1. CASE cur = NoTuple /\ \E t \in Tuples[phys], path \in {"wal", "neon", "multi", "image", "early"},
             all \in BOOLEAN : InsertRow(t, path, all)
  BY <1>1, InsertInv
<1>2. ASSUME cur # NoTuple, NEW u \in NewVersions[phys],
             NEW p \in {0, Shared(Attrs(phys, cur), Attrs(phys, u))},
             NEW s \in {0, SharedEnd(Attrs(phys, cur), Attrs(phys, u), p)},
             NEW seen \in IF Logged(cur, u) = {} THEN {"all"} ELSE {"all", "some", "none"},
             UpdateRow(u, p, s, seen)
      PROVE  RowInv'
  <2>1. seen \in {"all", "some", "none"}
    OBVIOUS
  <2> QED
    BY <1>2, <2>1, UpdateInv
<1>3. ASSUME cur # NoTuple, NEW u \in NewVersions[phys], UpdateImage(u) PROVE RowInv'
  BY <1>3, ImageInv
<1>4. ASSUME known # Absent, NEW page \in {NoAttrs} \cup AttrsOf[phys], Restart(page) PROVE RowInv'
  BY <1>4, RestartInv
<1>5. CASE UNCHANGED rowVars
  <2>1. phys' = phys /\ cur' = cur /\ known' = known /\ lost' = lost /\ imaged' = imaged /\ blind' = blind
    BY <1>5 DEF rowVars
  <2> QED
    BY <2>1 DEF RowInv
<1> QED
  BY <1>1, <1>2, <1>3, <1>4, <1>5 DEF NextRow

\* It implies the three invariants.
LEMMA RowInvImplies == RowInv => RowExact /\ BytesExact /\ NoneDropped
<1> SUFFICES ASSUME RowInv PROVE RowExact /\ BytesExact /\ NoneDropped
  OBVIOUS
<1>1. ASSUME ~blind PROVE /\ known.attrs \in {NoAttrs, Attrs(phys, cur)}
                          /\ known # Absent => known.row = RowOf(phys, cur)
  <2>1. known \in KnownOf(phys, cur)
    BY <1>1 DEF RowInv
  <2>2. CASE known = Absent
    BY <2>2 DEF Absent
  <2>3. CASE known # Absent
    <3>1. PICK x \in {NoAttrs, Attrs(phys, cur)} : known = [row |-> RowOf(phys, cur), attrs |-> x]
      BY <2>1, <2>3 DEF KnownOf
    <3>2. known.attrs = x /\ known.row = RowOf(phys, cur)
      BY <3>1
    <3> QED
      BY <3>1, <3>2
  <2> QED
    BY <2>2, <2>3
<1>2. RowExact
  BY <1>1 DEF RowExact
<1>3. BytesExact
  BY <1>1 DEF BytesExact
<1>4. NoneDropped
  BY DEF NoneDropped, RowInv
<1> QED
  BY <1>2, <1>3, <1>4

\* It is an invariant.
LEMMA RowInvHolds == RowSpec => []RowInv
<1>1. InitRow => RowInv
  BY InitRowInv
<1>2. RowInv /\ [NextRow]_rowVars => RowInv'
  BY NextRowInv
<1> QED
  BY <1>1, <1>2, PTL DEF RowSpec

\* handle_record, handle_update, decode_tuple_payload: for any tables and
\* values, what the engine knows of a row is what the source has, column by
\* column, through any sequence of inserts, updates and restarts, unless it
\* holds a guess: bytes that encode_attrs made up and that are not the page's,
\* bytes of another tuple read from a page ahead of the replay, or a value
\* whose chunks were missed.
THEOREM RowsExact == RowSpec => []RowExact
<1>1. RowInv => RowExact
  BY RowInvImplies
<1> QED
  BY <1>1, RowInvHolds, PTL

\* decode_update_new_tuple, encode_attrs, resume_tables: the bytes kept for the
\* next UPDATE are those on the page, or none are kept, unless they are one of
\* those guesses.
THEOREM BytesKeptExact == RowSpec => []BytesExact
<1>1. RowInv => BytesExact
  BY RowInvImplies
<1> QED
  BY <1>1, RowInvHolds, PTL

\* note_decode_error: a change is dropped only when chunks, the old version's
\* bytes or row, or a column's definition are gone, when the row held a guess,
\* or when it is an UPDATE logged as an image that leaves a value alone.
THEOREM DropsJustified == RowSpec => []NoneDropped
<1>1. RowInv => NoneDropped
  BY RowInvImplies
<1> QED
  BY <1>1, RowInvHolds, PTL

=============================================================================
