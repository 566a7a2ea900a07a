--------------------------- MODULE WalReaderProofs ---------------------------
(***************************************************************************)
(* Proofs about module WalReader.  First the stream, for all page, segment *)
(* and header sizes and any alignment: how payload offsets and LSNs        *)
(* correspond across page headers, and where the records lie.  Then the    *)
(* reader, for any stream of records, any page at which it starts and      *)
(* chunks that end anywhere but at unaligned positions of fill (MayEnd).   *)
(***************************************************************************)
EXTENDS WalReader, WalRecordProofs, FunctionTheorems, FiniteSetTheorems, TLAPS

-----------------------------------------------------------------------------
\* Arithmetic.

\* Division with remainder.
LEMMA DivIs ==
    ASSUME NEW a \in Nat, NEW b \in Nat \ {0}
    PROVE  /\ a \div b \in Nat /\ a % b \in Nat /\ a % b < b
           /\ a = (a \div b) * b + (a % b)
OBVIOUS

\* Quotient and remainder are the only ones.
LEMMA DivUnique ==
    ASSUME NEW b \in Nat \ {0}, NEW q \in Nat, NEW r \in Nat, r < b
    PROVE  (q * b + r) \div b = q /\ (q * b + r) % b = r
OBVIOUS

\* What is assumed of the constants, as types.
LEMMA Sizes ==
    /\ PageSize \in Nat \ {0} /\ SegSize \in Nat \ {0}
    /\ ShortHdr \in Nat \ {0} /\ LongHdr \in Nat \ {0} /\ Align \in Nat \ {0}
    /\ RecHdr \in Nat \ {0} /\ LenField \in Nat \ {0}
    /\ NRecords \in Nat \ {0} /\ MaxChunk \in Nat \ {0}
    /\ ShortHdr < PageSize /\ LongHdr < PageSize
    /\ LenField <= Align /\ LenField < RecHdr
BY WalReaderAssumption, WalRecordAssumption

\* Pages per segment.
Pages == SegSize \div PageSize

\* A segment is a whole number of pages; its payload is theirs.
LEMMA PagesIs ==
    /\ Pages \in Nat \ {0} /\ SegSize = Pages * PageSize
    /\ FirstPayload \in Nat \ {0} /\ PagePayload \in Nat \ {0}
    /\ FirstPayload = PageSize - LongHdr /\ PagePayload = PageSize - ShortHdr
    /\ SegPayload = FirstPayload + (Pages - 1) * PagePayload
    /\ SegPayload \in Nat \ {0} /\ FirstPayload <= SegPayload
<1>1. Pages \in Nat /\ SegSize = Pages * PageSize
  BY Sizes, DivIs, WalReaderAssumption DEF Pages
<1>2. Pages # 0
  BY <1>1, Sizes
<1>3. /\ FirstPayload \in Nat \ {0} /\ PagePayload \in Nat \ {0}
      /\ FirstPayload = PageSize - LongHdr /\ PagePayload = PageSize - ShortHdr
  BY Sizes DEF FirstPayload, PagePayload
<1>4. SegPayload = FirstPayload + (Pages - 1) * PagePayload
  BY DEF SegPayload, Pages
<1>5. Pages - 1 \in Nat /\ (Pages - 1) * PagePayload \in Nat
  BY <1>1, <1>2, <1>3
<1> QED
  BY <1>1, <1>2, <1>3, <1>4, <1>5

\* Page n begins a segment when n is a multiple of Pages.
LEMMA HeaderOf ==
    ASSUME NEW a \in Nat, NEW b \in Nat, b < Pages
    PROVE  HdrLen(a * SegSize + b * PageSize) = IF b = 0 THEN LongHdr ELSE ShortHdr
<1> USE Sizes, PagesIs
<1>1. b * PageSize \in Nat /\ b * PageSize < SegSize
  <2>1. Pages >= b + 1
    OBVIOUS
  <2>2. Pages * PageSize >= (b + 1) * PageSize
    BY <2>1
  <2> QED
    BY <2>2
<1>2. (a * SegSize + b * PageSize) % SegSize = b * PageSize
  BY <1>1, DivUnique
<1>3. b * PageSize = 0 <=> b = 0
  OBVIOUS
<1> QED
  BY <1>2, <1>3 DEF HdrLen

\* Where the payload of a page starts, counted in payload bytes.
PageFirst(a, b) == a * SegPayload + (IF b = 0 THEN 0 ELSE FirstPayload + (b - 1) * PagePayload)
Payload(b) == IF b = 0 THEN FirstPayload ELSE PagePayload

\* Payload byte c of page b of segment a.
LEMMA PhysicalOf ==
    ASSUME NEW a \in Nat, NEW b \in Nat, b < Pages, NEW c \in Nat, c < Payload(b)
    PROVE  /\ PageFirst(a, b) + c \in Nat
           /\ Physical(PageFirst(a, b) + c)
                = a * SegSize + b * PageSize + HdrLen(a * SegSize + b * PageSize) + c
<1> USE Sizes, PagesIs
<1>1. CASE b = 0
  <2>1. c < FirstPayload /\ c < SegPayload
    BY <1>1 DEF Payload
  <2>2. PageFirst(a, b) + c = a * SegPayload + c
    BY <1>1 DEF PageFirst
  <2>3. (a * SegPayload + c) \div SegPayload = a /\ (a * SegPayload + c) % SegPayload = c
    BY <2>1, DivUnique
  <2>4. Physical(PageFirst(a, b) + c) = a * SegSize + (LongHdr + c)
    BY <2>1, <2>2, <2>3 DEF Physical
  <2>5. HdrLen(a * SegSize + b * PageSize) = LongHdr /\ b * PageSize = 0
    BY <1>1, HeaderOf
  <2>6. a * SegPayload \in Nat /\ a * SegSize \in Nat
    OBVIOUS
  <2> QED
    BY <2>2, <2>4, <2>5, <2>6
<1>2. CASE b # 0
  <2>1. PICK d \in Nat : b = d + 1
    <3>1. b - 1 \in Nat /\ b = (b - 1) + 1
      BY <1>2
    <3> QED
      BY <3>1
  <2>2. PICK s \in Nat : s = d * PagePayload + c
    BY <2>1
  <2>3. PICK r \in Nat : r = FirstPayload + s
    BY <2>2
  <2>4. s \div PagePayload = d /\ s % PagePayload = c
    BY <1>2, <2>1, <2>2, DivUnique DEF Payload
  <2>5. r < SegPayload
    <3>1. (Pages - 1) * PagePayload >= (d + 1) * PagePayload
      BY <2>1
    <3>2. (d + 1) * PagePayload = d * PagePayload + PagePayload
      BY <2>1
    <3>3. d * PagePayload \in Nat /\ (Pages - 1) * PagePayload \in Nat
      BY <2>1
    <3> QED
      BY <1>2, <2>2, <2>3, <3>1, <3>2, <3>3 DEF Payload
  <2>6. PageFirst(a, b) + c = a * SegPayload + r /\ a * SegPayload \in Nat /\ a * SegSize \in Nat
    <3>1. PageFirst(a, b) = a * SegPayload + (FirstPayload + d * PagePayload)
      BY <1>2, <2>1 DEF PageFirst
    <3>2. d * PagePayload \in Nat /\ a * SegPayload \in Nat
      BY <2>1
    <3> QED
      BY <2>2, <2>3, <3>1, <3>2
  <2>7. (a * SegPayload + r) \div SegPayload = a /\ (a * SegPayload + r) % SegPayload = r
    BY <2>5, DivUnique
  <2>8. ~(r < FirstPayload) /\ r - FirstPayload = s
    BY <2>2, <2>3
  <2>9. Physical(a * SegPayload + r) = a * SegSize + (PageSize + d * PageSize + ShortHdr + c)
    BY <2>4, <2>7, <2>8 DEF Physical
  <2>10. HdrLen(a * SegSize + b * PageSize) = ShortHdr
    BY <1>2, HeaderOf
  <2>11. PageSize + d * PageSize = b * PageSize /\ b * PageSize \in Nat
    BY <2>1
  <2> QED
    BY <2>3, <2>6, <2>9, <2>10, <2>11
<1> QED
  BY <1>1, <1>2

\* Every payload byte is a byte of some page.
LEMMA PageOfByte ==
    ASSUME NEW k \in Nat
    PROVE  \E a, b, c \in Nat : b < Pages /\ c < Payload(b) /\ k = PageFirst(a, b) + c
<1> USE Sizes, PagesIs
<1> DEFINE a == k \div SegPayload
           r == k % SegPayload
<1>1. a \in Nat /\ r \in Nat /\ r < SegPayload /\ k = a * SegPayload + r
  BY DivIs, ZenonT(60)
<1> HIDE DEF a, r
<1>2. CASE r < FirstPayload
  <2>1. k = PageFirst(a, 0) + r /\ r < Payload(0) /\ 0 < Pages
    BY <1>1, <1>2 DEF PageFirst, Payload
  <2> QED
    BY <1>1, <2>1
<1>3. CASE ~(r < FirstPayload)
  <2> DEFINE s == r - FirstPayload
             b == s \div PagePayload
             c == s % PagePayload
  <2>1. s \in Nat /\ s < (Pages - 1) * PagePayload /\ r = FirstPayload + s
    BY <1>1, <1>3
  <2>2. b \in Nat /\ c \in Nat /\ c < PagePayload /\ s = b * PagePayload + c
    BY <2>1, DivIs
  <2> HIDE DEF s, b, c
  <2>3. b < Pages - 1
    <3>1. SUFFICES ASSUME b >= Pages - 1 PROVE FALSE
      BY <2>2
    <3>2. b * PagePayload >= (Pages - 1) * PagePayload
      BY <3>1, <2>2
    <3> QED
      BY <3>2, <2>1, <2>2
  <2>4. b + 1 \in Nat /\ b + 1 < Pages /\ c < Payload(b + 1)
    BY <2>2, <2>3 DEF Payload
  <2>5. k = PageFirst(a, b + 1) + c
    <3>1. PageFirst(a, b + 1) = a * SegPayload + (FirstPayload + b * PagePayload)
      BY <2>2 DEF PageFirst
    <3>2. a * SegPayload \in Nat /\ b * PagePayload \in Nat
      BY <1>1, <2>2
    <3> QED
      BY <3>1, <3>2, <1>1, <2>1, <2>2
  <2> QED
    BY <1>1, <2>2, <2>4, <2>5
<1> QED
  BY <1>2, <1>3

\* The first byte of a page is a header; payload and header make a page.
LEMMA PageIs ==
    ASSUME NEW a \in Nat, NEW b \in Nat, b < Pages
    PROVE  /\ a * SegSize + b * PageSize \in Nat
           /\ a * SegSize + b * PageSize = (a * Pages + b) * PageSize
           /\ a * Pages + b \in Nat
           /\ HdrLen(a * SegSize + b * PageSize) \in {LongHdr, ShortHdr}
           /\ HdrLen(a * SegSize + b * PageSize) + Payload(b) = PageSize
           /\ Payload(b) \in Nat \ {0}
<1> USE Sizes, PagesIs
<1>1. HdrLen(a * SegSize + b * PageSize) = IF b = 0 THEN LongHdr ELSE ShortHdr
  BY HeaderOf
<1>2. a * SegSize = (a * Pages) * PageSize
  OBVIOUS
<1>3. (a * Pages + b) * PageSize = (a * Pages) * PageSize + b * PageSize
  OBVIOUS
<1>4. a * SegSize \in Nat /\ b * PageSize \in Nat /\ a * Pages \in Nat
  OBVIOUS
<1>5. Payload(b) \in Nat \ {0} /\ HdrLen(a * SegSize + b * PageSize) + Payload(b) = PageSize
  BY <1>1 DEF Payload
<1> QED
  BY <1>1, <1>2, <1>3, <1>4, <1>5

\* The page after page b of segment a.
LEMMA PageAfter ==
    ASSUME NEW a \in Nat, NEW b \in Nat, b < Pages
    PROVE  \E e, g \in Nat :
              /\ g < Pages
              /\ e * SegSize + g * PageSize = a * SegSize + b * PageSize + PageSize
              /\ PageFirst(e, g) = PageFirst(a, b) + Payload(b)
<1> USE Sizes, PagesIs
<1>0. a * SegSize \in Nat /\ b * PageSize \in Nat /\ a * SegPayload \in Nat
  OBVIOUS
<1>1. CASE b + 1 < Pages
  <2>1. (b + 1) * PageSize = b * PageSize + PageSize
    OBVIOUS
  <2>2. PageFirst(a, b + 1) = a * SegPayload + (FirstPayload + b * PagePayload)
    BY DEF PageFirst
  <2>3. CASE b = 0
    <3>1. PageFirst(a, b) = a * SegPayload + 0 /\ Payload(b) = FirstPayload /\ b * PagePayload = 0
      BY <2>3 DEF PageFirst, Payload
    <3>2. PageFirst(a, b + 1) = PageFirst(a, b) + Payload(b)
      BY <1>0, <2>2, <3>1
    <3> QED
      BY <1>0, <1>1, <2>1, <3>2
  <2>4. CASE b # 0
    <3>1. PageFirst(a, b) = a * SegPayload + (FirstPayload + (b - 1) * PagePayload)
      BY <2>4 DEF PageFirst
    <3>2. b * PagePayload = (b - 1) * PagePayload + PagePayload /\ (b - 1) * PagePayload \in Nat
      BY <2>4
    <3>3. PageFirst(a, b + 1) = PageFirst(a, b) + Payload(b)
      BY <1>0, <2>2, <2>4, <3>1, <3>2 DEF Payload
    <3> QED
      BY <1>0, <1>1, <2>1, <3>3
  <2> QED
    BY <2>3, <2>4
<1>2. CASE b + 1 = Pages
  <2>1. Pages * PageSize = b * PageSize + PageSize
    BY <1>2
  <2>2. (a + 1) * SegSize = a * SegSize + SegSize
    OBVIOUS
  <2>3. PageFirst(a + 1, 0) = a * SegPayload + SegPayload
    <3>1. PageFirst(a + 1, 0) = (a + 1) * SegPayload + 0
      BY DEF PageFirst
    <3> QED
      BY <3>1
  <2>4. PageFirst(a + 1, 0) = PageFirst(a, b) + Payload(b)
    <3>1. CASE b = 0
      <4>1. SegPayload = FirstPayload
        BY <1>2, <3>1
      <4> QED
        BY <1>0, <2>3, <3>1, <4>1 DEF PageFirst, Payload
    <3>2. CASE b # 0
      <4>1. PageFirst(a, b) = a * SegPayload + (FirstPayload + (b - 1) * PagePayload)
        BY <3>2 DEF PageFirst
      <4>2. b * PagePayload = (b - 1) * PagePayload + PagePayload /\ (b - 1) * PagePayload \in Nat
        BY <3>2
      <4>3. SegPayload = FirstPayload + b * PagePayload
        BY <1>2
      <4> QED
        BY <1>0, <2>3, <3>2, <4>1, <4>2, <4>3 DEF Payload
    <3> QED
      BY <3>1, <3>2
  <2> QED
    BY <1>0, <2>1, <2>2, <2>4
<1> QED
  BY <1>1, <1>2

\* DivUnique, for a number that has a name.
LEMMA Modulo ==
    ASSUME NEW b \in Nat \ {0}, NEW x, NEW q \in Nat, NEW r \in Nat, r < b, x = q * b + r
    PROVE  x \div b = q /\ x % b = r
BY DivUnique

\* A payload byte is behind the header of its page.
LEMMA PhysicalIs ==
    ASSUME NEW k \in Nat
    PROVE  /\ Physical(k) \in Nat /\ Physical(k) % PageSize # 0
           /\ \E q \in Nat : /\ q % PageSize = 0 /\ q + HdrLen(q) <= Physical(k)
                             /\ Physical(k) < q + PageSize
                             /\ Physical(k) % PageSize = Physical(k) - q
<1> USE Sizes
<1>1. PICK a, b, c \in Nat : b < Pages /\ c < Payload(b) /\ k = PageFirst(a, b) + c
  BY PageOfByte
<1>2. PICK q, n, h \in Nat :
              /\ q = a * SegSize + b * PageSize /\ q = n * PageSize
              /\ h = HdrLen(q) /\ h # 0 /\ h + Payload(b) = PageSize
              /\ Physical(k) = q + h + c
              /\ Payload(b) \in Nat
  <2>1. PICK q \in Nat : q = a * SegSize + b * PageSize
    BY <1>1, PageIs
  <2>2. PICK n \in Nat : n = a * Pages + b
    BY <1>1, PageIs
  <2>3. /\ q = n * PageSize /\ HdrLen(q) \in {LongHdr, ShortHdr}
        /\ HdrLen(q) + Payload(b) = PageSize /\ Payload(b) \in Nat
    BY <1>1, <2>1, <2>2, PageIs
  <2>4. Physical(k) = q + HdrLen(q) + c
    BY <1>1, <2>1, PhysicalOf
  <2>5. HdrLen(q) \in Nat /\ HdrLen(q) # 0
    BY <2>3
  <2> QED
    BY <2>1, <2>3, <2>4, <2>5
<1>3. PICK d \in Nat : d = h + c
  OBVIOUS
<1>4. d < PageSize /\ d # 0 /\ Physical(k) = n * PageSize + d
  BY <1>1, <1>2, <1>3
<1>5. Physical(k) % PageSize = d
  BY <1>4, Modulo
<1>6. q % PageSize = 0
  <2>1. q = n * PageSize + 0
    BY <1>2
  <2> QED
    BY <2>1, Modulo
<1>7. q + HdrLen(q) <= Physical(k) /\ Physical(k) < q + PageSize /\ d = Physical(k) - q
  BY <1>1, <1>2, <1>3, <1>4
<1> QED
  BY <1>1, <1>2, <1>4, <1>5, <1>6, <1>7

\* The byte after payload byte k is the next one, or a header comes between.
LEMMA PhysicalNext ==
    ASSUME NEW k \in Nat
    PROVE  LET l == Physical(k) + 1
           IN  Physical(k + 1) = IF l % PageSize = 0 THEN l + HdrLen(l) ELSE l
<1> USE Sizes
<1>1. PICK a, b, c \in Nat : b < Pages /\ c < Payload(b) /\ k = PageFirst(a, b) + c
  BY PageOfByte
<1>2. PICK q, n, h \in Nat :
              /\ q = a * SegSize + b * PageSize /\ q = n * PageSize
              /\ h = HdrLen(q) /\ h # 0 /\ h + Payload(b) = PageSize
              /\ Physical(k) = q + h + c
              /\ Payload(b) \in Nat
  <2>1. PICK q \in Nat : q = a * SegSize + b * PageSize
    BY <1>1, PageIs
  <2>2. PICK n \in Nat : n = a * Pages + b
    BY <1>1, PageIs
  <2>3. /\ q = n * PageSize /\ HdrLen(q) \in {LongHdr, ShortHdr}
        /\ HdrLen(q) + Payload(b) = PageSize /\ Payload(b) \in Nat
    BY <1>1, <2>1, <2>2, PageIs
  <2>4. Physical(k) = q + HdrLen(q) + c
    BY <1>1, <2>1, PhysicalOf
  <2>5. HdrLen(q) \in Nat /\ HdrLen(q) # 0
    BY <2>3
  <2> QED
    BY <2>1, <2>3, <2>4, <2>5
<1>3. PageFirst(a, b) \in Int
  BY <1>1, PagesIs DEF PageFirst
<1>4. CASE c + 1 < Payload(b)
  <2>1. k + 1 = PageFirst(a, b) + (c + 1)
    BY <1>1, <1>3
  <2>2. Physical(k + 1) = q + h + (c + 1)
    <3>1. c + 1 \in Nat
      OBVIOUS
    <3>2. Physical(PageFirst(a, b) + (c + 1))
            = a * SegSize + b * PageSize + HdrLen(a * SegSize + b * PageSize) + (c + 1)
      BY <1>1, <1>4, <3>1, PhysicalOf
    <3> QED
      BY <1>2, <2>1, <3>2
  <2>3. PICK d \in Nat : d = h + c + 1
    OBVIOUS
  <2>4. d < PageSize /\ d # 0 /\ Physical(k) + 1 = n * PageSize + d
    BY <1>1, <1>2, <1>4, <2>3
  <2>5. (Physical(k) + 1) % PageSize = d
    BY <2>4, Modulo
  <2> QED
    BY <1>1, <1>2, <2>2, <2>4, <2>5
<1>5. CASE c + 1 = Payload(b)
  <2>1. PICK e, g \in Nat :
              /\ g < Pages
              /\ e * SegSize + g * PageSize = q + PageSize
              /\ PageFirst(e, g) = PageFirst(a, b) + Payload(b)
    BY <1>1, <1>2, PageAfter
  <2>2. k + 1 = PageFirst(e, g) + 0
    BY <1>1, <1>2, <1>3, <1>5, <2>1
  <2>3. 0 < Payload(g)
    BY <2>1, PagesIs DEF Payload
  <2>4. Physical(PageFirst(e, g) + 0)
          = e * SegSize + g * PageSize + HdrLen(e * SegSize + g * PageSize) + 0
    BY <2>1, <2>3, PhysicalOf
  <2>5. Physical(k + 1) = (q + PageSize) + HdrLen(q + PageSize) + 0
    BY <2>1, <2>2, <2>4, Zenon
  <2>6. Physical(k) + 1 = q + PageSize
    BY <1>1, <1>2, <1>5
  <2>7. (q + PageSize) % PageSize = 0
    <3>1. PICK m \in Nat : m = n + 1
      OBVIOUS
    <3>2. PICK x \in Nat : x = q + PageSize
      OBVIOUS
    <3>3. x = m * PageSize + 0
      BY <1>2, <3>1, <3>2
    <3>4. x % PageSize = 0
      BY <3>3, Modulo
    <3> QED
      BY <3>2, <3>4
  <2>8. HdrLen(q + PageSize) \in Nat
    BY DEF HdrLen
  <2> QED
    BY <1>2, <2>5, <2>6, <2>7, <2>8
<1> QED
  BY <1>1, <1>2, <1>4, <1>5

\* A page boundary stands at the first payload byte of its page.
LEMMA PageStands ==
    ASSUME NEW n \in Nat
    PROVE  \E k \in Nat : Physical(k) = n * PageSize + HdrLen(n * PageSize)
<1> USE Sizes, PagesIs
<1>1. PICK a, b \in Nat : b < Pages /\ n = a * Pages + b
  <2>1. /\ n \div Pages \in Nat /\ n % Pages \in Nat /\ n % Pages < Pages
        /\ n = (n \div Pages) * Pages + (n % Pages)
    BY DivIs
  <2> QED
    BY <2>1
<1>2. 0 < Payload(b)
  BY DEF Payload
<1>3. a * SegSize + b * PageSize = n * PageSize
  BY <1>1, PageIs
<1>4. /\ PageFirst(a, b) + 0 \in Nat
      /\ Physical(PageFirst(a, b) + 0)
          = a * SegSize + b * PageSize + HdrLen(a * SegSize + b * PageSize) + 0
  BY <1>1, <1>2, PhysicalOf
<1>5. n * PageSize \in Nat /\ HdrLen(n * PageSize) \in Nat
  BY DEF HdrLen
<1> QED
  BY <1>3, <1>4, <1>5

\* Every number is a multiple and a rest.
LEMMA Split ==
    ASSUME NEW x \in Nat, NEW b \in Nat \ {0}
    PROVE  \E q, r \in Nat : r < b /\ r = x % b /\ x = q * b + r
<1>1. x \div b \in Nat /\ x % b \in Nat /\ x % b < b /\ x = (x \div b) * b + (x % b)
  BY DivIs
<1> QED
  BY <1>1

\* No rest: a multiple.
LEMMA Multiple ==
    ASSUME NEW x \in Nat, NEW b \in Nat \ {0}, x % b = 0
    PROVE  \E q \in Nat : x = q * b
<1>1. PICK q, r \in Nat : r < b /\ r = x % b /\ x = q * b + r
  BY Split
<1>2. x = q * b
  BY <1>1
<1> QED
  BY <1>2

\* Multiples less than one unit apart are equal.
LEMMA OnlyMultiple ==
    ASSUME NEW b \in Nat \ {0}, NEW x \in Int, NEW y \in Int,
           x * b < y * b + b, y * b < x * b + b
    PROVE  x = y
<1>1. ASSUME x >= y + 1 PROVE FALSE
  <2>1. x * b >= (y + 1) * b /\ (y + 1) * b = y * b + b
    BY <1>1
  <2> QED
    BY <2>1
<1>2. ASSUME y >= x + 1 PROVE FALSE
  <2>1. y * b >= (x + 1) * b /\ (x + 1) * b = x * b + b
    BY <1>2
  <2> QED
    BY <2>1
<1> QED
  BY <1>1, <1>2

\* Moving on n payload bytes moves at least n bytes.
LEMMA PhysicalGrows ==
    ASSUME NEW k \in Nat, NEW n \in Nat
    PROVE  Physical(k) + n <= Physical(k + n)
<1> USE Sizes
<1> DEFINE S == {m \in Nat : Physical(k) + m <= Physical(k + m)}
<1>1. 0 \in S
  <2>1. k + 0 = k /\ Physical(k) \in Nat
    BY PhysicalIs
  <2> QED
    BY <2>1
<1>2. ASSUME NEW m \in Nat, m \in S PROVE m + 1 \in S
  <2>1. k + m \in Nat /\ (k + m) + 1 = k + (m + 1)
    OBVIOUS
  <2>2. Physical(k) \in Nat /\ Physical(k + m) \in Nat
    BY <2>1, PhysicalIs
  <2>3. HdrLen(Physical(k + m) + 1) \in Nat
    BY DEF HdrLen
  <2>4. Physical((k + m) + 1) >= Physical(k + m) + 1
    BY <2>1, <2>2, <2>3, PhysicalNext
  <2> QED
    BY <1>2, <2>1, <2>2, <2>4, PhysicalIs
<1> HIDE DEF S
<1>3. n \in S
  BY <1>1, <1>2, Inductive
<1> QED
  BY <1>3 DEF S

\* LSNs are ordered as the payload offsets are.
LEMMA PhysicalOrder ==
    ASSUME NEW j \in Nat, NEW k \in Nat
    PROVE  /\ Physical(j) \in Nat /\ Physical(k) \in Nat
           /\ j < k <=> Physical(j) < Physical(k)
           /\ j <= k => Physical(j) + (k - j) <= Physical(k)
           /\ Physical(j) = Physical(k) => j = k
<1>1. ASSUME NEW m \in Nat, NEW n \in Nat, m <= n
      PROVE  Physical(m) + (n - m) <= Physical(n)
  <2>1. n - m \in Nat /\ m + (n - m) = n
    BY <1>1
  <2> QED
    BY <2>1, PhysicalGrows
<1>2. Physical(j) \in Nat /\ Physical(k) \in Nat
  BY PhysicalIs
<1>3. j <= k => Physical(j) + (k - j) <= Physical(k)
  BY <1>1
<1>4. k <= j => Physical(k) + (j - k) <= Physical(j)
  BY <1>1
<1> QED
  BY <1>2, <1>3, <1>4

\* A header is a whole number of alignment units.
LEMMA HdrLenIs ==
    ASSUME NEW l
    PROVE  /\ HdrLen(l) \in Nat \ {0} /\ HdrLen(l) < PageSize
           /\ \E w \in Nat : HdrLen(l) = w * Align
<1> USE Sizes
<1>1. HdrLen(l) = LongHdr \/ HdrLen(l) = ShortHdr
  BY DEF HdrLen
<1>2. LongHdr % Align = 0 /\ ShortHdr % Align = 0
  BY WalReaderAssumption
<1>3. \E w \in Nat : LongHdr = w * Align
  BY <1>2, Multiple
<1>4. \E w \in Nat : ShortHdr = w * Align
  BY <1>2, Multiple
<1> QED
  BY <1>1, <1>3, <1>4

\* The stream begins behind a long header.
LEMMA PhysicalFirst == Physical(0) = LongHdr
<1> USE Sizes, PagesIs
<1>1. (0 * SegPayload + 0) \div SegPayload = 0 /\ (0 * SegPayload + 0) % SegPayload = 0
  BY DivUnique
<1>2. 0 * SegPayload + 0 = 0 /\ 0 * SegSize = 0 /\ 0 < FirstPayload
  OBVIOUS
<1>3. 0 \div SegPayload = 0 /\ 0 % SegPayload = 0
  BY <1>1, <1>2
<1> QED
  BY <1>2, <1>3 DEF Physical

\* Headers being aligned, an LSN and its payload offset are aligned alike.
LEMMA PhysicalAligned ==
    ASSUME NEW k \in Nat
    PROVE  \E z \in Nat : Physical(k) = k + z * Align
<1> USE Sizes
<1> DEFINE S == {m \in Nat : \E z \in Nat : Physical(m) = m + z * Align}
<1>1. 0 \in S
  <2>1. PICK w \in Nat : LongHdr = w * Align
    BY HdrLenIs DEF HdrLen
  <2>2. Physical(0) = 0 + w * Align
    BY <2>1, PhysicalFirst
  <2> QED
    BY <2>2
<1>2. ASSUME NEW m \in Nat, m \in S PROVE m + 1 \in S
  <2>1. PICK z \in Nat : Physical(m) = m + z * Align
    BY <1>2
  <2>2. PICK w \in Nat : HdrLen(Physical(m) + 1) = w * Align
    BY HdrLenIs
  <2>3. z * Align \in Nat /\ w * Align \in Nat /\ z + w \in Nat
        /\ (z + w) * Align = z * Align + w * Align
    OBVIOUS
  <2>4. \/ Physical(m + 1) = Physical(m) + 1
        \/ Physical(m + 1) = Physical(m) + 1 + HdrLen(Physical(m) + 1)
    BY PhysicalNext
  <2>5. Physical(m + 1) = (m + 1) + z * Align \/ Physical(m + 1) = (m + 1) + (z + w) * Align
    BY <2>1, <2>2, <2>3, <2>4
  <2>6. \E y \in Nat : Physical(m + 1) = (m + 1) + y * Align
    BY <2>3, <2>5, Zenon
  <2> QED
    BY <2>6
<1> HIDE DEF S
<1>3. k \in S
  BY <1>1, <1>2, Inductive
<1> QED
  BY <1>3 DEF S

\* Before the first payload byte of a page comes the last one of the page
\* before.
LEMMA PayloadBefore ==
    ASSUME NEW p \in Nat, NEW k \in Nat, p % PageSize = 0, Physical(k + 1) = p + HdrLen(p)
    PROVE  Physical(k) + 1 = p
<1> USE Sizes
<1>1. PICK q \in Nat : /\ q % PageSize = 0 /\ q + HdrLen(q) <= Physical(k + 1)
                       /\ Physical(k + 1) < q + PageSize
                       /\ Physical(k + 1) % PageSize = Physical(k + 1) - q
  <2>1. k + 1 \in Nat
    OBVIOUS
  <2> QED
    BY <2>1, PhysicalIs
<1>2. Physical(k) \in Nat /\ HdrLen(p) \in Nat \ {0} /\ HdrLen(p) < PageSize
  BY PhysicalIs, HdrLenIs
<1>3. (p + HdrLen(p)) % PageSize = HdrLen(p)
  <2>1. PICK y \in Nat : p = y * PageSize
    BY Multiple
  <2>2. PICK h \in Nat : h = HdrLen(p)
    BY <1>2
  <2>3. PICK x \in Nat : x = p + h
    OBVIOUS
  <2>4. x = y * PageSize + h /\ h < PageSize
    BY <1>2, <2>1, <2>2, <2>3
  <2>5. x % PageSize = h
    BY <2>4, Modulo
  <2> QED
    BY <2>2, <2>3, <2>5
<1>4. q = p
  BY <1>1, <1>2, <1>3
<1>5. CASE (Physical(k) + 1) % PageSize = 0
  <2> DEFINE l == Physical(k) + 1
  <2>1. l \in Nat /\ l + HdrLen(l) = p + HdrLen(p) /\ HdrLen(l) \in Nat \ {0} /\ HdrLen(l) < PageSize
    BY <1>2, <1>5, PhysicalNext, HdrLenIs
  <2>2. l < p + PageSize /\ p < l + PageSize
    BY <1>2, <2>1
  <2>3. l % PageSize = 0
    BY <1>5
  <2> HIDE DEF l
  <2>4. PICK x \in Nat : l = x * PageSize
    BY <2>1, <2>3, Multiple
  <2>5. PICK y \in Nat : p = y * PageSize
    BY Multiple
  <2>6. x = y
    BY <2>2, <2>4, <2>5, OnlyMultiple
  <2> QED
    BY <2>4, <2>5, <2>6 DEF l
<1>6. CASE (Physical(k) + 1) % PageSize # 0
  <2>1. Physical(k + 1) = Physical(k) + 1
    BY <1>6, PhysicalNext
  <2>2. PICK r \in Nat : /\ r % PageSize = 0 /\ r + HdrLen(r) <= Physical(k)
                         /\ Physical(k) < r + PageSize
                         /\ Physical(k) % PageSize = Physical(k) - r
    BY PhysicalIs
  <2>3. HdrLen(r) \in Nat \ {0}
    BY HdrLenIs
  <2>4. Physical(k) % PageSize = HdrLen(p) - 1
    <3>1. PICK y \in Nat : p = y * PageSize
      BY Multiple
    <3>2. PICK h \in Nat : h = HdrLen(p) - 1
      BY <1>2
    <3>3. PICK x \in Nat : x = Physical(k)
      BY <1>2
    <3>4. x = y * PageSize + h /\ h < PageSize
      BY <1>2, <2>1, <3>1, <3>2, <3>3
    <3>5. x % PageSize = h
      BY <3>4, Modulo
    <3> QED
      BY <3>2, <3>3, <3>5
  <2>5. r = p
    BY <1>2, <2>1, <2>2, <2>4
  <2> QED
    BY <1>2, <2>1, <2>2, <2>5
<1> QED
  BY <1>5, <1>6

\* What lies before and behind a position.
LEMMA StandsBetween ==
    ASSUME NEW p \in Nat, NEW k \in Nat, StandsAt(p, k), NEW j \in Nat
    PROVE  /\ j < k => Physical(j) < p
           /\ j >= k => p <= Physical(j)
           /\ j >= k /\ p % PageSize = 0 => p + HdrLen(p) <= Physical(j)
           /\ Physical(j) < p <=> j < k
<1>1. Physical(j) \in Nat /\ Physical(k) \in Nat /\ HdrLen(p) \in Nat \ {0}
  BY PhysicalOrder, HdrLenIs
<1>2. j >= k => Physical(k) <= Physical(j)
  BY PhysicalOrder
<1>3. p % PageSize = 0 => Physical(k) = p + HdrLen(p)
  BY PhysicalIs DEF StandsAt
<1>4. p <= Physical(k)
  BY <1>1 DEF StandsAt
<1>5. ASSUME j < k PROVE Physical(j) < p
  <2>1. CASE p = Physical(k)
    BY <1>5, <2>1, PhysicalOrder
  <2>2. CASE p % PageSize = 0 /\ Physical(k) = p + HdrLen(p)
    <3>1. PICK i \in Nat : k = i + 1
      <4>1. k - 1 \in Nat /\ k = (k - 1) + 1
        BY <1>5
      <4> QED
        BY <4>1
    <3>2. Physical(i) + 1 = p
      BY <2>2, <3>1, PayloadBefore
    <3>3. Physical(j) <= Physical(i) /\ Physical(i) \in Nat
      <4>1. j <= i
        BY <1>5, <3>1
      <4>2. Physical(j) + (i - j) <= Physical(i) /\ Physical(i) \in Nat
        BY <4>1, PhysicalOrder
      <4> QED
        BY <1>1, <4>1, <4>2
    <3> QED
      BY <1>1, <3>2, <3>3
  <2> QED
    BY <2>1, <2>2 DEF StandsAt
<1> QED
  BY <1>1, <1>2, <1>3, <1>4, <1>5

\* A position is its payload offset and the headers so far.
LEMMA StandsBelow ==
    ASSUME NEW p \in Nat, NEW k \in Nat, StandsAt(p, k)
    PROVE  /\ k <= p
           /\ \E z \in Int : p = k + z * Align
<1> USE Sizes
<1>1. PICK z \in Nat : Physical(k) = k + z * Align
  BY PhysicalAligned
<1>2. z * Align \in Nat
  OBVIOUS
<1>3. CASE p = Physical(k)
  BY <1>1, <1>2, <1>3
<1>4. CASE p % PageSize = 0 /\ Physical(k) = p + HdrLen(p)
  <2>1. PICK w \in Nat : HdrLen(p) = w * Align
    BY HdrLenIs
  <2>2. z - w \in Int /\ (z - w) * Align = z * Align - w * Align /\ w * Align \in Nat
    OBVIOUS
  <2>3. p = k + (z - w) * Align
    BY <1>1, <1>2, <1>4, <2>1, <2>2
  <2>4. k <= p
    <3>1. CASE k = 0
      BY <3>1
    <3>2. CASE k # 0
      <4>1. PICK i \in Nat : k = i + 1
        <5>1. k - 1 \in Nat /\ k = (k - 1) + 1
          BY <3>2
        <5> QED
          BY <5>1
      <4>2. Physical(i) < p /\ Physical(i) \in Nat
        BY <4>1, StandsBetween, PhysicalOrder
      <4>3. PICK y \in Nat : Physical(i) = i + y * Align
        BY PhysicalAligned
      <4>4. y * Align \in Nat
        OBVIOUS
      <4> QED
        BY <4>1, <4>2, <4>3, <4>4
    <3> QED
      BY <3>1, <3>2
  <2> QED
    BY <2>2, <2>3, <2>4
<1> QED
  BY <1>3, <1>4 DEF StandsAt

\* On a page, positions and payload offsets move together, up to the end of
\* the page.
LEMMA Advance ==
    ASSUME NEW p \in Nat, NEW k \in Nat, StandsAt(p, k), p % PageSize # 0,
           NEW n \in Nat, n <= PageSize - (p % PageSize)
    PROVE  /\ StandsAt(p + n, k + n)
           /\ \A t \in Nat : t < n => Physical(k + t) = p + t
<1> USE Sizes
<1> DEFINE rem == PageSize - (p % PageSize)
           S == {m \in Nat : m <= rem => StandsAt(p + m, k + m)}
<1>1. p % PageSize \in Nat /\ p % PageSize < PageSize /\ rem \in Nat
  BY DivIs
<1>2. ASSUME NEW m \in Nat, m < rem PROVE (p + m) % PageSize # 0
  <2>1. PICK e, c \in Nat : c < PageSize /\ c = p % PageSize /\ p = e * PageSize + c
    BY Split
  <2>2. PICK d \in Nat : d = c + m
    OBVIOUS
  <2>3. PICK x \in Nat : x = p + m
    OBVIOUS
  <2>4. x = e * PageSize + d /\ d < PageSize
    BY <1>1, <1>2, <2>1, <2>2, <2>3, SMTT(30)
  <2>5. x % PageSize = d
    BY <2>4, Modulo
  <2> QED
    BY <2>1, <2>2, <2>3, <2>5
<1> HIDE DEF rem
<1>3. ASSUME NEW m \in Nat, m < rem, StandsAt(p + m, k + m) PROVE Physical(k + m) = p + m
  BY <1>2, <1>3 DEF StandsAt
<1>4. 0 \in S
  BY DEF StandsAt
<1>5. ASSUME NEW m \in Nat, m \in S PROVE m + 1 \in S
  <2>1. SUFFICES ASSUME m + 1 <= rem PROVE StandsAt(p + (m + 1), k + (m + 1))
    OBVIOUS
  <2>2. m < rem /\ m <= rem
    BY <1>1, <2>1
  <2>3. Physical(k + m) = p + m
    BY <1>3, <1>5, <2>2
  <2>4. k + m \in Nat /\ (k + m) + 1 = k + (m + 1) /\ (p + m) + 1 = p + (m + 1)
    OBVIOUS
  <2>5. Physical(k + (m + 1)) = LET l == p + (m + 1)
                                IN  IF l % PageSize = 0 THEN l + HdrLen(l) ELSE l
    BY <2>3, <2>4, PhysicalNext
  <2> QED
    BY <2>5 DEF StandsAt
<1> HIDE DEF S
<1>6. \A m \in Nat : m \in S
  BY <1>4, <1>5, Inductive
<1>7. ASSUME NEW t \in Nat, t < n PROVE Physical(k + t) = p + t
  <2>1. t < rem /\ t <= rem
    BY <1>1, <1>7 DEF rem
  <2> QED
    BY <1>3, <1>6, <2>1 DEF S
<1>8. StandsAt(p + n, k + n)
  BY <1>6 DEF S, rem
<1> QED
  BY <1>7, <1>8

-----------------------------------------------------------------------------
\* Alignment.

\* Aligned(n) is a multiple, at least n and less than a unit more.
LEMMA AlignedIs ==
    ASSUME NEW n \in Nat
    PROVE  /\ Aligned(n) \in Nat /\ n <= Aligned(n) /\ Aligned(n) < n + Align
           /\ \E w \in Nat : Aligned(n) = w * Align
<1> USE Sizes
<1>1. PICK x \in Nat : x = n + Align - 1
  OBVIOUS
<1>2. PICK q, r \in Nat : r < Align /\ r = x % Align /\ x = q * Align + r
  BY Split
<1>3. x \div Align = q
  BY <1>2, Modulo
<1>4. Aligned(n) = q * Align
  BY <1>1, <1>3 DEF Aligned
<1>5. q * Align \in Nat
  OBVIOUS
<1>6. n <= q * Align /\ q * Align < n + Align
  BY <1>1, <1>2, <1>5
<1> QED
  BY <1>4, <1>5, <1>6

\* Aligned(n) is the first multiple from n on.
LEMMA AlignedUnique ==
    ASSUME NEW n \in Nat, NEW w \in Int, n <= w * Align, w * Align < n + Align
    PROVE  Aligned(n) = w * Align
<1> USE Sizes
<1>1. PICK v \in Nat : Aligned(n) = v * Align
  BY AlignedIs
<1>2. v * Align \in Nat /\ w * Align \in Int
  OBVIOUS
<1>3. v * Align < w * Align + Align /\ w * Align < v * Align + Align
  <2>1. Aligned(n) \in Nat /\ n <= Aligned(n) /\ Aligned(n) < n + Align
    BY AlignedIs
  <2> QED
    BY <1>1, <1>2, <2>1
<1>4. v = w
  BY <1>3, OnlyMultiple
<1> QED
  BY <1>1, <1>4

\* Positions that are aligned alike have the same padding.
LEMMA PadIs ==
    ASSUME NEW p \in Nat, NEW k \in Nat, NEW z \in Int, p = k + z * Align
    PROVE  Pad(p) = Aligned(k) - k
<1> USE Sizes
<1>1. PICK w \in Nat : Aligned(k) = w * Align
  BY AlignedIs
<1>2. k <= w * Align /\ w * Align < k + Align
  BY <1>1, AlignedIs
<1>3. w + z \in Int /\ (w + z) * Align = w * Align + z * Align /\ w * Align \in Int /\ z * Align \in Int
  OBVIOUS
<1>4. p <= (w + z) * Align /\ (w + z) * Align < p + Align
  BY <1>2, <1>3
<1>5. Aligned(p) = (w + z) * Align
  BY <1>3, <1>4, AlignedUnique
<1> QED
  BY <1>1, <1>3, <1>5 DEF Pad

\* From an aligned offset, lengths are rounded as from 0.
LEMMA AlignedSum ==
    ASSUME NEW k \in Nat, NEW n \in Nat, k % Align = 0
    PROVE  Aligned(k + n) = k + Aligned(n)
<1> USE Sizes
<1>1. PICK v \in Nat : k = v * Align
  BY Multiple
<1>2. PICK w \in Nat : Aligned(n) = w * Align
  BY AlignedIs
<1>3. v + w \in Int /\ (v + w) * Align = v * Align + w * Align /\ w * Align \in Nat /\ v * Align \in Nat
  OBVIOUS
<1>4. k + n <= (v + w) * Align /\ (v + w) * Align < (k + n) + Align /\ k + n \in Nat
  <2>1. Aligned(n) \in Nat /\ n <= Aligned(n) /\ Aligned(n) < n + Align
    BY AlignedIs
  <2> QED
    BY <1>1, <1>2, <1>3, <2>1
<1>5. Aligned(k + n) = (v + w) * Align
  BY <1>3, <1>4, AlignedUnique
<1> QED
  BY <1>1, <1>2, <1>3, <1>5

\* A multiple has no rest.
LEMMA MultipleIs ==
    ASSUME NEW w \in Nat, NEW b \in Nat \ {0}
    PROVE  (w * b) % b = 0
<1>1. PICK x \in Nat : x = w * b
  OBVIOUS
<1>2. x = w * b + 0
  BY <1>1
<1>3. x % b = 0
  BY <1>2, Modulo
<1> QED
  BY <1>1, <1>3

\* What is aligned is rounded to itself.
LEMMA AlignedAgain ==
    ASSUME NEW k \in Nat
    PROVE  /\ Aligned(k) % Align = 0
           /\ k % Align = 0 <=> Aligned(k) = k
<1> USE Sizes
<1>1. PICK w \in Nat : Aligned(k) = w * Align
  BY AlignedIs
<1>2. Aligned(k) % Align = 0
  BY <1>1, MultipleIs
<1>3. ASSUME k % Align = 0 PROVE Aligned(k) = k
  <2>1. PICK v \in Nat : k = v * Align
    BY <1>3, Multiple
  <2>2. v * Align \in Nat
    OBVIOUS
  <2> QED
    BY <2>1, <2>2, AlignedUnique
<1> QED
  BY <1>2, <1>3

\* An aligned place on a page has room for a unit.
LEMMA RoomForUnit ==
    ASSUME NEW p \in Nat, p % Align = 0, p % PageSize # 0
    PROVE  PageSize - (p % PageSize) >= Align
<1> USE Sizes
<1>1. PICK x \in Nat : p = x * Align
  BY Multiple
<1>2. PICK y \in Nat : PageSize = y * Align
  BY WalReaderAssumption, Multiple
<1>3. PICK q, r \in Nat : r < PageSize /\ r = p % PageSize /\ p = q * PageSize + r
  BY Split
<1>4. q * PageSize = (q * y) * Align /\ q * y \in Nat
  BY <1>2
<1>5. x - q * y \in Int /\ (x - q * y) * Align = x * Align - (q * y) * Align
  BY <1>4
<1>6. r = (x - q * y) * Align
  BY <1>1, <1>3, <1>4, <1>5
<1>7. PICK d \in Int : d = x - q * y
  BY <1>5
<1>8. r = d * Align /\ d * Align \in Int /\ y * Align \in Int
  BY <1>6, <1>7
<1>9. d < y
  <2>1. SUFFICES ASSUME d >= y PROVE FALSE
    OBVIOUS
  <2>2. d * Align >= y * Align
    BY <2>1
  <2> QED
    BY <1>2, <1>3, <1>8, <2>2
<1>10. y * Align >= (d + 1) * Align /\ (d + 1) * Align = d * Align + Align
  BY <1>9
<1> QED
  BY <1>2, <1>3, <1>8, <1>10

\* The payload of a segment is a whole number of units.
LEMMA SegPayloadAligned == \E w \in Nat : SegPayload = w * Align
<1> USE Sizes, PagesIs
<1>1. PICK y \in Nat : PageSize = y * Align
  BY WalReaderAssumption, Multiple
<1>2. PICK s \in Nat : ShortHdr = s * Align
  BY WalReaderAssumption, Multiple
<1>3. PICK l \in Nat : LongHdr = l * Align
  BY WalReaderAssumption, Multiple
<1>4. FirstPayload = (y - l) * Align /\ PagePayload = (y - s) * Align
  BY <1>1, <1>2, <1>3
<1>5. PICK u \in Int : u = y - l
  OBVIOUS
<1>6. PICK v \in Int : v = y - s
  OBVIOUS
<1>7. PICK m \in Nat : m = Pages - 1
  OBVIOUS
<1>8. SegPayload = u * Align + m * (v * Align)
  BY <1>4, <1>5, <1>6, <1>7
<1>9. m * (v * Align) = (m * v) * Align /\ m * v \in Int
  OBVIOUS
<1>10. PICK w \in Int : w = u + m * v
  BY <1>9
<1>11. w * Align = u * Align + (m * v) * Align
  BY <1>9, <1>10
<1>12. SegPayload = w * Align
  BY <1>8, <1>9, <1>11
<1>13. w \in Nat
  <2>1. SUFFICES ASSUME w <= -1 PROVE FALSE
    BY <1>10
  <2>2. w * Align <= (-1) * Align
    BY <2>1
  <2> QED
    BY <1>12, <2>2
<1> QED
  BY <1>12, <1>13

-----------------------------------------------------------------------------
\* The stream of the server.

\* What an encoded record looks like from outside.
LEMMA EncodeIs ==
    ASSUME NEW r \in Shapes
    PROVE  /\ TotLen(r) \in Nat /\ RecHdr <= TotLen(r)
           /\ DOMAIN Encode(r) = 1 .. TotLen(r) /\ Len(Encode(r)) = TotLen(r)
           /\ Encode(r) = [n \in 1 .. TotLen(r) |-> Encode(r)[n]]
           /\ \A n \in 1 .. LenField : Encode(r)[n] = <<"len", TotLen(r), n>>
<1> USE Sizes
<1> DEFINE tok(k) == IF k <= LenField THEN <<"len", TotLen(r), k>> ELSE <<"fixed", r.id>>
           H == [k \in 1 .. RecHdr |-> tok(k)]
           C == Content(r)
           T == {C[k] : k \in DOMAIN C} \cup {tok(k) : k \in 1 .. RecHdr}
<1>1. C \in Seq({C[k] : k \in DOMAIN C})
  <2>1. IsSeq(Content(r))
    BY WalReaderAssumption, ContentIs
  <2> QED
    BY <2>1 DEF IsSeq
<1>2. \A n \in 1 .. LenField : n \in 1 .. RecHdr /\ tok(n) = <<"len", TotLen(r), n>>
  OBVIOUS
<1>3. Encode(r) = H \o C
  BY DEF Encode
<1>4. TotLen(r) = RecHdr + Len(C)
  BY DEF TotLen
<1> HIDE DEF tok, C
<1>5. C \in Seq(T) /\ Len(C) \in Nat
  <2>1. {C[k] : k \in DOMAIN C} \subseteq T
    OBVIOUS
  <2> QED
    BY <1>1, <2>1
<1>6. H \in Seq(T) /\ Len(H) = RecHdr
  <2>1. \A k \in 1 .. RecHdr : tok(k) \in T
    OBVIOUS
  <2> HIDE DEF T
  <2> QED
    BY <2>1
<1> HIDE DEF T
<1>7. /\ Len(H \o C) = RecHdr + Len(C)
      /\ DOMAIN (H \o C) = 1 .. RecHdr + Len(C)
      /\ \A n \in 1 .. RecHdr : (H \o C)[n] = H[n]
  BY <1>5, <1>6
<1>8. \A n \in 1 .. RecHdr : H[n] = tok(n)
  OBVIOUS
<1> HIDE DEF H
<1>9. \A n \in 1 .. LenField : Encode(r)[n] = <<"len", TotLen(r), n>>
  BY <1>2, <1>3, <1>7, <1>8
<1>10. DOMAIN Encode(r) = 1 .. TotLen(r) /\ Len(Encode(r)) = TotLen(r)
  BY <1>3, <1>4, <1>7
<1>11. Encode(r) = [n \in 1 .. TotLen(r) |-> Encode(r)[n]]
  <2>1. H \o C \in Seq(T)
    BY <1>5, <1>6
  <2>2. Encode(r) \in Seq(T)
    BY <1>3, <2>1
  <2>3. Encode(r) \in [1 .. Len(Encode(r)) -> T]
    BY <2>2
  <2> HIDE DEF T
  <2>4. Encode(r) \in [1 .. TotLen(r) -> T]
    BY <1>10, <2>3
  <2> QED
    BY <2>4, Zenon
<1>12. TotLen(r) \in Nat /\ RecHdr <= TotLen(r)
  BY <1>4, <1>5
<1> QED
  BY <1>9, <1>10, <1>11, <1>12, Zenon

\* The end of a record and the start of the next one.
Following(end, sw, i) ==
    IF sw = i /\ end % SegPayload # 0 THEN (end \div SegPayload + 1) * SegPayload ELSE end

\* A switch moves the next record to the start of a segment, and only a
\* switch moves it.
LEMMA FollowingIs ==
    ASSUME NEW end \in Nat, end % Align = 0, NEW sw, NEW i
    PROVE  /\ Following(end, sw, i) \in Nat /\ end <= Following(end, sw, i)
           /\ Following(end, sw, i) % Align = 0
           /\ end < Following(end, sw, i) => Following(end, sw, i) % SegPayload = 0
<1> USE Sizes, PagesIs
<1>1. CASE ~(sw = i /\ end % SegPayload # 0)
  BY <1>1 DEF Following
<1>2. CASE sw = i /\ end % SegPayload # 0
  <2>1. PICK q, r \in Nat : r < SegPayload /\ r = end % SegPayload /\ end = q * SegPayload + r
    BY Split, ZenonT(60)
  <2>2. end \div SegPayload = q
    <3>1. r < SegPayload /\ end = q * SegPayload + r
      BY <2>1
    <3> QED
      BY <3>1, Modulo
  <2>3. PICK d \in Nat : d = q + 1
    OBVIOUS
  <2>4. Following(end, sw, i) = d * SegPayload
    BY <1>2, <2>2, <2>3 DEF Following
  <2>5. d * SegPayload = q * SegPayload + SegPayload /\ d * SegPayload \in Nat /\ q * SegPayload \in Nat
    BY <2>3
  <2>6. (d * SegPayload) % SegPayload = 0
    BY MultipleIs
  <2>7. (d * SegPayload) % Align = 0
    <3>1. PICK w \in Nat : SegPayload = w * Align
      BY SegPayloadAligned
    <3>2. d * SegPayload = (d * w) * Align /\ d * w \in Nat
      BY <3>1
    <3> QED
      BY <3>2, MultipleIs
  <2> QED
    BY <2>1, <2>4, <2>5, <2>6, <2>7
<1> QED
  BY <1>1, <1>2

\* Offsets is the function its definition describes.
LEMMA OffsetsIs ==
    ASSUME NEW recs, NEW sw
    PROVE  /\ Offsets(recs, sw) = [i \in 1 .. NRecords + 1 |-> Offsets(recs, sw)[i]]
           /\ Offsets(recs, sw)[1] = 0
           /\ \A i \in 1 .. NRecords : Offsets(recs, sw)[i + 1]
                = Following(Offsets(recs, sw)[i] + Aligned(TotLen(recs[i])), sw, i)
<1> USE Sizes
<1> DEFINE Val(i, e) == Following(e + Aligned(TotLen(recs[i - 1])), sw, i - 1)
           Fits(g, n) == g = [i \in 1 .. n + 1 |-> IF i = 1 THEN 0 ELSE Val(i, g[i - 1])]
           S == {n \in Nat : \E g : Fits(g, n)}
<1> HIDE DEF Val
<1>1. 0 \in S
  <2>1. Fits([i \in 1 .. 0 + 1 |-> 0], 0)
    OBVIOUS
  <2> QED
    BY <2>1
<1>2. ASSUME NEW n \in Nat, n \in S PROVE n + 1 \in S
  <2>1. PICK g : Fits(g, n)
    BY <1>2
  <2> DEFINE h == [i \in 1 .. (n + 1) + 1 |->
                      IF i = (n + 1) + 1 THEN Val(i, g[n + 1]) ELSE g[i]]
  <2>2. \A i \in 1 .. (n + 1) + 1 : h[i] = IF i = 1 THEN 0 ELSE Val(i, h[i - 1])
    <3> SUFFICES ASSUME NEW i \in 1 .. (n + 1) + 1
                 PROVE  h[i] = IF i = 1 THEN 0 ELSE Val(i, h[i - 1])
      OBVIOUS
    <3>1. CASE i = (n + 1) + 1
      <4>1. i - 1 = n + 1 /\ i - 1 \in 1 .. (n + 1) + 1 /\ i # 1 /\ i - 1 # (n + 1) + 1
        BY <3>1
      <4>2. h[i - 1] = g[n + 1]
        BY <4>1
      <4> QED
        BY <3>1, <4>1, <4>2
    <3>2. CASE i # (n + 1) + 1
      <4>1. i \in 1 .. n + 1
        BY <3>2
      <4>2. h[i] = g[i] /\ g[i] = IF i = 1 THEN 0 ELSE Val(i, g[i - 1])
        BY <2>1, <3>2, <4>1
      <4>3. i # 1 => h[i - 1] = g[i - 1]
        BY <4>1
      <4> QED
        BY <4>2, <4>3
    <3> QED
      BY <3>1, <3>2
  <2>3. Fits(h, n + 1)
    BY <2>2
  <2> HIDE DEF h, Fits
  <2>4. (n + 1 \in Nat) /\ \E g2 : Fits(g2, n + 1)
    BY <2>3
  <2> QED
    BY <2>4
<1> HIDE DEF S
<1>3. NRecords \in S
  BY <1>1, <1>2, Inductive
<1>4. \E g : Fits(g, NRecords)
  BY <1>3 DEF S
<1>5. Offsets(recs, sw) = CHOOSE g : Fits(g, NRecords)
  BY DEF Offsets, Val, Following
<1>6. Fits(Offsets(recs, sw), NRecords)
  BY <1>4, <1>5
<1>7. /\ Offsets(recs, sw) = [i \in 1 .. NRecords + 1 |-> Offsets(recs, sw)[i]]
      /\ Offsets(recs, sw)[1] = 0
  BY <1>6
<1>8. ASSUME NEW i \in 1 .. NRecords
      PROVE  Offsets(recs, sw)[i + 1]
                = Following(Offsets(recs, sw)[i] + Aligned(TotLen(recs[i])), sw, i)
  <2>1. i + 1 \in 1 .. NRecords + 1 /\ i + 1 # 1 /\ (i + 1) - 1 = i
    OBVIOUS
  <2>2. Offsets(recs, sw)[i + 1] = Val(i + 1, Offsets(recs, sw)[i])
    BY <1>6, <2>1
  <2> QED
    BY <2>1, <2>2 DEF Val
<1> QED
  BY <1>7, <1>8

\* The length of a record, and of a record with its padding.
LEMMA RecordIs ==
    ASSUME stream \in [1 .. NRecords -> Shapes], NEW i \in 1 .. NRecords
    PROVE  /\ TotLen(stream[i]) \in Nat /\ RecHdr <= TotLen(stream[i])
           /\ Aligned(TotLen(stream[i])) \in Nat /\ TotLen(stream[i]) <= Aligned(TotLen(stream[i]))
           /\ Aligned(TotLen(stream[i])) < TotLen(stream[i]) + Align
           /\ Aligned(TotLen(stream[i])) % Align = 0
<1>1. stream[i] \in Shapes
  OBVIOUS
<1>2. TotLen(stream[i]) \in Nat /\ RecHdr <= TotLen(stream[i])
  BY <1>1, EncodeIs
<1> QED
  BY <1>2, AlignedIs, AlignedAgain

\* The sum of aligned offsets is aligned.
LEMMA AlignedAdd ==
    ASSUME NEW k \in Nat, NEW n \in Nat, k % Align = 0, n % Align = 0
    PROVE  (k + n) % Align = 0
<1>1. Aligned(n) = n
  BY AlignedAgain
<1>2. Aligned(k + n) = k + n /\ k + n \in Nat
  BY <1>1, AlignedSum
<1> QED
  BY <1>2, AlignedAgain

\* The server lays the records out aligned and apart.
LEMMA SpacedInit ==
    ASSUME stream \in [1 .. NRecords -> Shapes]
    PROVE  Spaced
<1> USE Sizes
<1>1. /\ Offset = [i \in 1 .. NRecords + 1 |-> Offset[i]] /\ Offset[1] = 0
      /\ \A i \in 1 .. NRecords : Offset[i + 1] = Following(PadEnd(i), switch, i)
  <2>1. /\ Offsets(stream, switch) = [i \in 1 .. NRecords + 1 |-> Offsets(stream, switch)[i]]
        /\ Offsets(stream, switch)[1] = 0
        /\ \A i \in 1 .. NRecords : Offsets(stream, switch)[i + 1]
             = Following(Offsets(stream, switch)[i] + Aligned(TotLen(stream[i])), switch, i)
    BY OffsetsIs
  <2>2. Offset = Offsets(stream, switch)
    BY DEF Offset
  <2> HIDE DEF Offset
  <2> QED
    BY <2>1, <2>2 DEF PadEnd
<1> DEFINE S == {n \in Nat : n < NRecords + 1 => Offset[n + 1] \in Nat /\ Offset[n + 1] % Align = 0}
<1>2. 0 \in S
  <2>1. (0 * Align) % Align = 0 /\ 0 * Align = 0
    BY MultipleIs
  <2> QED
    BY <1>1, <2>1
<1>3. ASSUME NEW n \in 1 .. NRecords, Offset[n] \in Nat, Offset[n] % Align = 0
      PROVE  /\ PadEnd(n) \in Nat /\ PadEnd(n) <= Offset[n + 1]
             /\ Offset[n + 1] \in Nat /\ Offset[n + 1] % Align = 0
             /\ PadEnd(n) < Offset[n + 1] => Offset[n + 1] % SegPayload = 0
  <2>1. PadEnd(n) \in Nat /\ PadEnd(n) % Align = 0
    <3>1. Aligned(TotLen(stream[n])) \in Nat /\ Aligned(TotLen(stream[n])) % Align = 0
      BY RecordIs
    <3>2. (Offset[n] + Aligned(TotLen(stream[n]))) % Align = 0
      BY <1>3, <3>1, AlignedAdd
    <3> QED
      BY <1>3, <3>1, <3>2 DEF PadEnd
  <2>2. Offset[n + 1] = Following(PadEnd(n), switch, n)
    BY <1>1
  <2> QED
    BY <2>1, <2>2, FollowingIs
<1>4. ASSUME NEW n \in Nat, n \in S PROVE n + 1 \in S
  <2>1. SUFFICES ASSUME n + 1 < NRecords + 1
                 PROVE  Offset[(n + 1) + 1] \in Nat /\ Offset[(n + 1) + 1] % Align = 0
    OBVIOUS
  <2>2. n + 1 \in 1 .. NRecords /\ n < NRecords + 1
    BY <2>1
  <2>3. Offset[n + 1] \in Nat /\ Offset[n + 1] % Align = 0
    BY <1>4, <2>2
  <2> QED
    BY <1>3, <2>2, <2>3
<1> HIDE DEF S
<1>5. \A n \in Nat : n \in S
  BY <1>2, <1>4, Inductive
<1>6. ASSUME NEW i \in 1 .. NRecords + 1 PROVE Offset[i] \in Nat /\ Offset[i] % Align = 0
  <2>1. i - 1 \in Nat /\ (i - 1) + 1 = i /\ i - 1 < NRecords + 1
    OBVIOUS
  <2>2. i - 1 \in S
    BY <1>5, <2>1
  <2> QED
    BY <2>1, <2>2 DEF S
<1>7. Offset \in [1 .. NRecords + 1 -> Nat]
  BY <1>1, <1>6
<1>8. ASSUME NEW i \in 1 .. NRecords
      PROVE  /\ Offset[i] % Align = 0
             /\ PadEnd(i) <= Offset[i + 1]
             /\ PadEnd(i) < Offset[i + 1] => Offset[i + 1] % SegPayload = 0
  <2>1. i \in 1 .. NRecords + 1
    OBVIOUS
  <2> QED
    BY <1>3, <1>6, <2>1
<1> QED
  BY <1>1, <1>7, <1>8 DEF Spaced

\* A record, its end and the end of its padding.
LEMMA RecordAt ==
    ASSUME Spaced, NEW i \in 1 .. NRecords
    PROVE  /\ stream[i] \in Shapes /\ TotLen(stream[i]) \in Nat /\ RecHdr <= TotLen(stream[i])
           /\ Offset[i] \in Nat /\ Offset[i + 1] \in Nat /\ Offset[i] % Align = 0
           /\ RecEnd(i) \in Nat /\ RecEnd(i) = Offset[i] + TotLen(stream[i])
           /\ Offset[i] + RecHdr <= RecEnd(i)
           /\ PadEnd(i) \in Nat /\ PadEnd(i) = Aligned(RecEnd(i)) /\ PadEnd(i) % Align = 0
           /\ RecEnd(i) <= PadEnd(i) /\ PadEnd(i) < RecEnd(i) + Align
           /\ PadEnd(i) <= Offset[i + 1]
<1> USE Sizes
<1>1. /\ stream[i] \in Shapes /\ Offset[i] \in Nat /\ Offset[i + 1] \in Nat
      /\ Offset[i] % Align = 0 /\ PadEnd(i) <= Offset[i + 1]
  BY DEF Spaced
<1>2. stream \in [1 .. NRecords -> Shapes]
  BY DEF Spaced
<1>3. /\ TotLen(stream[i]) \in Nat /\ RecHdr <= TotLen(stream[i])
      /\ Aligned(TotLen(stream[i])) \in Nat /\ TotLen(stream[i]) <= Aligned(TotLen(stream[i]))
      /\ Aligned(TotLen(stream[i])) < TotLen(stream[i]) + Align
      /\ Aligned(TotLen(stream[i])) % Align = 0
  BY <1>2, RecordIs
<1>4. Aligned(Offset[i] + TotLen(stream[i])) = Offset[i] + Aligned(TotLen(stream[i]))
  BY <1>1, <1>3, AlignedSum
<1>5. (Offset[i] + Aligned(TotLen(stream[i]))) % Align = 0
  BY <1>1, <1>3, AlignedAdd
<1> QED
  BY <1>1, <1>3, <1>4, <1>5 DEF RecEnd, PadEnd

\* Records lie in the order of their numbers.
LEMMA OffsetOrder ==
    ASSUME Spaced, NEW i \in 1 .. NRecords, NEW j \in 1 .. NRecords + 1, i < j
    PROVE  PadEnd(i) <= Offset[j]
<1> USE Sizes
<1> DEFINE S == {n \in Nat : i + 1 + n <= NRecords + 1 => PadEnd(i) <= Offset[i + 1 + n]}
<1>1. 0 \in S
  <2>1. i + 1 + 0 = i + 1
    OBVIOUS
  <2> QED
    BY <2>1, RecordAt
<1>2. ASSUME NEW n \in Nat, n \in S PROVE n + 1 \in S
  <2>1. SUFFICES ASSUME i + 1 + (n + 1) <= NRecords + 1 PROVE PadEnd(i) <= Offset[i + 1 + (n + 1)]
    OBVIOUS
  <2>2. PICK m \in 1 .. NRecords : m = i + 1 + n /\ m + 1 = i + 1 + (n + 1)
    BY <2>1
  <2>3. PadEnd(i) <= Offset[m]
    BY <1>2, <2>2
  <2>4. /\ Offset[m] \in Nat /\ PadEnd(m) \in Nat /\ PadEnd(i) \in Nat /\ Offset[m + 1] \in Nat
        /\ Offset[m] <= PadEnd(m) /\ PadEnd(m) <= Offset[m + 1]
    BY RecordAt
  <2>5. PadEnd(i) <= Offset[m + 1]
    BY <2>3, <2>4
  <2> QED
    BY <2>2, <2>5
<1> HIDE DEF S
<1>3. j - i - 1 \in Nat /\ i + 1 + (j - i - 1) = j
  OBVIOUS
<1>4. j - i - 1 \in S
  BY <1>1, <1>2, <1>3, Inductive
<1> QED
  BY <1>3, <1>4 DEF S

\* No byte belongs to two records.
LEMMA OneRecord ==
    ASSUME Spaced, NEW i \in 1 .. NRecords, NEW j \in 1 .. NRecords, NEW k \in Nat,
           Offset[i] <= k, k < RecEnd(i), Offset[j] <= k, k < RecEnd(j)
    PROVE  i = j
<1> USE Sizes
<1>1. /\ Offset[i] \in Nat /\ RecEnd(i) \in Nat /\ PadEnd(i) \in Nat /\ RecEnd(i) <= PadEnd(i)
      /\ Offset[j] \in Nat /\ RecEnd(j) \in Nat /\ PadEnd(j) \in Nat /\ RecEnd(j) <= PadEnd(j)
  BY RecordAt
<1>2. i < j => PadEnd(i) <= Offset[j]
  BY OffsetOrder
<1>3. j < i => PadEnd(j) <= Offset[i]
  BY OffsetOrder
<1> QED
  BY <1>1, <1>2, <1>3

\* The bytes of the stream are those of its records, each at its place.
LEMMA PlacedIs ==
    ASSUME Spaced
    PROVE  /\ \A i \in 1 .. NRecords : \A n \in 1 .. TotLen(stream[i]) :
                 LET l == Physical(Offset[i] + n - 1)
                 IN  l \in DOMAIN Placed /\ Placed[l] = Encode(stream[i])[n]
           /\ \A l \in DOMAIN Placed : \E i \in 1 .. NRecords : \E n \in 1 .. TotLen(stream[i]) :
                 l = Physical(Offset[i] + n - 1)
<1> USE Sizes
<1> DEFINE pair(i, n) == <<Physical(Offset[i] + n - 1), Encode(stream[i])[n]>>
           at(i) == {pair(i, n) : n \in DOMAIN Encode(stream[i])}
           all == UNION {at(i) : i \in 1 .. NRecords}
<1>1. Placed = [l \in {b[1] : b \in all} |-> (CHOOSE b \in all : b[1] = l)[2]]
  BY Zenon DEF Placed
<1>2. \A i \in 1 .. NRecords : DOMAIN Encode(stream[i]) = 1 .. TotLen(stream[i])
  BY RecordAt, EncodeIs
<1>3. \A i \in 1 .. NRecords : \A n \in 1 .. TotLen(stream[i]) : pair(i, n) \in all
  <2> HIDE DEF pair
  <2> SUFFICES ASSUME NEW i \in 1 .. NRecords, NEW n \in 1 .. TotLen(stream[i])
               PROVE  pair(i, n) \in all
    OBVIOUS
  <2>1. pair(i, n) \in at(i)
    BY <1>2
  <2> QED
    BY <2>1
<1>4. \A b \in all : \E i \in 1 .. NRecords : \E n \in 1 .. TotLen(stream[i]) : b = pair(i, n)
  BY <1>2
<1>5. \A i, n : pair(i, n)[1] = Physical(Offset[i] + n - 1) /\ pair(i, n)[2] = Encode(stream[i])[n]
  OBVIOUS
<1> HIDE DEF all, pair
<1>6. ASSUME NEW i \in 1 .. NRecords, NEW n \in 1 .. TotLen(stream[i]),
             NEW j \in 1 .. NRecords, NEW m \in 1 .. TotLen(stream[j]),
             pair(i, n)[1] = pair(j, m)[1]
      PROVE  pair(i, n) = pair(j, m)
  <2>1. Physical(Offset[i] + n - 1) = Physical(Offset[j] + m - 1)
    BY <1>5, <1>6
  <2>2. /\ Offset[i] \in Nat /\ TotLen(stream[i]) \in Nat /\ RecEnd(i) = Offset[i] + TotLen(stream[i])
        /\ Offset[j] \in Nat /\ TotLen(stream[j]) \in Nat /\ RecEnd(j) = Offset[j] + TotLen(stream[j])
    BY RecordAt
  <2>3. Offset[i] + n - 1 \in Nat /\ Offset[j] + m - 1 \in Nat
    BY <2>2
  <2>4. Offset[i] + n - 1 = Offset[j] + m - 1
    BY <2>1, <2>3, PhysicalOrder
  <2>5. PICK k \in Nat : k = Offset[i] + n - 1 /\ k = Offset[j] + m - 1
    BY <2>3, <2>4
  <2>6. Offset[i] <= k /\ k < RecEnd(i) /\ Offset[j] <= k /\ k < RecEnd(j)
    BY <2>2, <2>5
  <2>7. i = j
    BY <2>6, OneRecord
  <2>8. n = m
    BY <2>2, <2>4, <2>7
  <2> QED
    BY <2>7, <2>8
<1>7. ASSUME NEW i \in 1 .. NRecords, NEW n \in 1 .. TotLen(stream[i])
      PROVE  /\ Physical(Offset[i] + n - 1) \in DOMAIN Placed
             /\ Placed[Physical(Offset[i] + n - 1)] = Encode(stream[i])[n]
  <2>1. PICK l : l = Physical(Offset[i] + n - 1)
    OBVIOUS
  <2>2. pair(i, n) \in all /\ pair(i, n)[1] = l
    BY <1>3, <1>5, <2>1
  <2>3. \A b \in all : b[1] = l => b = pair(i, n)
    BY <1>4, <1>6, <2>2
  <2>4. (CHOOSE b \in all : b[1] = l) = pair(i, n)
    BY <2>2, <2>3
  <2>5. l \in {b[1] : b \in all}
    BY <2>2
  <2>6. Placed[l] = pair(i, n)[2] /\ l \in DOMAIN Placed
    BY <1>1, <2>4, <2>5
  <2> QED
    BY <1>5, <2>1, <2>6
<1>8. ASSUME NEW l \in DOMAIN Placed
      PROVE  \E i \in 1 .. NRecords : \E n \in 1 .. TotLen(stream[i]) : l = Physical(Offset[i] + n - 1)
  <2>1. PICK b \in all : b[1] = l
    BY <1>1
  <2> QED
    BY <1>4, <1>5, <2>1
<1> QED
  BY <1>7, <1>8

\* The layout holds from the start.
LEMMA LayoutInit == Init => Layout
<1> SUFFICES ASSUME Init PROVE Layout
  OBVIOUS
<1> USE Sizes
<1>1. Spaced
  BY SpacedInit DEF Init
<1>2. wal = Placed
  BY DEF Init
<1>3. ASSUME NEW i \in 1 .. NRecords
      PROVE  StartLsn(i) = Physical(Offset[i]) /\ LastLsn(i) = Physical(RecEnd(i) - 1)
  <2>1. span[i] = <<Physical(Offset[i]), Physical(Offset[i] + TotLen(stream[i]) - 1)>>
    BY DEF Init
  <2>2. Offset[i] + TotLen(stream[i]) - 1 = RecEnd(i) - 1
    BY <1>1, RecordAt
  <2> QED
    BY <2>1, <2>2 DEF StartLsn, LastLsn
<1> QED
  BY <1>1, <1>2, <1>3, PlacedIs DEF Layout

\* The n-th byte of record i.
LEMMA ByteAt ==
    ASSUME Layout, NEW i \in 1 .. NRecords, NEW n \in 1 .. TotLen(stream[i])
    PROVE  Byte(Physical(Offset[i] + n - 1)) = Encode(stream[i])[n]
BY DEF Layout, Byte

\* Payload offset k belongs to no record.
Gap(k) == \A j \in 1 .. NRecords : ~(Offset[j] <= k /\ k < RecEnd(j))

\* What belongs to no record reads as zero.
LEMMA GapByte ==
    ASSUME Layout, NEW k \in Nat, Gap(k)
    PROVE  Physical(k) \notin DOMAIN wal /\ Byte(Physical(k)) = Zero
<1> USE Sizes
<1>1. Physical(k) \notin DOMAIN wal
  <2> SUFFICES ASSUME Physical(k) \in DOMAIN wal PROVE FALSE
    OBVIOUS
  <2>0. PICK i \in 1 .. NRecords :
                \E n \in 1 .. TotLen(stream[i]) : Physical(k) = Physical(Offset[i] + n - 1)
    BY DEF Layout
  <2>1. PICK n \in 1 .. TotLen(stream[i]) : Physical(k) = Physical(Offset[i] + n - 1)
    BY <2>0
  <2>2. /\ Offset[i] \in Nat /\ TotLen(stream[i]) \in Nat
        /\ RecEnd(i) = Offset[i] + TotLen(stream[i])
    BY RecordAt DEF Layout
  <2>3. PICK m \in Nat : m = Offset[i] + n - 1
    BY <2>2
  <2>4. k = m
    BY <2>1, <2>3, PhysicalOrder
  <2>5. Offset[i] <= k /\ k < RecEnd(i)
    BY <2>2, <2>3, <2>4
  <2> QED
    BY <2>5 DEF Gap
<1> QED
  BY <1>1 DEF Byte

\* Between the padding of a record and the next record there is nothing.
LEMMA GapIs ==
    ASSUME Spaced, NEW i \in 1 .. NRecords, NEW k \in Nat,
           i > 1 => PadEnd(i - 1) <= k, k < Offset[i]
    PROVE  Gap(k)
<1> USE Sizes
<1> SUFFICES ASSUME NEW j \in 1 .. NRecords, Offset[j] <= k, k < RecEnd(j) PROVE FALSE
  BY DEF Gap
<1>1. /\ Offset[j] \in Nat /\ RecEnd(j) \in Nat /\ PadEnd(j) \in Nat /\ RecEnd(j) <= PadEnd(j)
      /\ Offset[i] \in Nat /\ PadEnd(i) \in Nat /\ Offset[i] <= PadEnd(i)
  BY RecordAt
<1>2. CASE j = i
  BY <1>1, <1>2
<1>3. CASE j > i
  <2>1. PadEnd(i) <= Offset[j]
    BY <1>3, OffsetOrder
  <2> QED
    BY <1>1, <2>1
<1>4. CASE j < i
  <2>1. PICK h \in 1 .. NRecords : h = i - 1 /\ j <= h /\ i > 1
    BY <1>4
  <2>2. PadEnd(h) \in Nat /\ Offset[h] \in Nat /\ Offset[h] <= PadEnd(h) /\ PadEnd(h) <= k
    BY <2>1, RecordAt
  <2>3. CASE j = h
    BY <1>1, <2>2, <2>3
  <2>4. CASE j < h
    <3>1. PadEnd(j) <= Offset[h]
      BY <2>4, OffsetOrder
    <3> QED
      BY <1>1, <2>2, <3>1
  <2> QED
    BY <2>1, <2>3, <2>4
<1> QED
  BY <1>2, <1>3, <1>4

\* The first payload byte of a segment is the first one of its page.
LEMMA SegmentStart ==
    ASSUME NEW k \in Nat, k % SegPayload = 0
    PROVE  \E q \in Nat : q % PageSize = 0 /\ Physical(k) = q + HdrLen(q)
<1> USE Sizes, PagesIs
<1>1. PICK a \in Nat : k = a * SegPayload
  BY Multiple
<1>2. 0 < Pages /\ 0 < Payload(0)
  BY DEF Payload
<1>3. Physical(PageFirst(a, 0) + 0) = a * SegSize + 0 * PageSize + HdrLen(a * SegSize + 0 * PageSize) + 0
  BY <1>2, PhysicalOf
<1>4. PageFirst(a, 0) + 0 = k
  BY <1>1 DEF PageFirst
<1>5. a * SegSize + 0 * PageSize = (a * Pages + 0) * PageSize /\ a * Pages + 0 \in Nat
  BY <1>2, PageIs
<1>6. PICK n \in Nat : n = a * Pages + 0
  BY <1>5
<1>7. PICK q \in Nat : q = n * PageSize
  OBVIOUS
<1>8. q % PageSize = 0
  BY <1>7, MultipleIs
<1>9. HdrLen(q) \in Nat
  BY HdrLenIs
<1>10. Physical(k) = q + HdrLen(q) + 0
  BY <1>3, <1>4, <1>5, <1>6, <1>7
<1>11. Physical(k) = q + HdrLen(q)
  BY <1>9, <1>10
<1> QED
  BY <1>8, <1>11

\* Fill ends where a page begins: reading to the end of the page in front of
\* record i does not run into it.
LEMMA FillEnds ==
    ASSUME Spaced, NEW i \in 1 .. NRecords, NEW k \in Nat, NEW p \in Nat, StandsAt(p, k),
           i > 1 => PadEnd(i - 1) <= k, k < Offset[i],
           p % PageSize # 0, NEW n \in Nat, n <= PageSize - (p % PageSize)
    PROVE  k + n <= Offset[i]
<1> USE Sizes
<1>1. SUFFICES ASSUME k + n > Offset[i] PROVE FALSE
  BY RecordAt
<1>2. Offset[i] \in Nat
  BY RecordAt
<1>3. PICK t \in Nat : t + 1 = Offset[i] - k
  <2>1. Offset[i] - k - 1 \in Nat /\ (Offset[i] - k - 1) + 1 = Offset[i] - k
    BY <1>2
  <2> QED
    BY <2>1
<1>4. t + 1 \in Nat /\ t + 1 < n /\ t < n /\ k + (t + 1) = Offset[i]
  BY <1>1, <1>2, <1>3
<1>5. Physical(k + t) = p + t /\ Physical(k + (t + 1)) = p + (t + 1)
  <2>1. \A x \in Nat : x < n => Physical(k + x) = p + x
    BY Advance
  <2> QED
    BY <1>4, <2>1
<1>6. Offset[i] % SegPayload = 0
  <2>1. i > 1
    BY DEF Spaced
  <2>2. PICK h \in 1 .. NRecords : h = i - 1 /\ h + 1 = i
    BY <2>1
  <2>3. PadEnd(h) <= k /\ PadEnd(h) \in Nat
    BY <2>1, <2>2, RecordAt
  <2>4. PadEnd(h) < Offset[h + 1]
    BY <1>2, <2>2, <2>3
  <2> QED
    BY <2>2, <2>4 DEF Spaced
<1>7. PICK q \in Nat : q % PageSize = 0 /\ Physical(Offset[i]) = q + HdrLen(q)
  BY <1>2, <1>6, SegmentStart
<1>8. StandsAt(q, Offset[i])
  BY <1>7 DEF StandsAt
<1>9. k + t \in Nat /\ k + t < Offset[i]
  BY <1>2, <1>3
<1>10. Physical(k + t) < q
  BY <1>2, <1>8, <1>9, StandsBetween
<1>11. HdrLen(q) \in Nat \ {0}
  BY HdrLenIs
<1> QED
  BY <1>4, <1>5, <1>7, <1>10, <1>11, SMTT(30)

-----------------------------------------------------------------------------
\* The reader.

\* The server's side does not move.
LEMMA Steady ==
    ASSUME Layout, UNCHANGED env
    PROVE  /\ Layout' /\ stream' = stream /\ start' = start /\ magic' = magic /\ Offset' = Offset
           /\ \A i : RecEnd(i)' = RecEnd(i) /\ PadEnd(i)' = PadEnd(i)
           /\ \A i : StartLsn(i)' = StartLsn(i) /\ LastLsn(i)' = LastLsn(i)
           /\ EndLsn' = EndLsn
           /\ \A l : MayEnd(l) => MayEnd(l)'
<1>1. /\ stream' = stream /\ switch' = switch /\ wal' = wal /\ span' = span
      /\ magic' = magic /\ start' = start
  BY DEF env
<1>2. Offset' = Offset
  BY <1>1 DEF Offset
<1>3. \A i : RecEnd(i)' = RecEnd(i) /\ PadEnd(i)' = PadEnd(i)
  BY <1>1, <1>2 DEF RecEnd, PadEnd
<1>4. \A i : StartLsn(i)' = StartLsn(i) /\ LastLsn(i)' = LastLsn(i)
  BY <1>1 DEF StartLsn, LastLsn
<1>5. EndLsn' = EndLsn
  BY <1>1 DEF EndLsn, LastLsn
<1>6. \A l : MayEnd(l) => MayEnd(l)'
  BY <1>1 DEF MayEnd
<1>7. Spaced'
  BY <1>1, <1>2, <1>3 DEF Spaced, Layout
<1>8. Layout'
  BY <1>1, <1>2, <1>3, <1>4, <1>7 DEF Layout
<1> QED
  BY <1>1, <1>2, <1>3, <1>4, <1>5, <1>6, <1>8

\* The stream ends behind the last byte of the last record.
LEMMA EndIs ==
    ASSUME Layout
    PROVE  /\ EndLsn \in Nat /\ EndLsn = Physical(RecEnd(NRecords) - 1) + 1
           /\ RecEnd(NRecords) - 1 \in Nat
<1> USE Sizes
<1>1. RecEnd(NRecords) \in Nat /\ Offset[NRecords] \in Nat /\ Offset[NRecords] + RecHdr <= RecEnd(NRecords)
  BY RecordAt DEF Layout
<1>2. PICK m \in Nat : m = RecEnd(NRecords) - 1
  BY <1>1
<1>3. Physical(m) \in Nat
  BY PhysicalIs
<1>4. LastLsn(NRecords) = Physical(RecEnd(NRecords) - 1)
  BY DEF Layout
<1> QED
  BY <1>2, <1>3, <1>4 DEF EndLsn

\* What a step that only moves on in the bytes at hand has to keep.
LEMMA CountersKept ==
    ASSUME Layout, Counters, UNCHANGED env,
           NEW n \in Nat, n <= avail, pos' = pos + n, avail' = avail - n,
           skipLeft' \in Nat, need' \in Nat, recLsn' \in Nat,
           started' \in BOOLEAN, failed' \in BOOLEAN, started' => magic
    PROVE  Counters'
<1> USE Sizes
<1>1. /\ start' = start /\ magic' = magic /\ EndLsn' = EndLsn
      /\ \A l : MayEnd(l) => MayEnd(l)'
  BY Steady
<1>2. /\ pos \in Nat /\ avail \in Nat /\ pos + avail <= EndLsn
      /\ avail <= PageSize + MaxChunk /\ MayEnd(pos + avail)
      /\ start % PageSize = 0 /\ start \in Nat
  BY DEF Counters
<1>3. pos' \in Nat /\ avail' \in Nat /\ pos' + avail' = pos + avail /\ avail' <= PageSize + MaxChunk
  BY <1>2
<1>4. MayEnd(pos + avail)'
  <2>1. PICK l \in Nat : l = pos + avail /\ l = pos' + avail'
    BY <1>2, <1>3
  <2>2. MayEnd(l)'
    BY <1>1, <1>2, <2>1
  <2> QED
    BY <2>1, <2>2 DEF MayEnd
<1> QED
  BY <1>1, <1>2, <1>3, <1>4 DEF Counters

\* Where the reader stands after a step.
LEMMA Reads ==
    ASSUME NEW i \in 1 .. NRecords + 1, NEW k \in Nat, pos' \in Nat, StandsAt(pos', k),
           (Skipping(i, k) \/ Assembling(i, k) \/ Between(i, k))', Handed(i)'
    PROVE  Reading'
<1>1. k <= pos'
  BY StandsBelow
<1>2. k \in 0 .. pos'
  BY <1>1
<1>3. StandsAt(pos, k)'
  BY DEF StandsAt
<1> QED
  BY <1>2, <1>3 DEF Reading

\* Nothing handed over.
LEMMA HandedSame ==
    ASSUME Layout, UNCHANGED env, out' = out, NEW i \in 1 .. NRecords + 1, Handed(i)
    PROVE  Handed(i)'
<1>1. /\ stream' = stream /\ start' = start
      /\ \A j : StartLsn(j)' = StartLsn(j)
  BY Steady
<1> QED
  BY <1>1 DEF Handed

\* The records from i on end after offset k.
LEMMA Ahead ==
    ASSUME Spaced, skipLeft \in Nat, NEW i \in 1 .. NRecords + 1, NEW k \in Nat,
           Skipping(i, k) \/ Assembling(i, k) \/ Between(i, k),
           NEW j \in 1 .. NRecords, j >= i
    PROVE  k < RecEnd(j)
<1> USE Sizes
<1>1. i \in 1 .. NRecords
  OBVIOUS
<1>2. /\ Offset[i] \in Nat /\ RecEnd(i) \in Nat /\ PadEnd(i) \in Nat
      /\ TotLen(stream[i]) \in Nat /\ RecEnd(i) = Offset[i] + TotLen(stream[i]) /\ Offset[i] + RecHdr <= RecEnd(i)
      /\ RecEnd(i) <= PadEnd(i)
      /\ Offset[j] \in Nat /\ RecEnd(j) \in Nat /\ Offset[j] + RecHdr <= RecEnd(j)
  BY <1>1, RecordAt
<1>3. RecEnd(i) <= RecEnd(j)
  <2>1. CASE i = j
    BY <2>1, <1>2
  <2>2. CASE i < j
    <3>1. PadEnd(i) <= Offset[j]
      BY <1>1, <2>2, OffsetOrder
    <3> QED
      BY <3>1, <1>2
  <2> QED
    BY <2>1, <2>2
<1>4. k < RecEnd(i)
  <2>1. CASE Skipping(i, k)
    <3>1. i > 1
      BY <2>1 DEF Skipping
    <3>2. PICK h \in 1 .. NRecords : h = i - 1 /\ h + 1 = i
      BY <1>1, <3>1
    <3>3. /\ RecEnd(h) \in Nat /\ PadEnd(h) \in Nat /\ RecEnd(h) <= PadEnd(h)
          /\ PadEnd(h) <= Offset[h + 1]
      BY RecordAt
    <3>4. k + skipLeft = RecEnd(h) \/ k + skipLeft = PadEnd(h)
      BY <2>1, <3>2 DEF Skipping
    <3> QED
      BY <1>2, <3>2, <3>3, <3>4
  <2>2. CASE Assembling(i, k)
    <3>1. Len(rec) < TotLen(stream[i]) /\ k = Offset[i] + Len(rec) /\ Len(rec) \in Int
      BY <1>2, <1>1, <2>2, RecordAt DEF Assembling
    <3> QED
      BY <1>2, <3>1
  <2>3. CASE Between(i, k)
    BY <1>1, <1>2, <2>3 DEF Between
  <2> QED
    BY <2>1, <2>2, <2>3
<1> QED
  BY <1>2, <1>3, <1>4

\* The records before i that were begun after the start end before offset k.
LEMMA Behind ==
    ASSUME Layout, start \in Nat, skipLeft \in Nat, NEW i \in 1 .. NRecords + 1, NEW k \in Nat,
           Skipping(i, k) \/ Assembling(i, k) \/ Between(i, k),
           NEW j \in 1 .. NRecords, j < i, ~(StartLsn(j) < start)
    PROVE  RecEnd(j) <= k
<1> USE Sizes
<1>0. Spaced
  BY DEF Layout
<1>1. PICK h \in 1 .. NRecords : h = i - 1 /\ h + 1 = i /\ j <= h
  OBVIOUS
<1>2. /\ Offset[h] \in Nat /\ Offset[i] \in Nat /\ RecEnd(h) \in Nat /\ PadEnd(h) \in Nat
      /\ RecEnd(h) <= PadEnd(h) /\ PadEnd(h) <= Offset[i]
      /\ Offset[h] + RecHdr <= RecEnd(h) /\ PadEnd(h) < RecEnd(h) + Align
      /\ RecEnd(j) \in Nat /\ PadEnd(j) \in Nat /\ RecEnd(j) <= PadEnd(j)
  BY <1>0, <1>1, RecordAt
<1>3. RecEnd(j) <= RecEnd(h) /\ (j # h => RecEnd(j) <= Offset[h])
  <2>1. j # h => PadEnd(j) <= Offset[h]
    BY <1>0, <1>1, OffsetOrder
  <2> QED
    BY <1>1, <1>2, <2>1
<1>4. CASE Skipping(i, k) /\ RecEnd(h) <= k
  BY <1>2, <1>3, <1>4
<1>5. CASE StartLsn(h) < start
  <2>1. j # h
    BY <1>5
  <2>2. Offset[j] \in Nat /\ Offset[j] < RecEnd(j) /\ RecEnd(j) <= Offset[h]
    <3>1. Offset[j] \in Nat /\ Offset[j] + RecHdr <= RecEnd(j)
      BY <1>0, RecordAt
    <3> QED
      BY <1>2, <1>3, <2>1, <3>1
  <2>3. Physical(Offset[j]) < Physical(Offset[h]) /\ Physical(Offset[j]) \in Nat /\ Physical(Offset[h]) \in Nat
    <3>1. Offset[j] < Offset[h]
      BY <1>2, <2>2
    <3> QED
      BY <1>2, <2>2, <3>1, PhysicalOrder
  <2>4. StartLsn(j) = Physical(Offset[j]) /\ StartLsn(h) = Physical(Offset[h])
    BY DEF Layout
  <2> QED
    BY <1>5, <2>3, <2>4
<1>6. CASE Assembling(i, k)
  BY <1>2, <1>3, <1>6 DEF Assembling
<1>7. CASE Between(i, k)
  <2>1. PadEnd(h) <= k
    BY <1>1, <1>7 DEF Between
  <2> QED
    BY <1>2, <1>3, <2>1
<1> QED
  BY <1>1, <1>4, <1>5, <1>6, <1>7 DEF Skipping

\* A page boundary is aligned.
LEMMA PageAligned ==
    ASSUME NEW p \in Nat, p % PageSize = 0
    PROVE  p % Align = 0
<1> USE Sizes
<1>1. PICK n \in Nat : p = n * PageSize
  BY Multiple
<1>2. PICK w \in Nat : PageSize = w * Align
  BY WalReaderAssumption, Multiple
<1>3. p = (n * w) * Align /\ n * w \in Nat
  BY <1>1, <1>2
<1> QED
  BY <1>3, MultipleIs

\* A length field fits into a unit, a unit into a page.
LEMMA UnitFits == LenField <= Align /\ Align <= PageSize
<1> USE Sizes
<1>1. PICK w \in Nat : PageSize = w * Align
  BY WalReaderAssumption, Multiple
<1>2. w # 0
  BY <1>1
<1>3. PICK v \in Nat : w = v + 1
  <2>1. w - 1 \in Nat /\ w = (w - 1) + 1
    BY <1>2
  <2> QED
    BY <2>1
<1>4. PageSize = v * Align + Align /\ v * Align \in Nat
  BY <1>1, <1>3
<1> QED
  BY <1>4, WalReaderAssumption

\* The invariant holds before the first chunk.
LEMMA InvInit == Init => Inv
<1> SUFFICES ASSUME Init PROVE Inv
  OBVIOUS
<1> USE Sizes
<1>1. Layout
  BY LayoutInit
<1>2. EndLsn \in Nat
  BY <1>1, EndIs
<1>3. PICK p \in 0 .. EndLsn \div PageSize : start = p * PageSize
  BY DEF Init
<1>4. EndLsn \div PageSize \in Nat /\ EndLsn % PageSize \in Nat
      /\ EndLsn = (EndLsn \div PageSize) * PageSize + (EndLsn % PageSize)
  BY <1>2, DivIs
<1>5. p \in Nat /\ start \in Nat
  BY <1>3, <1>4
<1>6. PICK d \in Nat : EndLsn \div PageSize = p + d
  <2>1. (EndLsn \div PageSize) - p \in Nat /\ EndLsn \div PageSize = p + ((EndLsn \div PageSize) - p)
    BY <1>3, <1>4
  <2> QED
    BY <2>1
<1>7. start <= EndLsn
  <2>1. (p + d) * PageSize = p * PageSize + d * PageSize /\ d * PageSize \in Nat /\ p * PageSize \in Nat
    BY <1>5
  <2>2. EndLsn = (p + d) * PageSize + (EndLsn % PageSize)
    BY <1>4, <1>6
  <2> QED
    BY <1>2, <1>3, <1>4, <2>1, <2>2
<1>8. start % PageSize = 0
  BY <1>3, <1>5, MultipleIs
<1>9. start % Align = 0
  BY <1>5, <1>8, PageAligned
<1>10. /\ pos = start /\ avail = 0 /\ skipLeft = 0 /\ started = FALSE
       /\ rec = <<>> /\ recLsn = 0 /\ need = 0 /\ out = <<>> /\ failed = FALSE
  BY DEF Init
<1>11. pos + avail = start
  BY <1>5, <1>10
<1>12. MayEnd(pos + avail)
  BY <1>9, <1>11 DEF MayEnd
<1>13. Counters
  <2>1. /\ pos \in Nat /\ avail \in Nat /\ skipLeft \in Nat /\ need \in Nat /\ recLsn \in Nat
        /\ avail <= PageSize + MaxChunk /\ pos + avail <= EndLsn
    BY <1>5, <1>7, <1>10, <1>11
  <2>2. started \in BOOLEAN /\ failed \in BOOLEAN /\ (started => magic)
    BY <1>10, Zenon
  <2> QED
    BY <1>5, <1>8, <1>12, <2>1, <2>2, Zenon DEF Counters
<1> QED
  BY <1>1, <1>10, <1>13 DEF Inv, Fresh

\* Steps that leave the reader where it is.
LEMMA ReadingSame ==
    ASSUME Layout, UNCHANGED env,
           UNCHANGED <<pos, skipLeft, started, rec, recLsn, need, out>>,
           IF started THEN Reading ELSE Fresh
    PROVE  (IF started THEN Reading ELSE Fresh)'
<1>1. /\ stream' = stream /\ start' = start /\ Offset' = Offset
      /\ \A i : RecEnd(i)' = RecEnd(i) /\ PadEnd(i)' = PadEnd(i) /\ StartLsn(i)' = StartLsn(i)
  BY Steady
<1>2. Fresh => Fresh'
  BY <1>1 DEF Fresh
<1>3. ASSUME Reading PROVE Reading'
  <2>1. PICK i \in 1 .. NRecords + 1 : \E k \in 0 .. pos :
            /\ StandsAt(pos, k)
            /\ Skipping(i, k) \/ Assembling(i, k) \/ Between(i, k)
            /\ Handed(i)
    BY <1>3 DEF Reading
  <2>2. PICK k \in 0 .. pos :
            /\ StandsAt(pos, k)
            /\ Skipping(i, k) \/ Assembling(i, k) \/ Between(i, k)
            /\ Handed(i)
    BY <2>1
  <2>3. StandsAt(pos, k)' /\ k \in 0 .. pos'
    BY <2>2 DEF StandsAt
  <2>4. Skipping(i, k) => Skipping(i, k)'
    BY <1>1 DEF Skipping
  <2>5. Assembling(i, k) => Assembling(i, k)'
    BY <1>1 DEF Assembling
  <2>6. Between(i, k) => Between(i, k)'
    BY <1>1 DEF Between
  <2>7. Handed(i)'
    BY <2>2, HandedSame
  <2> QED
    BY <2>2, <2>3, <2>4, <2>5, <2>6, <2>7 DEF Reading
<1> QED
  BY <1>2, <1>3

\* When feed() has returned, less than a page is left over.
LEMMA IdleRest ==
    ASSUME Counters, Idle
    PROVE  /\ avail < PageSize
           /\ PageOff = 0 => avail < HdrLen(pos)
           /\ PageOff # 0 => avail < LenField
           /\ PageOff # 0 /\ (skipLeft # 0 \/ need # 0) => avail = 0
<1> USE Sizes
<1>1. avail \in Nat /\ skipLeft \in Nat /\ need \in Nat
  BY DEF Counters
<1>2. HdrLen(pos) \in Nat /\ HdrLen(pos) < PageSize
  BY HdrLenIs
<1>3. PageOff = 0 => avail < HdrLen(pos)
  BY <1>1, <1>2 DEF Idle, AtHeader
<1>4. PageOff # 0 /\ (skipLeft # 0 \/ need # 0) => avail = 0
  BY <1>1 DEF Idle, Discarding, InRecord
<1>5. PageOff # 0 /\ skipLeft = 0 /\ need = 0 => avail < LenField
  BY <1>1 DEF Idle, AtRecord
<1>6. PageOff # 0 => avail < LenField
  BY <1>4, <1>5
<1> QED
  BY <1>1, <1>2, <1>3, <1>4, <1>6, UnitFits

\* A chunk only adds to the bytes at hand.
LEMMA FeedKeeps ==
    ASSUME Inv, NEW n \in 1 .. MaxChunk, Feed(n)
    PROVE  Inv'
<1> USE Sizes
<1>1. Layout /\ Counters /\ IF started THEN Reading ELSE Fresh
  BY DEF Inv
<1>2. /\ Idle /\ pos + avail + n <= EndLsn /\ MayEnd(pos + avail + n) /\ avail' = avail + n
      /\ UNCHANGED env /\ failed' = failed
      /\ UNCHANGED <<pos, skipLeft, started, rec, recLsn, need, out>>
  BY DEF Feed
<1>3. Layout' /\ EndLsn' = EndLsn /\ start' = start /\ magic' = magic /\ \A l : MayEnd(l) => MayEnd(l)'
  BY <1>1, <1>2, Steady
<1>4. (IF started THEN Reading ELSE Fresh)'
  BY <1>1, <1>2, ReadingSame
<1>5. pos \in Nat /\ avail \in Nat /\ avail < PageSize
  BY <1>1, <1>2, IdleRest DEF Counters
<1>6. avail' \in Nat /\ avail' <= PageSize + MaxChunk /\ pos' + avail' = pos + avail + n
  BY <1>2, <1>5
<1>7. MayEnd(pos + avail)'
  <2>1. PICK l \in Nat : l = pos + avail + n /\ l = pos' + avail'
    BY <1>5, <1>6
  <2>2. MayEnd(l)'
    BY <1>2, <1>3, <2>1
  <2> QED
    BY <2>1, <2>2 DEF MayEnd
<1>8. Counters'
  BY <1>1, <1>2, <1>3, <1>6, <1>7 DEF Counters
<1> QED
  BY <1>3, <1>4, <1>8 DEF Inv

\* Neither refusal changes anything but failed; a stuttering step nothing.
LEMMA RefusalKeeps ==
    ASSUME Inv, UNCHANGED <<env, reader, out>>, failed' \in BOOLEAN
    PROVE  Inv'
<1> USE Sizes
<1>1. Layout /\ Counters /\ IF started THEN Reading ELSE Fresh
  BY DEF Inv
<1>2. /\ UNCHANGED env /\ avail' = avail
      /\ UNCHANGED <<pos, skipLeft, started, rec, recLsn, need, out>>
  BY DEF reader
<1>3. Layout'
  BY <1>1, <1>2, Steady
<1>4. (IF started THEN Reading ELSE Fresh)'
  BY <1>1, <1>2, ReadingSame
<1>5. /\ pos \in Nat /\ avail \in Nat /\ skipLeft \in Nat /\ need \in Nat /\ recLsn \in Nat
      /\ started \in BOOLEAN /\ (started => magic)
  BY <1>1 DEF Counters
<1>6. pos' = pos + 0 /\ avail' = avail - 0 /\ 0 <= avail
  BY <1>2, <1>5
<1>7. Counters'
  BY <1>1, <1>2, <1>5, <1>6, CountersKept
<1> QED
  BY <1>3, <1>4, <1>7 DEF Inv

\* At the end of a record, or of its padding, what is left is the padding.
LEMMA PadRest ==
    ASSUME Spaced, NEW h \in 1 .. NRecords, NEW k \in Nat, k = RecEnd(h) \/ k = PadEnd(h),
           NEW p \in Nat, StandsAt(p, k)
    PROVE  Pad(p) \in Nat /\ k + Pad(p) = PadEnd(h) /\ RecEnd(h) <= k
<1> USE Sizes
<1>1. /\ RecEnd(h) \in Nat /\ PadEnd(h) \in Nat /\ PadEnd(h) = Aligned(RecEnd(h))
      /\ PadEnd(h) % Align = 0 /\ RecEnd(h) <= PadEnd(h)
  BY RecordAt
<1>2. PICK z \in Int : p = k + z * Align
  BY StandsBelow
<1>3. Pad(p) = Aligned(k) - k
  BY <1>2, PadIs
<1>4. Aligned(k) = PadEnd(h)
  <2>1. Aligned(PadEnd(h)) = PadEnd(h)
    BY <1>1, AlignedAgain
  <2> QED
    BY <1>1, <2>1
<1>5. Pad(p) = PadEnd(h) - k
  BY <1>3, <1>4
<1>6. k <= PadEnd(h) /\ RecEnd(h) <= k
  BY <1>1
<1>7. PICK d \in Nat : d = PadEnd(h) - k
  BY <1>1, <1>6
<1> QED
  BY <1>1, <1>5, <1>6, <1>7

\* Having reached the end of a record, the reader skips its padding or is in
\* front of the next one.
LEMMA EndsRecord ==
    ASSUME Layout, UNCHANGED env, NEW h \in 1 .. NRecords, NEW k \in Nat,
           k = RecEnd(h) \/ k = PadEnd(h), pos' \in Nat, StandsAt(pos', k),
           skipLeft' = Pad(pos'), need' = 0, rec' = <<>>
    PROVE  /\ skipLeft' \in Nat
           /\ (Skipping(h + 1, k) \/ Assembling(h + 1, k) \/ Between(h + 1, k))'
<1> USE Sizes
<1>1. Spaced
  BY DEF Layout
<1>2. /\ Offset' = Offset
      /\ \A i : RecEnd(i)' = RecEnd(i) /\ PadEnd(i)' = PadEnd(i)
  BY Steady
<1>3. skipLeft' \in Nat /\ k + skipLeft' = PadEnd(h) /\ RecEnd(h) <= k
  BY <1>1, PadRest
<1>4. h + 1 > 1 /\ (h + 1) - 1 = h
  OBVIOUS
<1>5. CASE skipLeft' > 0
  <2>1. /\ k + skipLeft' = PadEnd((h + 1) - 1)' /\ RecEnd((h + 1) - 1)' <= k
    BY <1>2, <1>3, <1>4
  <2>2. Skipping(h + 1, k)'
    BY <1>4, <1>5, <2>1 DEF Skipping
  <2> QED
    BY <1>3, <2>2
<1>6. CASE skipLeft' = 0
  <2>1. PadEnd(h) \in Nat /\ PadEnd(h) % Align = 0 /\ PadEnd(h) <= Offset[h + 1]
    BY <1>1, RecordAt
  <2>2. k = PadEnd(h)
    BY <1>3, <1>6, <2>1
  <2>3. PadEnd((h + 1) - 1)' = PadEnd(h) /\ Offset[h + 1]' = Offset[h + 1]
    BY <1>2, <1>4
  <2>4. Between(h + 1, k)'
    BY <1>6, <2>1, <2>2, <2>3 DEF Between
  <2> QED
    BY <1>3, <2>4
<1> QED
  BY <1>3, <1>5, <1>6

\* The lesser of two numbers.
LEMMA Taken ==
    ASSUME NEW a \in Nat, NEW b \in Nat
    PROVE  Least(a, b) \in Nat /\ Least(a, b) <= a /\ Least(a, b) <= b /\ Least(a, b) \in {a, b}
BY DEF Least

\* Discarding moves through the rest of a record or its padding, over pages,
\* and stops at its end.
LEMMA DiscardKeeps ==
    ASSUME Inv, Discard
    PROVE  Inv'
<1> USE Sizes
<1>1. Layout /\ Counters /\ IF started THEN Reading ELSE Fresh
  BY DEF Inv
<1>2. /\ pos \in Nat /\ avail \in Nat /\ skipLeft \in Nat /\ need \in Nat /\ recLsn \in Nat
      /\ started \in BOOLEAN /\ failed \in BOOLEAN /\ (started => magic)
  BY <1>1 DEF Counters
<1>3. PICK take : take = Least(skipLeft, Least(PageRem, avail))
  OBVIOUS
<1>4. /\ PageOff # 0 /\ avail > 0 /\ skipLeft > 0
      /\ pos' = pos + take /\ avail' = avail - take
      /\ skipLeft' = IF skipLeft = take THEN Pad(pos + take) ELSE skipLeft - take
      /\ UNCHANGED <<started, rec, recLsn, need, out, failed>>
  BY <1>3 DEF Discard, Discarding
<1>5. UNCHANGED env
  BY DEF Discard
<1>6. pos % PageSize \in Nat /\ pos % PageSize # 0 /\ pos % PageSize < PageSize
      /\ PageRem = PageSize - (pos % PageSize) /\ PageRem \in Nat
  BY <1>2, <1>4, DivIs DEF PageOff, PageRem
<1>7. take \in Nat /\ take <= skipLeft /\ take <= PageRem /\ take <= avail
  <2>1. PICK m : m = Least(PageRem, avail)
    OBVIOUS
  <2>2. m \in Nat /\ m <= PageRem /\ m <= avail
    BY <1>2, <1>6, <2>1, Taken
  <2>3. take \in Nat /\ take <= skipLeft /\ take <= m
    BY <1>2, <1>3, <2>1, <2>2, Taken
  <2> QED
    BY <1>2, <1>6, <2>2, <2>3
<1>8. started /\ Reading
  BY <1>1, <1>4 DEF Fresh
<1>9. PICK i \in 1 .. NRecords + 1 : \E k \in 0 .. pos :
            /\ StandsAt(pos, k)
            /\ Skipping(i, k) \/ Assembling(i, k) \/ Between(i, k)
            /\ Handed(i)
  BY <1>8 DEF Reading
<1>10. PICK k \in 0 .. pos :
            /\ StandsAt(pos, k)
            /\ Skipping(i, k) \/ Assembling(i, k) \/ Between(i, k)
            /\ Handed(i)
  BY <1>9
<1>11. k \in Nat /\ k + take \in Nat /\ pos + take \in Nat
  BY <1>2, <1>7, <1>10
<1>12. Skipping(i, k)
  BY <1>4, <1>10 DEF Assembling, Between
<1>13. StandsAt(pos + take, k + take)
  BY <1>2, <1>6, <1>7, <1>10, <1>11, Advance
<1>14. Handed(i)'
  BY <1>1, <1>4, <1>5, <1>10, HandedSame
<1>15. PICK h \in 1 .. NRecords : h = i - 1 /\ i = h + 1
  BY <1>12 DEF Skipping
<1>16. need' = 0 /\ rec' = <<>> /\ pos' \in Nat /\ StandsAt(pos', k + take)
  BY <1>4, <1>11, <1>12, <1>13 DEF Skipping
<1>17. /\ \/ k + skipLeft = RecEnd(h) /\ StartLsn(h) < start
          \/ k + skipLeft = PadEnd(h) /\ RecEnd(h) <= k
  BY <1>12, <1>15 DEF Skipping
<1>18. skipLeft' \in Nat /\ (Skipping(i, k + take) \/ Assembling(i, k + take) \/ Between(i, k + take))'
  <2>1. CASE skipLeft = take
    <3>1. k + take = RecEnd(h) \/ k + take = PadEnd(h)
      BY <1>17, <2>1
    <3>2. skipLeft' = Pad(pos')
      BY <1>4, <2>1
    <3>3. PICK m \in Nat : m = k + take
      BY <1>11
    <3>4. skipLeft' \in Nat /\ (Skipping(h + 1, m) \/ Assembling(h + 1, m) \/ Between(h + 1, m))'
      BY <1>1, <1>5, <1>16, <3>1, <3>2, <3>3, EndsRecord
    <3> QED
      BY <1>15, <3>3, <3>4
  <2>2. CASE skipLeft # take
    <3>1. skipLeft' = skipLeft - take /\ skipLeft' \in Nat /\ skipLeft' > 0
      BY <1>2, <1>4, <1>7, <2>2
    <3>2. (k + take) + skipLeft' = k + skipLeft /\ k <= k + take
      BY <1>2, <1>7, <1>11, <3>1
    <3>3. start' = start /\ RecEnd(h)' = RecEnd(h) /\ PadEnd(h)' = PadEnd(h) /\ StartLsn(h)' = StartLsn(h)
      BY <1>1, <1>5, Steady
    <3>4. RecEnd(h) \in Nat
      BY <1>1, RecordAt DEF Layout
    <3>5. \/ (k + take) + skipLeft' = RecEnd(h)' /\ StartLsn(h)' < start'
          \/ (k + take) + skipLeft' = PadEnd(h)' /\ RecEnd(h)' <= k + take
      BY <1>11, <1>17, <3>2, <3>3, <3>4
    <3>6. Skipping(i, k + take)'
      BY <1>12, <1>15, <1>16, <3>1, <3>5 DEF Skipping
    <3> QED
      BY <3>1, <3>6
  <2> QED
    BY <2>1, <2>2
<1>19. Reading'
  BY <1>11, <1>14, <1>16, <1>18, Reads
<1>20. Counters'
  BY <1>1, <1>2, <1>4, <1>5, <1>7, <1>18, CountersKept
<1>21. Layout'
  BY <1>1, <1>5, Steady
<1> QED
  BY <1>4, <1>8, <1>19, <1>20, <1>21 DEF Inv

\* The first record that does not begin before offset k.
LEMMA FirstRecord ==
    ASSUME Spaced, NEW k \in Nat
    PROVE  \E f \in 1 .. NRecords + 1 : \A j \in 1 .. NRecords : Offset[j] >= k <=> j >= f
<1> USE Sizes
<1> DEFINE first(f) == \A j \in 1 .. NRecords : Offset[j] >= k <=> j >= f
           S == {n \in Nat : \/ \E f \in 1 .. NRecords + 1 : first(f)
                             \/ \A j \in 1 .. NRecords : j <= n => Offset[j] < k}
<1>1. 0 \in S
  OBVIOUS
<1>2. ASSUME NEW n \in Nat, n \in S PROVE n + 1 \in S
  <2>1. SUFFICES ASSUME \A j \in 1 .. NRecords : j <= n => Offset[j] < k,
                        NEW m \in 1 .. NRecords, m = n + 1, ~(Offset[m] < k)
                 PROVE  \E f \in 1 .. NRecords + 1 : first(f)
    <3>1. CASE \E f \in 1 .. NRecords + 1 : first(f)
      BY <3>1
    <3>2. CASE \A j \in 1 .. NRecords : j <= n => Offset[j] < k
      <4>1. CASE \A j \in 1 .. NRecords : j <= n + 1 => Offset[j] < k
        BY <4>1
      <4>2. CASE \E j \in 1 .. NRecords : j <= n + 1 /\ ~(Offset[j] < k)
        <5>1. PICK j \in 1 .. NRecords : j <= n + 1 /\ ~(Offset[j] < k)
          BY <4>2
        <5>2. j = n + 1
          BY <3>2, <5>1
        <5> QED
          BY <2>1, <3>2, <5>1, <5>2
      <4> QED
        BY <4>1, <4>2
    <3> QED
      BY <1>2, <3>1, <3>2
  <2>2. ASSUME NEW j \in 1 .. NRecords, j >= m PROVE Offset[j] >= k
    <3>1. /\ Offset[m] \in Nat /\ Offset[j] \in Nat /\ PadEnd(m) \in Nat
          /\ RecEnd(m) \in Nat /\ RecEnd(m) <= PadEnd(m) /\ Offset[m] + RecHdr <= RecEnd(m)
      BY RecordAt
    <3>2. m < j => PadEnd(m) <= Offset[j]
      BY OffsetOrder
    <3> QED
      BY <2>1, <2>2, <3>1, <3>2
  <2>3. ASSUME NEW j \in 1 .. NRecords, ~(j >= m) PROVE ~(Offset[j] >= k)
    <3>1. Offset[j] \in Nat
      BY RecordAt
    <3> QED
      BY <2>1, <2>3, <3>1
  <2>4. first(m)
    BY <2>2, <2>3
  <2>5. m \in 1 .. NRecords + 1
    OBVIOUS
  <2> HIDE DEF first
  <2> QED
    BY <2>4, <2>5
<1> HIDE DEF S
<1>3. NRecords \in S
  BY <1>1, <1>2, Inductive
<1>4. CASE \E f \in 1 .. NRecords + 1 : first(f)
  BY <1>4
<1>5. CASE \A j \in 1 .. NRecords : j <= NRecords => Offset[j] < k
  <2>1. \A j \in 1 .. NRecords : Offset[j] \in Nat
    BY RecordAt
  <2>2. first(NRecords + 1)
    BY <1>5, <2>1
  <2> QED
    BY <2>2
<1> QED
  BY <1>3, <1>4, <1>5 DEF S

\* The page at p begins in the middle of a record.
LEMMA CutIs ==
    ASSUME Layout, NEW p \in Nat, p % PageSize = 0, NEW k \in Nat, StandsAt(p, k),
           NEW c \in 1 .. NRecords
    PROVE  /\ StartLsn(c) < p <=> Offset[c] < k
           /\ StartLsn(c) >= p <=> Offset[c] >= k
           /\ LastLsn(c) > p <=> k < RecEnd(c)
<1> USE Sizes
<1>1. Offset[c] \in Nat /\ RecEnd(c) \in Nat /\ Offset[c] + RecHdr <= RecEnd(c)
  BY RecordAt DEF Layout
<1>2. PICK e \in Nat : e = RecEnd(c) - 1
  BY <1>1
<1>3. StartLsn(c) = Physical(Offset[c]) /\ LastLsn(c) = Physical(e)
  BY <1>2 DEF Layout
<1>4. Physical(Offset[c]) < p <=> Offset[c] < k
  BY <1>1, StandsBetween
<1>5. Physical(e) < p <=> e < k
  BY StandsBetween
<1>6. Physical(e) \in Nat /\ Physical(e) # p /\ Physical(Offset[c]) \in Nat
  BY <1>1, PhysicalIs
<1> QED
  BY <1>1, <1>2, <1>3, <1>4, <1>5, <1>6

\* What is left of the cut record, counted in payload bytes.
LEMMA RestBytes ==
    ASSUME Layout, NEW p \in Nat, p % PageSize = 0, NEW k \in Nat, StandsAt(p, k),
           NEW c \in 1 .. NRecords, Offset[c] < k, k < RecEnd(c)
    PROVE  Cardinality({m \in DOMAIN wal : p < m /\ m <= LastLsn(c)}) = RecEnd(c) - k
<1> USE Sizes
<1>1. /\ Offset[c] \in Nat /\ RecEnd(c) \in Nat /\ TotLen(stream[c]) \in Nat
      /\ RecEnd(c) = Offset[c] + TotLen(stream[c])
  BY RecordAt DEF Layout
<1>2. PICK e \in Nat : e = RecEnd(c) - 1
  BY <1>1
<1>3. LastLsn(c) = Physical(e)
  BY <1>2 DEF Layout
<1> DEFINE A == k .. e
           B == {m \in DOMAIN wal : p < m /\ m <= LastLsn(c)}
           F == [j \in A |-> Physical(j)]
<1>4. ASSUME NEW j \in A PROVE Physical(j) \in B
  <2>1. j \in Nat /\ k <= j /\ j <= e
    OBVIOUS
  <2>2. PICK n \in 1 .. TotLen(stream[c]) : j = Offset[c] + n - 1
    <3>1. j - Offset[c] + 1 \in 1 .. TotLen(stream[c]) /\ j = Offset[c] + (j - Offset[c] + 1) - 1
      BY <1>1, <1>2, <2>1
    <3> QED
      BY <3>1
  <2>3. Physical(j) \in DOMAIN wal
    BY <2>2 DEF Layout
  <2>4. p <= Physical(j) /\ Physical(j) \in Nat /\ Physical(j) # p
    BY <2>1, StandsBetween, PhysicalIs
  <2>5. Physical(j) <= Physical(e)
    <3>1. Physical(j) + (e - j) <= Physical(e) /\ Physical(e) \in Nat
      BY <2>1, PhysicalOrder
    <3> QED
      BY <2>1, <2>4, <3>1
  <2> QED
    BY <1>3, <2>3, <2>4, <2>5
<1>5. ASSUME NEW m \in B PROVE \E j \in A : Physical(j) = m
  <2>1. PICK i \in 1 .. NRecords : \E n \in 1 .. TotLen(stream[i]) : m = Physical(Offset[i] + n - 1)
    BY DEF Layout
  <2>2. PICK n \in 1 .. TotLen(stream[i]) : m = Physical(Offset[i] + n - 1)
    BY <2>1
  <2>3. Offset[i] \in Nat /\ TotLen(stream[i]) \in Nat
    BY RecordAt DEF Layout
  <2>4. PICK o \in Nat : o = Offset[i] + n - 1
    BY <2>3
  <2>5. p < Physical(o) /\ Physical(o) <= Physical(e) /\ m = Physical(o)
    BY <1>3, <2>2, <2>4
  <2>6. o >= k
    <3>1. Physical(o) < p <=> o < k
      BY StandsBetween
    <3>2. Physical(o) \in Nat
      BY PhysicalIs
    <3> QED
      BY <2>5, <3>1, <3>2
  <2>7. o <= e
    <3>1. e < o <=> Physical(e) < Physical(o)
      BY PhysicalOrder
    <3>2. Physical(o) \in Nat /\ Physical(e) \in Nat
      BY PhysicalIs
    <3> QED
      BY <2>5, <3>1, <3>2
  <2>8. o \in A
    BY <2>6, <2>7
  <2> QED
    BY <2>5, <2>8
<1>6. \A x, y \in A : Physical(x) = Physical(y) => x = y
  <2> SUFFICES ASSUME NEW x \in A, NEW y \in A, Physical(x) = Physical(y) PROVE x = y
    OBVIOUS
  <2>1. x \in Nat /\ y \in Nat
    OBVIOUS
  <2> QED
    BY <2>1, PhysicalOrder
<1> HIDE DEF A, B
<1>7. F \in [A -> B] /\ (\A x, y \in A : F[x] = F[y] => x = y) /\ \A m \in B : \E j \in A : F[j] = m
  BY <1>4, <1>5, <1>6
<1>8. F \in Bijection(A, B)
  <2> HIDE DEF F
  <2> QED
    BY <1>7, Fun_IsBij
<1>9. ExistsBijection(A, B)
  BY <1>8, Fun_ExistsBij
<1>10. IsFiniteSet(A) /\ Cardinality(A) = IF k > e THEN 0 ELSE e - k + 1
  BY FS_Interval DEF A
<1>11. Cardinality(B) = Cardinality(A)
  BY <1>9, <1>10, FS_Bijection
<1>12. Cardinality(B) = RecEnd(c) - k
  BY <1>1, <1>2, <1>10, <1>11
<1> QED
  BY <1>12 DEF B

\* Behind a page header the position is aligned.
LEMMA HeaderAligned ==
    ASSUME NEW p \in Nat, p % PageSize = 0, NEW k \in Nat, Physical(k) = p + HdrLen(p)
    PROVE  k % Align = 0 /\ Pad(p + HdrLen(p)) = 0
<1> USE Sizes
<1>1. HdrLen(p) \in Nat /\ \E w \in Nat : HdrLen(p) = w * Align
  BY HdrLenIs
<1>2. PICK w \in Nat : HdrLen(p) = w * Align
  BY <1>1
<1>3. p % Align = 0 /\ HdrLen(p) % Align = 0
  BY <1>2, MultipleIs, PageAligned
<1>4. (p + HdrLen(p)) % Align = 0
  BY <1>1, <1>3, AlignedAdd
<1>5. PICK q \in Nat : q = p + HdrLen(p)
  BY <1>1
<1>6. Aligned(q) = q
  BY <1>4, <1>5, AlignedAgain
<1>7. Pad(q) = 0
  BY <1>6 DEF Pad
<1>8. PICK z \in Int : q = k + z * Align
  <2>1. PICK z \in Nat : Physical(k) = k + z * Align
    BY PhysicalAligned
  <2> QED
    BY <1>5, <2>1
<1>9. Pad(q) = Aligned(k) - k /\ Aligned(k) \in Nat
  BY <1>8, PadIs, AlignedIs
<1>10. Aligned(k) = k
  BY <1>7, <1>9
<1> QED
  BY <1>5, <1>7, <1>10, AlignedAgain

\* A page boundary and the payload behind it.
LEMMA BoundaryStands ==
    ASSUME NEW p \in Nat, p % PageSize = 0
    PROVE  \E k \in Nat : Physical(k) = p + HdrLen(p) /\ StandsAt(p, k)
<1>1. PICK n \in Nat : p = n * PageSize
  BY Sizes, Multiple
<1>2. PICK k \in Nat : Physical(k) = n * PageSize + HdrLen(n * PageSize)
  BY PageStands
<1> QED
  BY <1>1, <1>2 DEF StandsAt

\* A later header: nothing of what is being done changes.
LEMMA StripLater ==
    ASSUME Layout, Counters, Reading, started, StripHeader
    PROVE  Reading' /\ skipLeft' \in Nat
<1> USE Sizes
<1>1. pos \in Nat /\ skipLeft \in Nat /\ need \in Nat
  BY DEF Counters
<1>2. /\ PageOff = 0 /\ pos' = pos + HdrLen(pos) /\ UNCHANGED env /\ UNCHANGED <<rec, recLsn, need, out>>
      /\ skipLeft' = IF skipLeft = 0 /\ need = 0 THEN Pad(pos + HdrLen(pos)) ELSE skipLeft
  BY DEF StripHeader, AtHeader
<1>3. PICK i \in 1 .. NRecords + 1 : \E k \in 0 .. pos :
            /\ StandsAt(pos, k)
            /\ Skipping(i, k) \/ Assembling(i, k) \/ Between(i, k)
            /\ Handed(i)
  BY DEF Reading
<1>4. PICK k \in 0 .. pos :
            /\ StandsAt(pos, k)
            /\ Skipping(i, k) \/ Assembling(i, k) \/ Between(i, k)
            /\ Handed(i)
  BY <1>3
<1>5. k \in Nat /\ pos % PageSize = 0
  BY <1>1, <1>2, <1>4 DEF PageOff
<1>6. Physical(k) = pos + HdrLen(pos)
  <2>1. Physical(k) % PageSize # 0
    BY <1>5, PhysicalIs
  <2> QED
    BY <1>4, <1>5, <2>1 DEF StandsAt
<1>7. pos' \in Nat /\ StandsAt(pos', k)
  <2>1. Physical(k) \in Nat
    BY <1>5, PhysicalIs
  <2> QED
    BY <1>2, <1>6, <2>1 DEF StandsAt
<1>8. skipLeft' = skipLeft
  BY <1>1, <1>2, <1>5, <1>6, HeaderAligned
<1>9. /\ stream' = stream /\ start' = start /\ Offset' = Offset
      /\ \A h : RecEnd(h)' = RecEnd(h) /\ PadEnd(h)' = PadEnd(h) /\ StartLsn(h)' = StartLsn(h)
  BY <1>2, Steady
<1>10. (Skipping(i, k) \/ Assembling(i, k) \/ Between(i, k))'
  <2>1. Skipping(i, k) => Skipping(i, k)'
    BY <1>2, <1>8, <1>9 DEF Skipping
  <2>2. Assembling(i, k) => Assembling(i, k)'
    BY <1>2, <1>8, <1>9 DEF Assembling
  <2>3. Between(i, k) => Between(i, k)'
    BY <1>2, <1>8, <1>9 DEF Between
  <2> QED
    BY <1>4, <2>1, <2>2, <2>3
<1>11. Handed(i)'
  BY <1>2, <1>4, HandedSame
<1>12. Reading'
  BY <1>5, <1>7, <1>10, <1>11, Reads
<1> QED
  BY <1>1, <1>8, <1>12

\* The first header: the reader is behind it, in front of the first record
\* that begins on or after its page, skipping the end of the one before.
LEMMA StripFirst ==
    ASSUME Layout, Counters, Fresh, ~started, StripHeader
    PROVE  Reading' /\ skipLeft' \in Nat
<1> USE Sizes
<1>1. start \in Nat /\ start % PageSize = 0 /\ pos = start /\ need = 0 /\ rec = <<>> /\ out = <<>>
  BY DEF Counters, Fresh
<1>2. /\ pos' = start + HdrLen(start) /\ UNCHANGED env /\ UNCHANGED <<rec, recLsn, need, out>>
      /\ skipLeft' = IF RemLen(start) = 0 THEN Pad(start + HdrLen(start)) ELSE RemLen(start)
  BY <1>1 DEF StripHeader
<1>3. PICK k \in Nat : Physical(k) = start + HdrLen(start) /\ StandsAt(start, k)
  BY <1>1, BoundaryStands
<1>4. k % Align = 0 /\ Pad(start + HdrLen(start)) = 0
  BY <1>1, <1>3, HeaderAligned
<1>5. pos' \in Nat /\ StandsAt(pos', k)
  <2>1. Physical(k) \in Nat
    BY PhysicalIs
  <2> QED
    BY <1>2, <1>3, <2>1 DEF StandsAt
<1>6. Spaced
  BY DEF Layout
<1>7. PICK f \in 1 .. NRecords + 1 : \A j \in 1 .. NRecords : Offset[j] >= k <=> j >= f
  BY <1>6, FirstRecord
<1>8. \A j \in 1 .. NRecords : /\ StartLsn(j) >= start <=> j >= f
                               /\ StartLsn(j) < start <=> Offset[j] < k
                               /\ LastLsn(j) > start <=> k < RecEnd(j)
  BY <1>1, <1>3, <1>7, CutIs
<1>9. /\ stream' = stream /\ start' = start /\ Offset' = Offset
      /\ \A h : RecEnd(h)' = RecEnd(h) /\ PadEnd(h)' = PadEnd(h) /\ StartLsn(h)' = StartLsn(h)
  BY <1>2, Steady
<1>10. Handed(f)'
  <2> DEFINE g(n) == [lsn |-> StartLsn(f + n - 1)', bytes |-> Encode(stream'[f + n - 1])]
  <2>1. out' = [n \in 1 .. f - f |-> g(n)]
    <3>1. 1 .. f - f = {}
      OBVIOUS
    <3>2. out' = <<>>
      BY <1>1, <1>2
    <3> HIDE DEF g
    <3> QED
      BY <3>1, <3>2
  <2>2. \A j \in 1 .. NRecords : StartLsn(j)' >= start' <=> j >= f
    BY <1>8, <1>9
  <2>3. f \in 1 .. f
    OBVIOUS
  <2> QED
    BY <2>1, <2>2, <2>3 DEF Handed
<1> DEFINE cut == {j \in 1 .. NRecords : StartLsn(j) < start /\ LastLsn(j) > start}
<1>11. CASE cut = {}
  <2>1. RemLen(start) = 0
    BY <1>11 DEF RemLen
  <2>2. skipLeft' = 0
    BY <1>2, <1>4, <2>1
  <2>3. f > 1 => PadEnd(f - 1) <= k
    <3> SUFFICES ASSUME f > 1 PROVE PadEnd(f - 1) <= k
      OBVIOUS
    <3>1. PICK h \in 1 .. NRecords : h = f - 1 /\ ~(h >= f)
      OBVIOUS
    <3>2. /\ Offset[h] \in Nat /\ RecEnd(h) \in Nat /\ PadEnd(h) \in Nat
          /\ PadEnd(h) < RecEnd(h) + Align /\ PadEnd(h) % Align = 0
      BY <1>6, RecordAt
    <3>3. Offset[h] < k /\ ~(k < RecEnd(h))
      BY <1>7, <1>8, <1>11, <3>1, <3>2
    <3>4. PICK v \in Nat : PadEnd(h) = v * Align
      BY <3>2, Multiple
    <3>5. PICK w \in Nat : k = w * Align
      BY <1>4, Multiple
    <3>6. v * Align < w * Align + Align
      BY <3>2, <3>3, <3>4, <3>5
    <3>7. v <= w
      <4> SUFFICES ASSUME v > w PROVE FALSE
        OBVIOUS
      <4>1. PICK d \in Nat : v = w + 1 + d
        <5>1. v - w - 1 \in Nat /\ v = w + 1 + (v - w - 1)
          OBVIOUS
        <5> QED
          BY <5>1
      <4>2. v * Align = w * Align + Align + d * Align /\ d * Align \in Nat /\ w * Align \in Nat
        BY <4>1
      <4> QED
        BY <3>6, <4>2
    <3>8. PICK d \in Nat : w = v + d
      <4>1. w - v \in Nat /\ w = v + (w - v)
        BY <3>7
      <4> QED
        BY <4>1
    <3>9. w * Align = v * Align + d * Align /\ d * Align \in Nat /\ v * Align \in Nat
      BY <3>8
    <3> QED
      BY <3>1, <3>4, <3>5, <3>9
  <2>4. f <= NRecords => k <= Offset[f]
    <3>1. f <= NRecords => f \in 1 .. NRecords /\ f >= f
      OBVIOUS
    <3>2. f <= NRecords => Offset[f] \in Nat
      BY <1>6, <3>1, RecordAt
    <3> QED
      BY <1>7, <3>1, <3>2
  <2>5. PadEnd(f - 1)' = PadEnd(f - 1) /\ Offset[f]' = Offset[f]
    BY <1>9
  <2>6. Between(f, k)'
    BY <1>1, <1>2, <1>4, <2>2, <2>3, <2>4, <2>5 DEF Between
  <2>7. Reading'
    BY <1>5, <1>10, <2>6, Reads
  <2> QED
    BY <2>2, <2>7
<1>12. CASE cut # {}
  <2>1. PICK c : c = CHOOSE j \in cut : TRUE
    OBVIOUS
  <2>2. c \in 1 .. NRecords /\ StartLsn(c) < start /\ LastLsn(c) > start
    BY <1>12, <2>1
  <2>3. Offset[c] < k /\ k < RecEnd(c)
    BY <1>8, <2>2
  <2>4. RemLen(start) = Cardinality({m \in DOMAIN wal : start < m /\ m <= LastLsn(c)})
    BY <1>12, <2>1 DEF RemLen
  <2>5. RemLen(start) = RecEnd(c) - k
    BY <1>1, <1>3, <2>2, <2>3, <2>4, RestBytes
  <2>6. RecEnd(c) \in Nat /\ PadEnd(c) \in Nat /\ RecEnd(c) <= PadEnd(c) /\ Offset[c] \in Nat
    BY <1>6, <2>2, RecordAt
  <2>7. skipLeft' = RecEnd(c) - k /\ skipLeft' \in Nat /\ skipLeft' > 0 /\ k + skipLeft' = RecEnd(c)
    BY <1>2, <2>3, <2>5, <2>6
  <2>8. c < f
    BY <1>7, <2>2, <2>3, <2>6
  <2>9. c = f - 1
    <3> SUFFICES ASSUME c # f - 1 PROVE FALSE
      OBVIOUS
    <3>1. PICK h \in 1 .. NRecords : h = f - 1 /\ c < h /\ ~(h >= f)
      BY <2>2, <2>8
    <3>2. Offset[h] \in Nat
      BY <1>6, RecordAt
    <3>3. Offset[h] < k
      BY <1>7, <3>1, <3>2
    <3>4. PadEnd(c) <= Offset[h]
      BY <1>6, <2>2, <3>1, OffsetOrder
    <3> QED
      BY <2>3, <2>6, <3>2, <3>3, <3>4
  <2>10. k + skipLeft' = RecEnd(f - 1)' /\ StartLsn(f - 1)' < start'
    BY <1>9, <2>2, <2>7, <2>9
  <2>11. Skipping(f, k)'
    BY <1>1, <1>2, <2>2, <2>7, <2>8, <2>10 DEF Skipping
  <2>12. Reading'
    BY <1>5, <1>10, <2>11, Reads
  <2> QED
    BY <2>7, <2>12
<1> QED
  BY <1>11, <1>12

\* A page header is stepped over.
LEMMA StripKeeps ==
    ASSUME Inv, StripHeader
    PROVE  Inv'
<1> USE Sizes
<1>1. Layout /\ Counters /\ IF started THEN Reading ELSE Fresh
  BY DEF Inv
<1>2. /\ pos \in Nat /\ avail \in Nat /\ need \in Nat /\ recLsn \in Nat
      /\ started \in BOOLEAN /\ failed \in BOOLEAN
  BY <1>1 DEF Counters
<1>3. Reading' /\ skipLeft' \in Nat
  BY <1>1, <1>2, StripLater, StripFirst
<1>4. /\ started' = TRUE /\ magic /\ avail >= HdrLen(pos)
      /\ pos' = pos + HdrLen(pos) /\ avail' = avail - HdrLen(pos)
      /\ UNCHANGED env /\ UNCHANGED <<need, recLsn, failed>>
  BY DEF StripHeader, AtHeader, HasMagic
<1>5. HdrLen(pos) \in Nat
  BY HdrLenIs
<1>6. Counters'
  BY <1>1, <1>2, <1>3, <1>4, <1>5, CountersKept
<1>7. Layout'
  BY <1>1, <1>4, Steady
<1> QED
  BY <1>3, <1>4, <1>6, <1>7 DEF Inv

\* At a record boundary the reader is in front of a record that exists.
LEMMA AtRecordIs ==
    ASSUME Inv, AtRecord
    PROVE  /\ started
           /\ \E i \in 1 .. NRecords : \E k \in Nat :
                 pos = Physical(k) /\ StandsAt(pos, k) /\ Between(i, k) /\ Handed(i)
<1> USE Sizes
<1>1. Layout /\ Counters /\ IF started THEN Reading ELSE Fresh
  BY DEF Inv
<1>2. /\ pos \in Nat /\ avail \in Nat /\ skipLeft \in Nat /\ need \in Nat
      /\ start % PageSize = 0 /\ pos + avail <= EndLsn
  BY <1>1 DEF Counters
<1>3. PageOff # 0 /\ skipLeft = 0 /\ need = 0 /\ avail >= LenField
  BY DEF AtRecord
<1>4. started /\ Reading
  BY <1>1, <1>2, <1>3 DEF Fresh, PageOff
<1>5. PICK i \in 1 .. NRecords + 1 : \E k \in 0 .. pos :
            /\ StandsAt(pos, k)
            /\ Skipping(i, k) \/ Assembling(i, k) \/ Between(i, k)
            /\ Handed(i)
  BY <1>4 DEF Reading
<1>6. PICK k \in 0 .. pos :
            /\ StandsAt(pos, k)
            /\ Skipping(i, k) \/ Assembling(i, k) \/ Between(i, k)
            /\ Handed(i)
  BY <1>5
<1>7. k \in Nat
  BY <1>2, <1>6
<1>8. pos = Physical(k)
  BY <1>3, <1>6 DEF StandsAt, PageOff
<1>9. Between(i, k)
  <2>1. CASE Assembling(i, k)
    <3>1. i \in 1 .. NRecords /\ need = TotLen(stream[i])
      BY <2>1 DEF Assembling
    <3>2. TotLen(stream[i]) \in Nat /\ RecHdr <= TotLen(stream[i])
      BY <1>1, <3>1, RecordAt DEF Layout
    <3> QED
      BY <1>3, <3>1, <3>2
  <2> QED
    BY <1>3, <1>6, <2>1 DEF Skipping
<1>10. i \in 1 .. NRecords
  <2> SUFFICES ASSUME i = NRecords + 1 PROVE FALSE
    OBVIOUS
  <2>1. i > 1 /\ i - 1 = NRecords
    OBVIOUS
  <2>2. PadEnd(NRecords) <= k
    BY <1>9, <2>1 DEF Between
  <2>3. RecEnd(NRecords) \in Nat /\ PadEnd(NRecords) \in Nat /\ RecEnd(NRecords) <= PadEnd(NRecords)
    BY <1>1, RecordAt DEF Layout
  <2>4. EndLsn \in Nat /\ EndLsn = Physical(RecEnd(NRecords) - 1) + 1 /\ RecEnd(NRecords) - 1 \in Nat
    BY <1>1, EndIs
  <2>5. PICK e \in Nat : e = RecEnd(NRecords) - 1 /\ e < k
    BY <1>7, <2>2, <2>3, <2>4
  <2>6. Physical(e) < Physical(k) /\ Physical(e) \in Nat
    BY <1>7, <2>5, PhysicalOrder
  <2> QED
    BY <1>2, <1>3, <1>8, <2>4, <2>5, <2>6
<1> QED
  BY <1>4, <1>6, <1>7, <1>8, <1>9, <1>10

\* What is there: the length field of the record, or fill.
LEMMA LengthIs ==
    ASSUME Layout, NEW i \in 1 .. NRecords, pos = Physical(Offset[i])
    PROVE  Byte(pos) = <<"len", TotLen(stream[i]), 1>> /\ LengthAt /\ ~FillAt
<1> USE Sizes
<1>1. stream[i] \in Shapes /\ TotLen(stream[i]) \in Nat /\ RecHdr <= TotLen(stream[i]) /\ Offset[i] \in Nat
  BY RecordAt DEF Layout
<1>2. 1 \in 1 .. TotLen(stream[i]) /\ Offset[i] + 1 - 1 = Offset[i] /\ 1 \in 1 .. LenField
  BY <1>1
<1>3. Byte(Physical(Offset[i] + 1 - 1)) = Encode(stream[i])[1]
  BY <1>2, ByteAt
<1>4. Encode(stream[i])[1] = <<"len", TotLen(stream[i]), 1>>
  BY <1>1, <1>2, EncodeIs
<1>5. Byte(pos) = <<"len", TotLen(stream[i]), 1>>
  BY <1>2, <1>3, <1>4
<1>6. LengthAt
  BY <1>5 DEF LengthAt
<1>7. ~FillAt
  <2> SUFFICES ASSUME FillAt PROVE FALSE
    OBVIOUS
  <2>1. pos \in Nat
    BY <1>1, PhysicalIs
  <2>2. 0 \in 0 .. LenField - 1 /\ pos + 0 = pos
    BY <2>1
  <2>3. Byte(pos + 0) = Zero
    BY <2>2 DEF FillAt
  <2> QED
    BY <1>5, <2>2, <2>3 DEF Zero
<1> QED
  BY <1>5, <1>6, <1>7

\* In front of a record there are whole units of fill.
LEMMA FillIs ==
    ASSUME Layout, pos \in Nat, pos % PageSize # 0,
           NEW i \in 1 .. NRecords, NEW k \in Nat, StandsAt(pos, k), Between(i, k), k < Offset[i]
    PROVE  FillAt /\ ~LengthAt
<1> USE Sizes
<1>1. /\ Spaced /\ k % Align = 0 /\ (i > 1 => PadEnd(i - 1) <= k) /\ Offset[i] \in Nat
  BY RecordAt DEF Layout, Between
<1>2. pos % Align = 0
  <2>1. PICK z \in Int : pos = k + z * Align
    BY StandsBelow
  <2>2. Pad(pos) = Aligned(k) - k
    BY <2>1, PadIs
  <2>3. Aligned(k) = k /\ Aligned(pos) \in Nat
    BY <1>1, AlignedAgain, AlignedIs
  <2>4. Aligned(pos) = pos
    BY <2>2, <2>3 DEF Pad
  <2> QED
    BY <2>4, AlignedAgain
<1>3. PageSize - (pos % PageSize) >= Align
  BY <1>2, RoomForUnit
<1>4. pos % PageSize \in Nat
  BY DivIs
<1>5. LenField <= PageSize - (pos % PageSize)
  BY <1>3, <1>4, UnitFits
<1>6. \A t \in Nat : t < LenField => Physical(k + t) = pos + t
  BY <1>5, Advance
<1>7. k + LenField <= Offset[i]
  BY <1>1, <1>5, FillEnds
<1>8. ASSUME NEW t \in 0 .. LenField - 1 PROVE Byte(pos + t) = Zero
  <2>1. t \in Nat /\ t < LenField
    OBVIOUS
  <2>2. PICK m \in Nat : m = k + t /\ m < Offset[i]
    BY <1>1, <1>7, <2>1
  <2>3. i > 1 => PadEnd(i - 1) <= m
    <3> SUFFICES ASSUME i > 1 PROVE PadEnd(i - 1) <= m
      OBVIOUS
    <3>1. PICK h \in 1 .. NRecords : h = i - 1
      OBVIOUS
    <3>2. PadEnd(h) \in Nat
      BY <1>1, RecordAt
    <3> QED
      BY <1>1, <2>1, <2>2, <3>1, <3>2
  <2>4. Gap(m)
    BY <1>1, <2>2, <2>3, GapIs
  <2>5. Byte(Physical(m)) = Zero
    BY <2>4, GapByte
  <2> QED
    BY <1>6, <2>1, <2>2, <2>5
<1>9. FillAt
  BY <1>8 DEF FillAt
<1>10. Byte(pos) = Zero
  <2>1. 0 \in 0 .. LenField - 1 /\ pos + 0 = pos
    OBVIOUS
  <2> QED
    BY <1>8, <2>1
<1> QED
  BY <1>9, <1>10 DEF LengthAt, Zero

\* A record is begun only where one begins.
LEMMA BeginKeeps ==
    ASSUME Inv, BeginRecord
    PROVE  Inv'
<1> USE Sizes
<1>1. Layout /\ Counters
  BY DEF Inv
<1>2. /\ pos \in Nat /\ avail \in Nat /\ skipLeft \in Nat
      /\ started \in BOOLEAN /\ failed \in BOOLEAN /\ (started => magic)
  BY <1>1 DEF Counters
<1>3. /\ AtRecord /\ LengthAt /\ recLsn' = pos /\ need' = Byte(pos)[2] /\ rec' = <<>>
      /\ UNCHANGED env /\ UNCHANGED <<pos, avail, skipLeft, started, out, failed>>
  BY DEF BeginRecord
<1>4. /\ started
      /\ \E i \in 1 .. NRecords : \E k \in Nat :
            pos = Physical(k) /\ StandsAt(pos, k) /\ Between(i, k) /\ Handed(i)
  BY <1>3, AtRecordIs
<1>5. PICK i \in 1 .. NRecords : \E k \in Nat :
            pos = Physical(k) /\ StandsAt(pos, k) /\ Between(i, k) /\ Handed(i)
  BY <1>4
<1>6. PICK k \in Nat : pos = Physical(k) /\ StandsAt(pos, k) /\ Between(i, k) /\ Handed(i)
  BY <1>5
<1>7. /\ Offset[i] \in Nat /\ TotLen(stream[i]) \in Nat /\ RecHdr <= TotLen(stream[i])
  BY <1>1, RecordAt DEF Layout
<1>8. k = Offset[i]
  <2>1. k <= Offset[i] /\ pos % PageSize # 0
    BY <1>3, <1>6 DEF Between, AtRecord, PageOff
  <2> QED
    BY <1>1, <1>2, <1>3, <1>6, <1>7, <2>1, FillIs
<1>9. Byte(pos) = <<"len", TotLen(stream[i]), 1>>
  BY <1>1, <1>6, <1>8, LengthIs
<1>10. need' = TotLen(stream[i]) /\ recLsn' = StartLsn(i)
  BY <1>1, <1>3, <1>6, <1>8, <1>9 DEF Layout
<1>11. stream' = stream /\ Offset' = Offset /\ StartLsn(i)' = StartLsn(i) /\ Layout'
  BY <1>1, <1>3, Steady
<1>12. Assembling(i, k)'
  <2>1. Len(rec') = 0 /\ skipLeft' = 0
    BY <1>3 DEF AtRecord
  <2>2. rec' = [n \in 1 .. Len(rec') |-> Encode(stream'[i])[n]]
    BY <1>3, <2>1
  <2>3. k = Offset'[i] + Len(rec') /\ Len(rec') \in 0 .. need' - 1 /\ need' = TotLen(stream'[i])
    BY <1>7, <1>8, <1>10, <1>11, <2>1
  <2> QED
    BY <1>10, <1>11, <2>1, <2>2, <2>3 DEF Assembling
<1>13. i \in 1 .. NRecords + 1
  OBVIOUS
<1>14. Handed(i)'
  BY <1>1, <1>3, <1>6, <1>13, HandedSame
<1>15. pos' \in Nat /\ StandsAt(pos', k)
  BY <1>2, <1>3, <1>6
<1>16. Reading'
  BY <1>12, <1>13, <1>14, <1>15, Reads
<1>17. Counters'
  <2>1. pos' = pos + 0 /\ avail' = avail - 0 /\ 0 <= avail
    BY <1>2, <1>3
  <2>2. recLsn' \in Nat /\ need' \in Nat /\ skipLeft' \in Nat
    BY <1>2, <1>3, <1>7, <1>10
  <2> QED
    BY <1>1, <1>2, <1>3, <2>1, <2>2, CountersKept
<1> QED
  BY <1>3, <1>4, <1>11, <1>16, <1>17 DEF Inv

\* Positions and payload offsets are aligned together.
LEMMA AlignedTogether ==
    ASSUME NEW p \in Nat, NEW k \in Nat, StandsAt(p, k), p % Align = 0
    PROVE  k % Align = 0
<1> USE Sizes
<1>1. PICK z \in Int : p = k + z * Align
  BY StandsBelow
<1>2. Pad(p) = Aligned(k) - k /\ Aligned(k) \in Nat
  BY <1>1, PadIs, AlignedIs
<1>3. Aligned(p) = p
  BY AlignedAgain
<1>4. Aligned(k) = k
  BY <1>2, <1>3 DEF Pad
<1> QED
  BY <1>4, AlignedAgain

\* Fill is left at a page boundary or at a unit, never inside a record.
LEMMA SkipFillKeeps ==
    ASSUME Inv, SkipFill
    PROVE  Inv'
<1> USE Sizes
<1>1. Layout /\ Counters /\ Spaced
  BY DEF Inv, Layout
<1>2. /\ pos \in Nat /\ avail \in Nat /\ skipLeft \in Nat /\ need \in Nat /\ recLsn \in Nat
      /\ started \in BOOLEAN /\ failed \in BOOLEAN /\ (started => magic) /\ MayEnd(pos + avail)
  BY <1>1 DEF Counters
<1>3. PICK take : take = Least(PageRem, avail)
  OBVIOUS
<1>4. /\ AtRecord /\ FillAt /\ pos' = pos + take /\ avail' = avail - take
      /\ UNCHANGED env /\ UNCHANGED <<skipLeft, started, rec, recLsn, need, out, failed>>
  BY <1>3 DEF SkipFill
<1>5. /\ pos % PageSize \in Nat /\ pos % PageSize # 0 /\ pos % PageSize < PageSize
      /\ PageRem = PageSize - (pos % PageSize) /\ PageRem \in Nat
  BY <1>2, <1>4, DivIs DEF AtRecord, PageOff, PageRem
<1>6. take \in Nat /\ take <= PageRem /\ take <= avail /\ take \in {PageRem, avail}
  BY <1>2, <1>3, <1>5, Taken
<1>7. /\ started
      /\ \E i \in 1 .. NRecords : \E k \in Nat :
            pos = Physical(k) /\ StandsAt(pos, k) /\ Between(i, k) /\ Handed(i)
  BY <1>4, AtRecordIs
<1>8. PICK i \in 1 .. NRecords : \E k \in Nat :
            pos = Physical(k) /\ StandsAt(pos, k) /\ Between(i, k) /\ Handed(i)
  BY <1>7
<1>9. PICK k \in Nat : pos = Physical(k) /\ StandsAt(pos, k) /\ Between(i, k) /\ Handed(i)
  BY <1>8
<1>10. /\ Offset[i] \in Nat /\ Offset[i] % Align = 0 /\ k <= Offset[i]
       /\ (i > 1 => PadEnd(i - 1) <= k)
  BY <1>1, <1>9, RecordAt DEF Between
<1>11. k < Offset[i]
  BY <1>1, <1>4, <1>9, <1>10, LengthIs
<1>12. k + take <= Offset[i] /\ k + take \in Nat /\ pos + take \in Nat
  BY <1>1, <1>2, <1>5, <1>6, <1>9, <1>10, <1>11, FillEnds
<1>13. StandsAt(pos + take, k + take)
  BY <1>2, <1>5, <1>6, <1>9, Advance
<1>14. ASSUME NEW m \in Nat, k <= m, m < Offset[i] PROVE Physical(m) \notin DOMAIN wal
  <2>1. i > 1 => PadEnd(i - 1) <= m
    <3> SUFFICES ASSUME i > 1 PROVE PadEnd(i - 1) <= m
      OBVIOUS
    <3>1. PICK h \in 1 .. NRecords : h = i - 1
      OBVIOUS
    <3>2. PadEnd(h) \in Nat
      BY <1>1, RecordAt
    <3> QED
      BY <1>10, <1>14, <3>1, <3>2
  <2>2. Gap(m)
    BY <1>1, <1>14, <2>1, GapIs
  <2> QED
    BY <1>1, <2>2, GapByte
<1>15. (k + take) % Align = 0
  <2>1. CASE (pos + take) % Align = 0
    BY <1>12, <1>13, <2>1, AlignedTogether
  <2>2. CASE (pos + take) % PageSize = 0
    BY <1>12, <2>1, <2>2, PageAligned
  <2>3. CASE k + take = Offset[i]
    BY <1>10, <2>3
  <2>4. CASE (pos + take) % PageSize # 0 /\ (pos + take) % Align # 0 /\ k + take < Offset[i]
    <3>1. take # PageRem
      <4> SUFFICES ASSUME take = PageRem PROVE FALSE
        OBVIOUS
      <4>1. PICK n, c \in Nat : c < PageSize /\ c = pos % PageSize /\ pos = n * PageSize + c
        BY <1>2, Split
      <4>2. PICK d \in Nat : d = n + 1
        OBVIOUS
      <4>3. d * PageSize = n * PageSize + PageSize /\ n * PageSize \in Nat
        BY <4>2
      <4>4. pos + take = d * PageSize
        BY <1>5, <4>1, <4>3
      <4>5. (d * PageSize) % PageSize = 0
        BY MultipleIs
      <4> QED
        BY <2>4, <4>4, <4>5
    <3>2. take = avail /\ take > 0
      BY <1>2, <1>4, <1>6, <3>1 DEF AtRecord
    <3>3. {pos + take - 1, pos + take} \cap DOMAIN wal # {}
      BY <1>2, <2>4, <3>2 DEF MayEnd
    <3>4. PICK b \in Nat : b = take - 1 /\ b < take
      BY <1>6, <3>2
    <3>5. Physical(k + b) = pos + b
      <4>1. \A t \in Nat : t < take => Physical(k + t) = pos + t
        BY <1>2, <1>5, <1>6, <1>9, Advance
      <4> QED
        BY <3>4, <4>1
    <3>6. Physical(k + take) = pos + take
      BY <1>13, <2>4 DEF StandsAt
    <3>7. k + b \in Nat /\ k + b < Offset[i] /\ k <= k + b /\ pos + b = pos + take - 1 /\ k <= k + take
      BY <1>2, <1>6, <1>10, <2>4, <3>4
    <3>8. Physical(k + b) \notin DOMAIN wal
      BY <1>14, <3>7
    <3>9. Physical(k + take) \notin DOMAIN wal
      BY <1>12, <1>14, <2>4, <3>7
    <3> QED
      BY <3>3, <3>5, <3>6, <3>7, <3>8, <3>9
  <2> QED
    BY <1>10, <1>12, <2>1, <2>2, <2>3, <2>4
<1>16. PICK m \in Nat : m = k + take
  BY <1>12
<1>17. Between(i, m)'
  <2>1. PadEnd(i - 1)' = PadEnd(i - 1) /\ Offset[i]' = Offset[i]
    BY <1>1, <1>4, Steady
  <2>2. i > 1 => PadEnd(i - 1) <= m
    <3> SUFFICES ASSUME i > 1 PROVE PadEnd(i - 1) <= m
      OBVIOUS
    <3>1. PICK h \in 1 .. NRecords : h = i - 1
      OBVIOUS
    <3>2. PadEnd(h) \in Nat
      BY <1>1, RecordAt
    <3> QED
      BY <1>6, <1>10, <1>16, <3>1, <3>2
  <2>3. skipLeft' = 0 /\ need' = 0 /\ rec' = <<>> /\ m % Align = 0 /\ m <= Offset[i]
    BY <1>4, <1>9, <1>12, <1>15, <1>16 DEF Between
  <2> QED
    BY <2>1, <2>2, <2>3 DEF Between
<1>18. i \in 1 .. NRecords + 1
  OBVIOUS
<1>19. Handed(i)'
  BY <1>1, <1>4, <1>9, <1>18, HandedSame
<1>20. pos' \in Nat /\ StandsAt(pos', m)
  BY <1>4, <1>12, <1>13, <1>16
<1>21. Reading'
  BY <1>17, <1>18, <1>19, <1>20, Reads
<1>22. Counters'
  BY <1>1, <1>2, <1>4, <1>6, CountersKept
<1>23. Layout'
  BY <1>1, <1>4, Steady
<1> QED
  BY <1>4, <1>7, <1>21, <1>22, <1>23 DEF Inv

\* Adding the next bytes of a record to those read.
LEMMA Prefix ==
    ASSUME NEW E, NEW a \in Nat, NEW n \in Nat, NEW r, NEW s,
           r = [m \in 1 .. a |-> E[m]], s = [m \in 1 .. n |-> E[a + m]]
    PROVE  /\ Len(r) = a /\ Len(s) = n
           /\ r \o s = [m \in 1 .. a + n |-> E[m]] /\ Len(r \o s) = a + n
<1> DEFINE T == {E[m] : m \in 1 .. a + n}
<1>1. r \in Seq(T) /\ Len(r) = a
  <2>1. \A m \in 1 .. a : E[m] \in T
    <3>1. \A m \in 1 .. a : m \in 1 .. a + n
      OBVIOUS
    <3> QED
      BY <3>1
  <2> HIDE DEF T
  <2> QED
    BY <2>1
<1>2. s \in Seq(T) /\ Len(s) = n
  <2>1. \A m \in 1 .. n : E[a + m] \in T
    <3>1. \A m \in 1 .. n : a + m \in 1 .. a + n
      OBVIOUS
    <3> QED
      BY <3>1
  <2> HIDE DEF T
  <2> QED
    BY <2>1
<1> HIDE DEF T
<1>3. r \o s \in Seq(T) /\ Len(r \o s) = a + n
  BY <1>1, <1>2
<1>4. \A m \in 1 .. a + n : (r \o s)[m] = IF m <= a THEN r[m] ELSE s[m - a]
  BY <1>1, <1>2
<1>5. ASSUME NEW m \in 1 .. a + n PROVE (r \o s)[m] = E[m]
  <2>1. CASE m <= a
    <3>1. m \in 1 .. a
      BY <2>1
    <3> QED
      BY <1>4, <2>1, <3>1
  <2>2. CASE ~(m <= a)
    <3>1. m - a \in 1 .. n /\ a + (m - a) = m
      BY <2>2
    <3>2. s[m - a] = E[a + (m - a)]
      BY <3>1
    <3> QED
      BY <1>4, <2>2, <3>1, <3>2
  <2> QED
    BY <2>1, <2>2
<1>6. r \o s = [m \in 1 .. a + n |-> (r \o s)[m]]
  <2>1. PICK u : u = r \o s
    OBVIOUS
  <2>2. u \in Seq(T) /\ Len(u) = a + n
    BY <1>3, <2>1
  <2>3. u \in [1 .. a + n -> T]
    BY <2>2
  <2>4. u = [m \in 1 .. a + n |-> u[m]]
    BY <2>3, Zenon
  <2> QED
    BY <2>1, <2>4
<1>7. r \o s = [m \in 1 .. a + n |-> E[m]]
  <2> DEFINE u == r \o s
  <2>1. u = [m \in 1 .. a + n |-> u[m]] /\ \A m \in 1 .. a + n : u[m] = E[m]
    BY <1>5, <1>6
  <2> HIDE DEF u
  <2>2. u = [m \in 1 .. a + n |-> E[m]]
    BY <2>1
  <2> QED
    BY <2>2 DEF u
<1> QED
  BY <1>1, <1>2, <1>3, <1>7

\* The same for what is handed over, one record at a time.
LEMMA Appended ==
    ASSUME NEW u, NEW n \in Nat, NEW o, o = [m \in 1 .. n |-> u[m]]
    PROVE  Append(o, u[n + 1]) = [m \in 1 .. n + 1 |-> u[m]]
<1> DEFINE T == {u[m] : m \in 1 .. n + 1}
<1>1. o \in Seq(T) /\ Len(o) = n
  <2>1. \A m \in 1 .. n : u[m] \in T
    <3>1. \A m \in 1 .. n : m \in 1 .. n + 1
      OBVIOUS
    <3> QED
      BY <3>1
  <2> HIDE DEF T
  <2> QED
    BY <2>1
<1>2. PICK x \in T : x = u[n + 1]
  <2>1. n + 1 \in 1 .. n + 1
    OBVIOUS
  <2> QED
    BY <2>1
<1> HIDE DEF T
<1>3. PICK w : w = Append(o, x)
  OBVIOUS
<1>4. w \in Seq(T) /\ Len(w) = n + 1
  BY <1>1, <1>2, <1>3
<1>5. w \in [1 .. n + 1 -> T]
  BY <1>4
<1>6. w[n + 1] = x
  BY <1>1, <1>2, <1>3
<1>7. \A m \in 1 .. n : w[m] = o[m]
  BY <1>1, <1>2, <1>3
<1>8. \A m \in 1 .. n + 1 : w[m] = u[m]
  <2> SUFFICES ASSUME NEW m \in 1 .. n + 1 PROVE w[m] = u[m]
    OBVIOUS
  <2>1. CASE m = n + 1
    BY <1>2, <1>6, <2>1
  <2>2. CASE m # n + 1
    <3>1. m \in 1 .. n
      BY <2>2
    <3> QED
      BY <1>7, <3>1
  <2> QED
    BY <2>1, <2>2
<1>9. w = [m \in 1 .. n + 1 |-> u[m]]
  BY <1>5, <1>8
<1> QED
  BY <1>2, <1>3, <1>9

\* The bytes at hand are the next ones of the record.
LEMMA NextBytes ==
    ASSUME Layout, pos \in Nat, pos % PageSize # 0, NEW i \in 1 .. NRecords, NEW k \in Nat,
           StandsAt(pos, k), NEW a \in Nat, k = Offset[i] + a, NEW n \in Nat,
           a + n <= TotLen(stream[i]), n <= PageSize - (pos % PageSize)
    PROVE  [m \in 1 .. n |-> Byte(pos + m - 1)] = [m \in 1 .. n |-> Encode(stream[i])[a + m]]
<1> USE Sizes
<1>1. Offset[i] \in Nat /\ TotLen(stream[i]) \in Nat
  BY RecordAt DEF Layout
<1>2. \A t \in Nat : t < n => Physical(k + t) = pos + t
  <2>1. ASSUME NEW j \in Nat, StandsAt(pos, j)
        PROVE  \A t \in Nat : t < n => Physical(j + t) = pos + t
    BY <2>1, Advance
  <2> QED
    BY <2>1, Zenon
<1>3. ASSUME NEW m \in 1 .. n PROVE Byte(pos + m - 1) = Encode(stream[i])[a + m]
  <2>1. PICK t \in Nat : t = m - 1 /\ t < n /\ pos + m - 1 = pos + t
    <3>1. m - 1 \in Nat /\ m - 1 < n /\ pos + m - 1 = pos + (m - 1)
      OBVIOUS
    <3> QED
      BY <3>1
  <2>2. a + m \in 1 .. TotLen(stream[i]) /\ Offset[i] + (a + m) - 1 = k + t
    BY <1>1, <2>1
  <2>3. Byte(Physical(Offset[i] + (a + m) - 1)) = Encode(stream[i])[a + m]
    BY <2>2, ByteAt
  <2> QED
    BY <1>2, <2>1, <2>2, <2>3
<1> QED
  BY <1>3

\* Handing over record i.
LEMMA HandedNext ==
    ASSUME Layout, UNCHANGED env, NEW i \in 1 .. NRecords, Handed(i),
           out' = Append(out, [lsn |-> StartLsn(i), bytes |-> Encode(stream[i])])
    PROVE  Handed(i + 1)'
<1> USE Sizes
<1>1. PICK f \in 1 .. i :
        /\ \A j \in 1 .. NRecords : StartLsn(j) >= start <=> j >= f
        /\ out = [n \in 1 .. i - f |->
                    [lsn |-> StartLsn(f + n - 1), bytes |-> Encode(stream[f + n - 1])]]
  BY DEF Handed
<1> DEFINE r(j) == [lsn |-> StartLsn(j), bytes |-> Encode(stream[j])]
           u == [n \in 1 .. (i + 1) - f |-> r(f + n - 1)]
<1>2. PICK n \in Nat : n = i - f /\ (i + 1) - f = n + 1 /\ f + (n + 1) - 1 = i
  <2>1. i - f \in Nat /\ (i + 1) - f = (i - f) + 1 /\ f + ((i - f) + 1) - 1 = i
    OBVIOUS
  <2> QED
    BY <2>1
<1> HIDE DEF r
<1>3. out = [m \in 1 .. n |-> u[m]]
  <2>1. out = [m \in 1 .. n |-> r(f + m - 1)]
    BY <1>1, <1>2 DEF r
  <2>2. \A m \in 1 .. n : m \in 1 .. (i + 1) - f /\ u[m] = r(f + m - 1)
    BY <1>2
  <2> QED
    BY <2>1, <2>2
<1>4. u[n + 1] = r(i)
  <2>1. n + 1 \in 1 .. (i + 1) - f
    BY <1>2
  <2>2. u[n + 1] = r(f + (n + 1) - 1)
    BY <2>1
  <2> QED
    BY <1>2, <2>2
<1>5. u = [m \in 1 .. n + 1 |-> u[m]]
  BY <1>2
<1> HIDE DEF u
<1>6. out' = u
  <2>1. Append(out, u[n + 1]) = [m \in 1 .. n + 1 |-> u[m]]
    BY <1>3, Appended
  <2> QED
    BY <1>4, <1>5, <2>1 DEF r
<1>7. stream' = stream /\ start' = start /\ \A j : StartLsn(j)' = StartLsn(j)
  BY Steady
<1>8. out' = [m \in 1 .. (i + 1) - f |->
                [lsn |-> StartLsn(f + m - 1)', bytes |-> Encode(stream'[f + m - 1])]]
  BY <1>6, <1>7 DEF u, r
<1>9. \A j \in 1 .. NRecords : StartLsn(j)' >= start' <=> j >= f
  BY <1>1, <1>7
<1>10. f \in 1 .. i + 1
  OBVIOUS
<1> QED
  BY <1>8, <1>9, <1>10 DEF Handed

\* Assembling takes the bytes of one record, over pages, up to its last one.
LEMMA AccumulateKeeps ==
    ASSUME Inv, Accumulate
    PROVE  Inv'
<1> USE Sizes
<1>1. Layout /\ Counters /\ Spaced /\ IF started THEN Reading ELSE Fresh
  BY DEF Inv, Layout
<1>2. /\ pos \in Nat /\ avail \in Nat /\ skipLeft \in Nat /\ need \in Nat /\ recLsn \in Nat
      /\ started \in BOOLEAN /\ failed \in BOOLEAN /\ (started => magic)
  BY <1>1 DEF Counters
<1>3. PICK take : take = Least(need - Len(rec), Least(PageRem, avail))
  OBVIOUS
<1>4. PICK more : more = rec \o [n \in 1 .. take |-> Byte(pos + n - 1)]
  OBVIOUS
<1>5. /\ PageOff # 0 /\ avail > 0 /\ skipLeft = 0 /\ need > 0
      /\ pos' = pos + take /\ avail' = avail - take
      /\ rec' = IF Len(more) = need THEN <<>> ELSE more
      /\ need' = IF Len(more) = need THEN 0 ELSE need
      /\ skipLeft' = IF Len(more) = need THEN Pad(pos + take) ELSE skipLeft
      /\ out' = IF Len(more) = need THEN Append(out, [lsn |-> recLsn, bytes |-> more]) ELSE out
      /\ UNCHANGED env /\ UNCHANGED <<started, recLsn, failed>>
  BY <1>3, <1>4 DEF Accumulate, InRecord
<1>6. /\ pos % PageSize \in Nat /\ pos % PageSize # 0 /\ pos % PageSize < PageSize
      /\ PageRem = PageSize - (pos % PageSize) /\ PageRem \in Nat
  BY <1>2, <1>5, DivIs DEF PageOff, PageRem
<1>7. started /\ Reading
  BY <1>1, <1>5 DEF Fresh
<1>8. PICK i \in 1 .. NRecords + 1 : \E k \in 0 .. pos :
            /\ StandsAt(pos, k)
            /\ Skipping(i, k) \/ Assembling(i, k) \/ Between(i, k)
            /\ Handed(i)
  BY <1>7 DEF Reading
<1>9. PICK k \in 0 .. pos :
            /\ StandsAt(pos, k)
            /\ Skipping(i, k) \/ Assembling(i, k) \/ Between(i, k)
            /\ Handed(i)
  BY <1>8
<1>10. k \in Nat /\ Assembling(i, k)
  BY <1>2, <1>5, <1>9 DEF Skipping, Between
<1>11. /\ i \in 1 .. NRecords /\ recLsn = StartLsn(i) /\ need = TotLen(stream[i])
       /\ Len(rec) \in 0 .. need - 1 /\ k = Offset[i] + Len(rec)
       /\ rec = [n \in 1 .. Len(rec) |-> Encode(stream[i])[n]]
  BY <1>10 DEF Assembling
<1>12. PICK a \in Nat : a = Len(rec)
  <2>1. Len(rec) \in 0 .. need - 1
    BY <1>10 DEF Assembling
  <2>2. Len(rec) \in Nat
    BY <1>2, <2>1
  <2> QED
    BY <2>2, Zenon
<1>13. /\ Offset[i] \in Nat /\ RecEnd(i) = Offset[i] + need /\ stream[i] \in Shapes
  BY <1>1, <1>11, RecordAt
<1>14. take \in Nat /\ take <= need - a /\ take <= PageRem /\ take <= avail
  <2>1. PICK m : m = Least(PageRem, avail)
    OBVIOUS
  <2>2. m \in Nat /\ m <= PageRem /\ m <= avail
    BY <1>2, <1>6, <2>1, Taken
  <2>3. PICK d \in Nat : d = need - a
    BY <1>2, <1>11, <1>12
  <2>4. take \in Nat /\ take <= d /\ take <= m
    BY <1>3, <1>12, <2>1, <2>2, <2>3, Taken
  <2> QED
    BY <1>2, <1>6, <2>2, <2>3, <2>4
<1>15. /\ Len(more) = a + take
       /\ more = [n \in 1 .. a + take |-> Encode(stream[i])[n]]
  <2>1. PICK s : s = [n \in 1 .. take |-> Byte(pos + n - 1)]
    OBVIOUS
  <2>2. s = [n \in 1 .. take |-> Encode(stream[i])[a + n]]
    <3>1. k = Offset[i] + a /\ a + take <= TotLen(stream[i]) /\ take <= PageSize - (pos % PageSize)
      BY <1>2, <1>6, <1>11, <1>12, <1>14
    <3>2. i \in 1 .. NRecords /\ StandsAt(pos, k)
      BY <1>9, <1>11
    <3>3. [n \in 1 .. take |-> Byte(pos + n - 1)] = [n \in 1 .. take |-> Encode(stream[i])[a + n]]
      BY <1>1, <1>2, <1>6, <1>10, <1>14, <3>1, <3>2, NextBytes, SMTT(30)
    <3> QED
      BY <2>1, <3>3
  <2>3. rec = [n \in 1 .. a |-> Encode(stream[i])[n]]
    BY <1>11, <1>12
  <2>4. Len(rec \o s) = a + take /\ rec \o s = [n \in 1 .. a + take |-> Encode(stream[i])[n]]
    BY <1>14, <2>2, <2>3, Prefix
  <2> QED
    BY <1>4, <2>1, <2>4
<1>16. PICK m \in Nat : m = k + take
  BY <1>10, <1>14
<1>17. pos' \in Nat /\ StandsAt(pos', m)
  <2>1. StandsAt(pos + take, k + take)
    BY <1>2, <1>6, <1>9, <1>10, <1>14, Advance
  <2> QED
    BY <1>2, <1>5, <1>14, <1>16, <2>1
<1>18. Layout' /\ stream' = stream /\ Offset' = Offset /\ StartLsn(i)' = StartLsn(i)
  BY <1>1, <1>5, Steady
<1>19. Reading' /\ skipLeft' \in Nat /\ need' \in Nat
  <2>1. CASE Len(more) = need
    <3>1. m = RecEnd(i)
      <4>1. k = Offset[i] + a /\ a + take = need
        BY <1>11, <1>12, <1>15, <2>1
      <4> QED
        BY <1>2, <1>13, <1>14, <1>16, <4>1
    <3>2. skipLeft' = Pad(pos') /\ need' = 0 /\ rec' = <<>>
      BY <1>5, <2>1
    <3>3. skipLeft' \in Nat /\ (Skipping(i + 1, m) \/ Assembling(i + 1, m) \/ Between(i + 1, m))'
      BY <1>1, <1>5, <1>11, <1>17, <3>1, <3>2, EndsRecord
    <3>4. more = Encode(stream[i])
      <4>1. Encode(stream[i]) = [n \in 1 .. TotLen(stream[i]) |-> Encode(stream[i])[n]]
        BY <1>13, EncodeIs
      <4>2. a + take = TotLen(stream[i])
        BY <1>11, <1>15, <2>1
      <4> QED
        BY <1>15, <4>1, <4>2
    <3>5. out' = Append(out, [lsn |-> StartLsn(i), bytes |-> Encode(stream[i])])
      BY <1>5, <1>11, <2>1, <3>4
    <3>6. Handed(i + 1)'
      BY <1>1, <1>5, <1>9, <1>11, <3>5, HandedNext
    <3>7. i + 1 \in 1 .. NRecords + 1
      BY <1>11
    <3>8. Reading'
      BY <1>17, <3>3, <3>6, <3>7, Reads
    <3> QED
      BY <3>2, <3>3, <3>8
  <2>2. CASE Len(more) # need
    <3>1. rec' = more /\ need' = need /\ skipLeft' = 0 /\ out' = out /\ recLsn' = recLsn
      BY <1>5, <2>2
    <3>2. Len(rec') = a + take /\ Len(rec') \in 0 .. need' - 1
      BY <1>2, <1>14, <1>15, <2>2, <3>1
    <3>3. rec' = [n \in 1 .. Len(rec') |-> Encode(stream'[i])[n]]
      BY <1>15, <1>18, <3>1
    <3>4. m = Offset'[i] + Len(rec')
      <4>1. k = Offset[i] + a /\ Offset'[i] = Offset[i]
        BY <1>11, <1>12, <1>18
      <4> QED
        BY <1>13, <1>14, <1>16, <3>2, <4>1
    <3>5. Assembling(i, m)'
      BY <1>11, <1>18, <3>1, <3>2, <3>3, <3>4 DEF Assembling
    <3>6. Handed(i)'
      BY <1>1, <1>5, <1>9, <3>1, HandedSame
    <3>7. Reading'
      BY <1>17, <3>5, <3>6, Reads
    <3> QED
      BY <1>2, <1>5, <3>1, <3>7
  <2> QED
    BY <2>1, <2>2
<1>20. Counters'
  BY <1>1, <1>2, <1>5, <1>14, <1>19, CountersKept
<1> QED
  BY <1>5, <1>7, <1>18, <1>19, <1>20 DEF Inv

\* Every step of the reader keeps the invariant.
LEMMA InvNext == Inv /\ [Next]_vars => Inv'
<1> SUFFICES ASSUME Inv, [Next]_vars PROVE Inv'
  OBVIOUS
<1>1. ASSUME NEW n \in 1 .. MaxChunk, Feed(n) PROVE Inv'
  BY <1>1, FeedKeeps
<1>2. ASSUME NEW l \in {start, start + PageSize}, FeedGap(l) PROVE Inv'
  <2>1. UNCHANGED <<env, reader, out>> /\ failed' = TRUE
    BY <1>2 DEF FeedGap
  <2> QED
    BY <2>1, RefusalKeeps
<1>3. CASE StripHeader
  BY <1>3, StripKeeps
<1>4. CASE RefuseMagic
  <2>1. UNCHANGED <<env, reader, out>> /\ failed' = TRUE
    BY <1>4 DEF RefuseMagic
  <2> QED
    BY <2>1, RefusalKeeps
<1>5. CASE Discard
  BY <1>5, DiscardKeeps
<1>6. CASE Accumulate
  BY <1>6, AccumulateKeeps
<1>7. CASE SkipFill
  BY <1>7, SkipFillKeeps
<1>8. CASE BeginRecord
  BY <1>8, BeginKeeps
<1>9. CASE UNCHANGED vars
  <2>1. UNCHANGED <<env, reader, out>> /\ failed' = failed
    BY <1>9 DEF vars
  <2>2. failed \in BOOLEAN
    BY DEF Inv, Counters
  <2> QED
    BY <2>1, <2>2, RefusalKeeps
<1> QED
  BY <1>1, <1>2, <1>3, <1>4, <1>5, <1>6, <1>7, <1>8, <1>9 DEF Next

\* The invariant of the reader.
LEMMA InvHolds == Spec => []Inv
<1> QED
  BY InvInit, InvNext, PTL DEF Spec

\* The reader's counters stay within their bounds: at most one page and one
\* chunk are held (feed), and never more of a record than it announced.
THEOREM TypeCorrect == Spec => []TypeOK
<1>1. ASSUME Inv PROVE TypeOK
  <2>1. /\ Layout /\ pos \in Nat /\ avail \in Nat /\ avail <= PageSize + MaxChunk
        /\ skipLeft \in Nat /\ need \in Nat /\ recLsn \in Nat
    BY <1>1 DEF Inv, Counters
  <2>2. started \in BOOLEAN /\ failed \in BOOLEAN
    BY <1>1 DEF Inv, Counters
  <2>3. Len(rec) <= need
    <3>1. CASE rec = <<>>
      BY <2>1, <3>1
    <3>2. CASE Len(rec) \in 0 .. need - 1
      BY <2>1, <3>2
    <3> QED
      BY <1>1, <3>1, <3>2 DEF Inv, Reading, Fresh, Skipping, Assembling, Between
  <2>4. avail \in 0 .. PageSize + MaxChunk
    BY <2>1, Sizes
  <2> QED
    BY <2>1, <2>2, <2>3, <2>4, Zenon DEF TypeOK
<1> QED
  BY <1>1, InvHolds, PTL

\* With nothing to skip and no record begun, the bytes at the reader's
\* position are the length field of a record or fill (feed), for every page,
\* segment, header and alignment size and every stream of records.
THEOREM InStepHolds == Spec => []InStep
<1>1. ASSUME Inv PROVE InStep
  <2> SUFFICES ASSUME AtRecord PROVE LengthAt \/ FillAt
    BY DEF InStep
  <2>1. PICK i \in 1 .. NRecords : \E k \in Nat :
            pos = Physical(k) /\ StandsAt(pos, k) /\ Between(i, k) /\ Handed(i)
    BY <1>1, AtRecordIs
  <2>2. PICK k \in Nat : pos = Physical(k) /\ StandsAt(pos, k) /\ Between(i, k) /\ Handed(i)
    BY <2>1
  <2>3. Layout /\ pos \in Nat /\ pos % PageSize # 0
    BY <1>1 DEF Inv, Counters, AtRecord, PageOff
  <2>4. k <= Offset[i] /\ Offset[i] \in Nat
    BY <2>2, <2>3, RecordAt DEF Between, Layout
  <2>5. CASE k = Offset[i]
    BY <2>2, <2>3, <2>5, LengthIs
  <2>6. CASE k < Offset[i]
    BY <2>2, <2>3, <2>6, FillIs
  <2> QED
    BY <2>4, <2>5, <2>6
<1> QED
  BY <1>1, InvHolds, PTL

\* The records due are those handed over, once feed() has returned.
LEMMA DueIs ==
    ASSUME Inv, Idle, started, NEW i \in 1 .. NRecords + 1, NEW k \in Nat, StandsAt(pos, k),
           Skipping(i, k) \/ Assembling(i, k) \/ Between(i, k),
           NEW f \in 1 .. i, \A j \in 1 .. NRecords : StartLsn(j) >= start <=> j >= f
    PROVE  First = f .. NRecords /\ Due = f .. i - 1
<1> USE Sizes
<1>1. Layout /\ Counters /\ Spaced
  BY DEF Inv, Layout
<1>2. pos \in Nat /\ avail \in Nat /\ skipLeft \in Nat /\ need \in Nat /\ start \in Nat
  BY <1>1 DEF Counters
<1>3. First = f .. NRecords
  BY DEF First
<1>4. /\ PageOff = 0 => avail < HdrLen(pos)
      /\ PageOff # 0 => avail < LenField
      /\ PageOff # 0 /\ (skipLeft # 0 \/ need # 0) => avail = 0
  BY <1>1, IdleRest
<1>5. ASSUME NEW j \in 1 .. NRecords, j >= f, j < i PROVE LastLsn(j) < pos + avail
  <2>1. ~(StartLsn(j) < start)
    <3>1. StartLsn(j) >= start /\ Offset[j] \in Nat /\ StartLsn(j) = Physical(Offset[j])
      BY <1>1, <1>5, RecordAt DEF Layout
    <3>2. StartLsn(j) \in Nat
      BY <3>1, PhysicalIs
    <3> QED
      BY <1>2, <3>1, <3>2
  <2>2. RecEnd(j) <= k
    BY <1>1, <1>2, <1>5, <2>1, Behind
  <2>3. RecEnd(j) \in Nat /\ Offset[j] \in Nat /\ Offset[j] + RecHdr <= RecEnd(j)
    BY <1>1, RecordAt
  <2>4. PICK e \in Nat : e = RecEnd(j) - 1 /\ e < k
    BY <2>2, <2>3
  <2>5. Physical(e) < pos /\ Physical(e) \in Nat
    BY <1>2, <2>4, StandsBetween, PhysicalIs
  <2>6. LastLsn(j) = Physical(e)
    BY <1>1, <2>4 DEF Layout
  <2> QED
    BY <1>2, <2>5, <2>6
<1>6. ASSUME NEW j \in 1 .. NRecords, j >= i PROVE ~(LastLsn(j) < pos + avail)
  <2>1. k < RecEnd(j)
    BY <1>1, <1>2, <1>6, Ahead
  <2>2. RecEnd(j) \in Nat /\ Offset[j] \in Nat /\ Offset[j] + RecHdr <= RecEnd(j)
    BY <1>1, RecordAt
  <2>3. PICK e \in Nat : e = RecEnd(j) - 1 /\ k <= e
    BY <2>1, <2>2
  <2>4. LastLsn(j) = Physical(e) /\ Physical(e) \in Nat
    BY <1>1, <2>3, PhysicalIs DEF Layout
  <2>5. pos <= Physical(e) /\ (pos % PageSize = 0 => pos + HdrLen(pos) <= Physical(e))
    BY <1>2, <2>3, StandsBetween
  <2>6. CASE PageOff = 0
    <3>1. HdrLen(pos) \in Nat
      BY HdrLenIs
    <3> QED
      BY <1>2, <1>4, <2>4, <2>5, <2>6, <3>1 DEF PageOff
  <2>7. CASE PageOff # 0 /\ (skipLeft # 0 \/ need # 0)
    BY <1>2, <1>4, <2>4, <2>5, <2>7
  <2>8. CASE PageOff # 0 /\ skipLeft = 0 /\ need = 0
    <3>1. Between(i, k)
      <4>1. i \in 1 .. NRecords
        BY <1>6
      <4>2. TotLen(stream[i]) \in Nat /\ RecHdr <= TotLen(stream[i])
        BY <1>1, <4>1, RecordAt
      <4>3. ~Assembling(i, k)
        BY <2>8, <4>2 DEF Assembling
      <4> QED
        BY <2>8, <4>3 DEF Skipping
    <3>2. k <= Offset[j]
      <4>1. i \in 1 .. NRecords
        BY <1>6
      <4>2. /\ Offset[i] \in Nat /\ PadEnd(i) \in Nat /\ RecEnd(i) \in Nat
            /\ Offset[i] + RecHdr <= RecEnd(i) /\ RecEnd(i) <= PadEnd(i)
        BY <1>1, <4>1, RecordAt
      <4>4. k <= Offset[i]
        BY <3>1, <4>1 DEF Between
      <4>3. i < j => PadEnd(i) <= Offset[j]
        BY <1>1, <4>1, OffsetOrder
      <4> QED
        BY <1>6, <2>2, <4>2, <4>3, <4>4
    <3>3. k + LenField <= e
      BY <2>2, <2>3, <3>2, Sizes
    <3>4. Physical(k) + (e - k) <= Physical(e) /\ Physical(k) \in Nat
      BY <2>3, PhysicalOrder
    <3>5. Physical(k) = pos
      BY <2>8 DEF StandsAt, PageOff
    <3> QED
      BY <1>2, <1>4, <2>3, <2>4, <2>8, <3>3, <3>4, <3>5
  <2> QED
    BY <2>6, <2>7, <2>8
<1>7. Due = {j \in f .. NRecords : j < i}
  BY <1>3, <1>5, <1>6 DEF Due
<1> QED
  BY <1>3, <1>7

\* Until it refuses a page, the reader has handed over exactly the records that
\* begin after the start point and are complete, in order, with their LSNs and
\* bytes (feed).
THEOREM FramingExactHolds == Spec => []FramingExact
<1>1. ASSUME Inv PROVE FramingExact
  <2> USE Sizes
  <2> SUFFICES ASSUME Idle
               PROVE  /\ Len(out) = IF magic THEN Cardinality(Due) ELSE 0
                      /\ \A k \in 1 .. Len(out) :
                            LET i == NRecords - Cardinality(First) + k
                            IN out[k] = [lsn |-> StartLsn(i), bytes |-> Encode(stream[i])]
    BY DEF FramingExact
  <2>1. Layout /\ Counters /\ IF started THEN Reading ELSE Fresh
    BY <1>1 DEF Inv
  <2>2. /\ pos \in Nat /\ avail \in Nat /\ start \in Nat /\ start % PageSize = 0
        /\ started \in BOOLEAN /\ (started => magic)
    BY <2>1 DEF Counters
  <2>3. CASE ~started
    <3>1. pos = start /\ out = <<>> /\ Len(out) = 0
      BY <2>1, <2>3 DEF Fresh
    <3>2. Due = {}
      <4> SUFFICES ASSUME NEW j \in 1 .. NRecords, StartLsn(j) >= start, LastLsn(j) < pos + avail
                   PROVE  FALSE
        BY DEF Due, First
      <4>1. PICK k \in Nat : Physical(k) = start + HdrLen(start) /\ StandsAt(start, k)
        BY <2>2, BoundaryStands
      <4>2. Offset[j] \in Nat /\ RecEnd(j) \in Nat /\ Offset[j] + RecHdr <= RecEnd(j)
        BY <2>1, RecordAt DEF Layout
      <4>3. Offset[j] >= k
        BY <2>1, <2>2, <4>1, CutIs
      <4>4. PICK e \in Nat : e = RecEnd(j) - 1 /\ e >= k
        BY <4>2, <4>3
      <4>5. start + HdrLen(start) <= Physical(e)
        BY <2>2, <4>1, <4>4, StandsBetween
      <4>6. LastLsn(j) = Physical(e) /\ Physical(e) \in Nat /\ HdrLen(start) \in Nat
        BY <2>1, <4>4, PhysicalIs, HdrLenIs DEF Layout
      <4>7. avail < HdrLen(pos)
        BY <2>1, <2>2, <3>1, IdleRest DEF PageOff
      <4> QED
        BY <2>2, <3>1, <4>5, <4>6, <4>7
    <3>3. Cardinality(Due) = 0
      BY <3>2, FS_EmptySet
    <3> QED
      BY <3>1, <3>3
  <2>4. CASE started
    <3>1. PICK i \in 1 .. NRecords + 1 : \E k \in 0 .. pos :
            /\ StandsAt(pos, k)
            /\ Skipping(i, k) \/ Assembling(i, k) \/ Between(i, k)
            /\ Handed(i)
      BY <2>1, <2>4 DEF Reading
    <3>2. PICK k \in 0 .. pos :
            /\ StandsAt(pos, k)
            /\ Skipping(i, k) \/ Assembling(i, k) \/ Between(i, k)
            /\ Handed(i)
      BY <3>1
    <3>3. PICK f \in 1 .. i :
            /\ \A j \in 1 .. NRecords : StartLsn(j) >= start <=> j >= f
            /\ out = [n \in 1 .. i - f |->
                        [lsn |-> StartLsn(f + n - 1), bytes |-> Encode(stream[f + n - 1])]]
      BY <3>2 DEF Handed
    <3>4. k \in Nat
      BY <2>2, <3>2
    <3>5. First = f .. NRecords /\ Due = f .. i - 1
      BY <1>1, <2>4, <3>2, <3>3, <3>4, DueIs
    <3>6. Cardinality(Due) = i - f /\ Cardinality(First) = NRecords - f + 1
      <4>1. Cardinality(f .. i - 1) = IF f > i - 1 THEN 0 ELSE i - 1 - f + 1
        BY FS_Interval
      <4>2. Cardinality(f .. NRecords) = IF f > NRecords THEN 0 ELSE NRecords - f + 1
        BY FS_Interval
      <4> QED
        BY <3>5, <4>1, <4>2
    <3>7. Len(out) = i - f
      <4> DEFINE r(n) == [lsn |-> StartLsn(f + n - 1), bytes |-> Encode(stream[f + n - 1])]
      <4>1. out = [n \in 1 .. i - f |-> r(n)] /\ i - f \in Nat
        BY <3>3
      <4> HIDE DEF r
      <4> QED
        BY <4>1
    <3>8. ASSUME NEW n \in 1 .. Len(out)
          PROVE  LET j == NRecords - Cardinality(First) + n
                 IN out[n] = [lsn |-> StartLsn(j), bytes |-> Encode(stream[j])]
      <4>1. NRecords - Cardinality(First) + n = f + n - 1 /\ n \in 1 .. i - f
        BY <3>6, <3>7
      <4> QED
        BY <3>3, <4>1
    <3> QED
      BY <2>2, <2>4, <3>6, <3>7, <3>8
  <2> QED
    BY <2>2, <2>3, <2>4
<1> QED
  BY <1>1, InvHolds, PTL

\* The record handed over last is understood: parse_record and PageImage::
\* restore give back what the server put into the record at its LSN.
THEOREM RecordsUnderstood == Spec => []ParsedExact
<1>1. Inv => ParsedExact
  <2> SUFFICES ASSUME Inv, out # <<>> PROVE ParsedExact
    BY DEF ParsedExact
  <2>1. Layout /\ Counters /\ started
    BY DEF Inv, Fresh
  <2>2. PICK i \in 1 .. NRecords + 1 : Handed(i)
    BY <2>1 DEF Inv, Reading
  <2>3. PICK f \in 1 .. i :
          /\ \A j \in 1 .. NRecords : StartLsn(j) >= start <=> j >= f
          /\ out = [n \in 1 .. i - f |->
                      [lsn |-> StartLsn(f + n - 1), bytes |-> Encode(stream[f + n - 1])]]
    BY <2>2 DEF Handed
  <2>4. NRecords \in Nat \ {0}
    BY Sizes
  <2>5. PICK m \in Nat : m = i - f
    BY <2>3, <2>4
  <2> DEFINE r(n) == [lsn |-> StartLsn(f + n - 1), bytes |-> Encode(stream[f + n - 1])]
  <2>6. out = [n \in 1 .. m |-> r(n)]
    BY <2>3, <2>5
  <2> HIDE DEF r
  <2>7. Len(out) = m /\ m # 0
    <3>1. Len(out) = m
      BY <2>5, <2>6
    <3>2. m = 0 => out = <<>>
      BY <2>6
    <3> QED
      BY <3>1, <3>2
  <2>8. PICK j : j = f + m - 1
    OBVIOUS
  <2>9. j \in 1 .. NRecords
    BY <2>2, <2>3, <2>4, <2>5, <2>7, <2>8
  <2>10. out[Len(out)] = [lsn |-> StartLsn(j), bytes |-> Encode(stream[j])]
    <3>1. m \in 1 .. m
      BY <2>5, <2>7
    <3>2. out[m] = r(m)
      BY <2>6, <3>1
    <3> QED
      BY <2>7, <2>8, <3>2 DEF r
  <2>11. WellFormed(stream[j])
    <3>1. stream[j] \in Shapes
      BY <2>1, <2>9 DEF Layout, Spaced
    <3> QED
      BY <3>1, WalReaderAssumption
  <2>12. ParseRecord(Encode(stream[j])) = Meaning(stream[j])
    BY <2>11, ParseInverts
  <2>13. PICK o : o = out[Len(out)]
    OBVIOUS
  <2>14. o.lsn = StartLsn(j) /\ o.bytes = Encode(stream[j])
    BY <2>10, <2>13
  <2> QED
    BY <2>9, <2>12, <2>13, <2>14, Zenon DEF ParsedExact
<1> QED
  BY <1>1, InvHolds, PTL
=============================================================================
