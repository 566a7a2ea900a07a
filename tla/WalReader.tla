------------------------------ MODULE WalReader ------------------------------
(***************************************************************************)
(* Reassembling WAL records from the raw byte stream (WalReader in         *)
(* wal/mod.rs): pages with short and long headers, records that cross      *)
(* pages, alignment padding, zero fill and unused pages after a segment    *)
(* switch, a start in the middle of a record, and chunks that end in the   *)
(* middle of anything but fill.                                            *)
(*                                                                         *)
(* Sizes are scaled down; an LSN is the position of a byte.  The loop of   *)
(* feed() is one action per branch; the next chunk is fed when no branch   *)
(* applies.  The bytes still pending are the ones from pos up to the end   *)
(* of the last chunk, so their number stands for them.                     *)
(***************************************************************************)
EXTENDS WalRecord, FiniteSets

CONSTANTS
    PageSize, SegSize,   \* XLOG_PAGE_SIZE, WAL_SEG_SIZE
    ShortHdr, LongHdr,   \* page header sizes; the long one starts a segment
    Align,               \* MAXALIGN
    Shapes,              \* bound: the kinds of records in the stream
    NRecords,            \* bound: records in the stream
    MaxChunk             \* bound: bytes per XLogData message

ASSUME WalReaderAssumption ==
    /\ {PageSize, SegSize, ShortHdr, LongHdr, Align} \subseteq Nat \ {0}
    /\ {NRecords, MaxChunk} \subseteq Nat \ {0}
    /\ PageSize % Align = 0 /\ SegSize % PageSize = 0
    /\ ShortHdr % Align = 0 /\ LongHdr % Align = 0
    /\ ShortHdr < PageSize /\ LongHdr < PageSize
    /\ LenField <= Align
    /\ \A r \in Shapes : WellFormed(r)

VARIABLES
    stream,   \* the records of the WAL, in order
    switch,   \* the record after which the segment is switched (0: none)
    wal,      \* LSN |-> byte; page headers are not in its domain
    span,     \* record |-> LSNs of its first and its last byte
    magic,    \* whether the server version is one of XLOG_PAGE_MAGICS
    start,    \* start_lsn: the page at which the reader begins
    \* WalReader
    pos, avail, skipLeft, started, rec, recLsn, need,
    out,      \* the records handed to the engine
    failed    \* feed() returned an error

reader == <<pos, avail, skipLeft, started, rec, recLsn, need>>
env == <<stream, switch, wal, span, magic, start>>
vars == <<env, reader, out, failed>>

-----------------------------------------------------------------------------
\* The stream as the server lays it out.  Logical offsets count payload bytes
\* only; Physical maps them to LSNs.

PagePayload == PageSize - ShortHdr
FirstPayload == PageSize - LongHdr
SegPayload == FirstPayload + (SegSize \div PageSize - 1) * PagePayload
Aligned(n) == ((n + Align - 1) \div Align) * Align

Physical(k) ==
    LET r == k % SegPayload IN
    (k \div SegPayload) * SegSize
    + (IF r < FirstPayload THEN LongHdr + r
       ELSE LET s == r - FirstPayload
            IN PageSize + (s \div PagePayload) * PageSize + ShortHdr + (s % PagePayload))

\* Logical start of each record, and where the last one ends.
Offsets(recs, sw) ==
    LET S[i \in 1 .. NRecords + 1] ==
            IF i = 1 THEN 0
            ELSE LET end == S[i - 1] + Aligned(TotLen(recs[i - 1]))
                 IN IF sw = i - 1 /\ end % SegPayload # 0
                    THEN (end \div SegPayload + 1) * SegPayload ELSE end
    IN S
Offset == Offsets(stream, switch)

\* The bytes of the records; what belongs to none is padding or zero fill.
Placed ==
    LET at(i) == LET bytes == Encode(stream[i])
                     first == Offset[i]
                 IN  {<<Physical(first + k - 1), bytes[k]>> : k \in DOMAIN bytes}
        all == UNION {at(i) : i \in 1 .. NRecords}
    IN  [l \in {b[1] : b \in all} |-> (CHOOSE b \in all : b[1] = l)[2]]

StartLsn(i) == span[i][1]
LastLsn(i) == span[i][2]
EndLsn == LastLsn(NRecords) + 1
Byte(l) == IF l \in DOMAIN wal THEN wal[l] ELSE Zero

HdrLen(l) == IF l % SegSize = 0 THEN LongHdr ELSE ShortHdr

\* xlp_rem_len of the page at l: what is left of a record begun before it.
RemLen(l) ==
    LET cut == {i \in 1 .. NRecords : StartLsn(i) < l /\ LastLsn(i) > l}
    IN IF cut = {} THEN 0
       ELSE LET i == CHOOSE i \in cut : TRUE
            IN Cardinality({m \in DOMAIN wal : l < m /\ m <= LastLsn(i)})

\* After a switch the server leaves the other pages of the segment all zero,
\* their headers too.
Unused(l) ==
    switch > 0 /\ LastLsn(switch) < l /\ l \div SegSize = LastLsn(switch) \div SegSize

\* Whether the header of the page at l holds one of XLOG_PAGE_MAGICS.
HasMagic(l) == magic /\ ~Unused(l)

\* Where the server may end a chunk: anywhere within or around a record, but in
\* fill at aligned positions only.  (It ends one at a page boundary or at its
\* flush position, the aligned end of a record.)
MayEnd(l) ==
    \/ l % Align = 0
    \/ {l - 1, l} \cap DOMAIN wal # {}

-----------------------------------------------------------------------------
Init ==
    /\ stream \in [1 .. NRecords -> Shapes]
    /\ switch \in 0 .. NRecords - 1
    /\ wal = Placed
    /\ span = [i \in 1 .. NRecords |->
                  <<Physical(Offset[i]), Physical(Offset[i] + TotLen(stream[i]) - 1)>>]
    /\ magic \in BOOLEAN
    /\ start \in {p * PageSize : p \in 0 .. EndLsn \div PageSize}
    /\ pos = start /\ avail = 0 /\ skipLeft = 0 /\ started = FALSE
    /\ rec = <<>> /\ recLsn = 0 /\ need = 0
    /\ out = <<>> /\ failed = FALSE

PageOff == pos % PageSize
PageRem == PageSize - PageOff
Least(a, b) == IF a <= b THEN a ELSE b
Pad(p) == Aligned(p) - p

AtHeader == PageOff = 0 /\ avail >= HdrLen(pos)
Discarding == PageOff # 0 /\ avail > 0 /\ skipLeft > 0
InRecord == PageOff # 0 /\ avail > 0 /\ skipLeft = 0 /\ need > 0
AtRecord == PageOff # 0 /\ skipLeft = 0 /\ need = 0 /\ avail >= LenField

\* No branch of the loop applies: feed() has returned.
Idle == ~failed /\ ~AtHeader /\ ~Discarding /\ ~InRecord /\ ~AtRecord

Feed(n) ==
    /\ Idle
    /\ pos + avail + n <= EndLsn
    /\ MayEnd(pos + avail + n)
    /\ avail' = avail + n
    /\ UNCHANGED <<env, pos, skipLeft, started, rec, recLsn, need, out, failed>>

\* A chunk that does not start where the last one ended is refused.
FeedGap(lsn) ==
    /\ Idle
    /\ lsn # pos + avail
    /\ failed' = TRUE
    /\ UNCHANGED <<env, reader, out>>

MutStripHeader ==
    /\ ~failed /\ AtHeader /\ HasMagic(pos)
    /\ started' = TRUE
    /\ skipLeft' = RemLen(pos)
    /\ pos' = pos + HdrLen(pos)
    /\ avail' = avail - HdrLen(pos)
    /\ UNCHANGED <<env, rec, recLsn, need, out, failed>>

\* The first header says how much of a record in flight is to be skipped.
\* Both header sizes are aligned, so the padding after one is empty.
StripHeader ==
    /\ ~failed /\ AtHeader /\ HasMagic(pos)
    /\ started' = TRUE
    /\ LET skip == IF started THEN skipLeft ELSE RemLen(pos)
       IN skipLeft' = IF skip = 0 /\ need = 0 THEN Pad(pos + HdrLen(pos)) ELSE skip
    /\ pos' = pos + HdrLen(pos)
    /\ avail' = avail - HdrLen(pos)
    /\ UNCHANGED <<env, rec, recLsn, need, out, failed>>

\* Every page header is checked.  With the error go the records that the same
\* call had collected: the reader is not used again.
RefuseMagic ==
    /\ ~failed /\ AtHeader /\ ~HasMagic(pos)
    /\ failed' = TRUE
    /\ UNCHANGED <<env, reader, out>>

MutDiscard ==
    /\ ~failed /\ Discarding
    /\ LET take == Least(skipLeft, Least(PageRem, avail))
       IN /\ pos' = pos + take
          /\ avail' = avail - take
          /\ skipLeft' = skipLeft - take
    /\ UNCHANGED <<env, started, rec, recLsn, need, out, failed>>

Discard ==
    /\ ~failed /\ Discarding
    /\ LET take == Least(skipLeft, Least(PageRem, avail))
       IN /\ pos' = pos + take
          /\ avail' = avail - take
          /\ skipLeft' = IF skipLeft = take THEN Pad(pos + take) ELSE skipLeft - take
    /\ UNCHANGED <<env, started, rec, recLsn, need, out, failed>>

MutAccumulate ==
    /\ ~failed /\ InRecord
    /\ LET take == Least(PageRem, avail)
           more == rec \o [k \in 1 .. take |-> Byte(pos + k - 1)]
       IN /\ pos' = pos + take
          /\ avail' = avail - take
          /\ rec' = more
    /\ UNCHANGED <<env, skipLeft, started, need, out, recLsn, failed>>

Accumulate ==
    /\ ~failed /\ InRecord
    /\ LET take == Least(need - Len(rec), Least(PageRem, avail))
           more == rec \o [k \in 1 .. take |-> Byte(pos + k - 1)]
           whole == Len(more) = need
       IN /\ pos' = pos + take
          /\ avail' = avail - take
          /\ rec' = IF whole THEN <<>> ELSE more
          /\ need' = IF whole THEN 0 ELSE need
          /\ skipLeft' = IF whole THEN Pad(pos + take) ELSE skipLeft
          /\ out' = IF whole THEN Append(out, [lsn |-> recLsn, bytes |-> more]) ELSE out
    /\ UNCHANGED <<env, started, recLsn, failed>>

\* xl_tot_len at pos.  Bytes that are no length field are not a number: the
\* reader has lost its place.
LengthAt == Byte(pos)[1] = "len" /\ Byte(pos)[3] = 1
FillAt == \A k \in 0 .. LenField - 1 : Byte(pos + k) = Zero

SkipFill ==
    /\ ~failed /\ AtRecord /\ FillAt
    /\ LET take == Least(PageRem, avail)
       IN pos' = pos + take /\ avail' = avail - take
    /\ UNCHANGED <<env, skipLeft, started, rec, recLsn, need, out, failed>>

BeginRecord ==
    /\ ~failed /\ AtRecord /\ LengthAt
    /\ recLsn' = pos
    /\ need' = Byte(pos)[2]
    /\ rec' = <<>>
    /\ UNCHANGED <<env, pos, avail, skipLeft, started, out, failed>>

Next ==
    \/ \E n \in 1 .. MaxChunk : Feed(n)
    \/ \E l \in {start, start + PageSize} : FeedGap(l)
    \/ StripHeader \/ RefuseMagic
    \/ Discard
    \/ Accumulate
    \/ SkipFill
    \/ BeginRecord

Spec == Init /\ [][Next]_vars

-----------------------------------------------------------------------------
\* The reader's counters are within their bounds and a record being assembled
\* is never longer than announced.
TypeOK ==
    /\ pos \in Nat /\ avail \in 0 .. PageSize + MaxChunk
    /\ skipLeft \in Nat /\ need \in Nat /\ recLsn \in Nat
    /\ started \in BOOLEAN /\ failed \in BOOLEAN
    /\ Len(rec) <= need

\* The reader never stands in the middle of something (feed): with nothing to
\* skip and no record begun, the bytes at its position are the length field of
\* a record or fill.
InStep == AtRecord => LengthAt \/ FillAt

\* The records that begin at or after the start of reading, with their LSNs.
First == {i \in 1 .. NRecords : StartLsn(i) >= start}
Due == {i \in First : LastLsn(i) < pos + avail}

\* Framing (feed): as long as no page is refused, once a chunk has been
\* consumed, exactly the records that begin after the start point and are
\* complete have been handed over, in order, each with its start LSN and its
\* exact bytes.
FramingExact ==
    Idle =>
        /\ Len(out) = IF magic THEN Cardinality(Due) ELSE 0
        /\ \A k \in 1 .. Len(out) :
              LET i == NRecords - Cardinality(First) + k
              IN out[k] = [lsn |-> StartLsn(i), bytes |-> Encode(stream[i])]

\* What the comment on the check of every page says it is for (feed): it
\* rejects unsupported versions up front and guards against a lost position.
\* So of a server of a supported version no page after the first is refused.
\* The code does not keep to it: see Unused.
OnlyVersionRefused == magic /\ started /\ ~failed /\ AtHeader => HasMagic(pos)

\* The record handed over last is understood (parse_record, PageImage::
\* restore): its blocks with relation, data and restored page image, and its
\* main data, are the ones the server logged.
ParsedExact ==
    out # <<>> =>
        \E i \in 1 .. NRecords :
            /\ StartLsn(i) = out[Len(out)].lsn
            /\ ParseRecord(out[Len(out)].bytes) = Meaning(stream[i])

-----------------------------------------------------------------------------
\* What makes the properties of the reader inductive.

\* Position p is at logical offset k: at its byte, or at the page header
\* before it.
StandsAt(p, k) ==
    \/ p = Physical(k)
    \/ p % PageSize = 0 /\ Physical(k) = p + HdrLen(p)

RecEnd(i) == Offset[i] + TotLen(stream[i])
PadEnd(i) == Offset[i] + Aligned(TotLen(stream[i]))

\* How the records lie in the stream: aligned, apart, and after a gap at the
\* start of a segment.
Spaced ==
    /\ stream \in [1 .. NRecords -> Shapes]
    /\ Offset \in [1 .. NRecords + 1 -> Nat] /\ Offset[1] = 0
    /\ \A i \in 1 .. NRecords :
          /\ Offset[i] % Align = 0
          /\ PadEnd(i) <= Offset[i + 1]
          /\ PadEnd(i) < Offset[i + 1] => Offset[i + 1] % SegPayload = 0

Layout ==
    /\ Spaced
    /\ \A i \in 1 .. NRecords :
          StartLsn(i) = Physical(Offset[i]) /\ LastLsn(i) = Physical(RecEnd(i) - 1)
    /\ \A i \in 1 .. NRecords : \A n \in 1 .. TotLen(stream[i]) :
          LET l == Physical(Offset[i] + n - 1)
          IN  l \in DOMAIN wal /\ wal[l] = Encode(stream[i])[n]
    /\ \A l \in DOMAIN wal : \E i \in 1 .. NRecords : \E n \in 1 .. TotLen(stream[i]) :
          l = Physical(Offset[i] + n - 1)

\* Nothing read yet, or not even accepted.
Fresh ==
    /\ pos = start /\ skipLeft = 0 /\ need = 0 /\ rec = <<>> /\ recLsn = 0 /\ out = <<>>

\* The reader stands at logical offset k and record i is the next to hand
\* over: it discards what is left of the one before, or its padding; it is
\* inside record i; or it is in front of it, possibly in fill.
Skipping(i, k) ==
    /\ skipLeft > 0 /\ need = 0 /\ rec = <<>> /\ i > 1
    /\ \/ k + skipLeft = RecEnd(i - 1) /\ StartLsn(i - 1) < start
       \/ k + skipLeft = PadEnd(i - 1) /\ RecEnd(i - 1) <= k
Assembling(i, k) ==
    /\ skipLeft = 0 /\ i <= NRecords /\ recLsn = StartLsn(i)
    /\ need = TotLen(stream[i]) /\ Len(rec) \in 0 .. need - 1 /\ k = Offset[i] + Len(rec)
    /\ rec = [n \in 1 .. Len(rec) |-> Encode(stream[i])[n]]
Between(i, k) ==
    /\ skipLeft = 0 /\ need = 0 /\ rec = <<>> /\ k % Align = 0
    /\ i > 1 => PadEnd(i - 1) <= k
    /\ i <= NRecords => k <= Offset[i]

\* The records handed over are those from the first one after the start.
Handed(i) ==
    \E f \in 1 .. i :
        /\ \A j \in 1 .. NRecords : StartLsn(j) >= start <=> j >= f
        /\ out = [n \in 1 .. i - f |->
                    [lsn |-> StartLsn(f + n - 1), bytes |-> Encode(stream[f + n - 1])]]

Reading ==
    \E i \in 1 .. NRecords + 1 : \E k \in 0 .. pos :
        /\ StandsAt(pos, k)
        /\ Skipping(i, k) \/ Assembling(i, k) \/ Between(i, k)
        /\ Handed(i)

Counters ==
    /\ pos \in Nat /\ avail \in Nat /\ skipLeft \in Nat /\ need \in Nat /\ recLsn \in Nat
    /\ started \in BOOLEAN /\ failed \in BOOLEAN
    /\ started => magic
    /\ start % PageSize = 0 /\ start \in Nat
    /\ avail <= PageSize + MaxChunk
    /\ pos + avail <= EndLsn /\ MayEnd(pos + avail)

Inv == Layout /\ Counters /\ (IF started THEN Reading ELSE Fresh)
=============================================================================
