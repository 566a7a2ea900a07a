------------------------------ MODULE HeapTuple ------------------------------
(***************************************************************************)
(* From the bytes of heap records to the row the engine knows (wal/heap.rs *)
(* and its callers in engine.rs and sink.rs): the life of one row of one   *)
(* table, inserted, updated in any number of steps - a record may leave    *)
(* out the bytes it shares with the previous version, and the chunks of    *)
(* out-of-line values it did not change - with restarts in between.        *)
(*                                                                         *)
(* A table's physical columns are a sequence of [len, align, live, type],  *)
(* len -1 for a varlena.  A stored attribute is [form, v, items]: v is the *)
(* value's bytes, form how the server laid them out and items what their   *)
(* compressed form is made of.  As in module WalRecord, bytes that are     *)
(* read together are a token and filler.                                   *)
(***************************************************************************)
EXTENDS WalRecord, Integers, SequencesExt

CONSTANTS
    Layouts,       \* the tables considered
    AttrChoices(_),\* the values considered for a column, as they are stored
    BitsPerByte,   \* columns per byte of the null bitmap (8)
    ShortMax,      \* longest payload with a one-byte header (126)
    PtrLen,        \* bytes of a TOAST pointer (18)
    ItemsPerCtrl,  \* pglz items per control byte (8)
    MaxNibble      \* longest match length the tag byte can hold (15)

VARIABLES
    phys,    \* the table's physical columns (TableDesc::phys)
    cur,     \* the stored tuple of the row's current version
    known,   \* the mirror's entry for it: [row, attrs]
    lost,    \* history: the record lacked something no decoder could supply
    imaged,  \* history: an image left out a value that the row in known has
    blind    \* history: a value or a byte of known was a guess

rowVars == <<phys, cur, known, lost, imaged, blind>>

HeapHeader == 23     \* SIZEOF_HEAP_TUPLE_HEADER
MultiHeader == 7     \* xl_multi_insert_tuple
Filler(n) == [i \in 1 .. n |-> Zero]
align_to(off, a) == ((off + a - 1) \div a) * a
Num(n) == <<"num", n>>

-----------------------------------------------------------------------------
(* pglz                                                                    *)

\* data.get(off..off + n), 0-based as in the code.
Slice(s, off, n) == SubSeq(s, off + 1, off + n)

\* n bytes from off back, one at a time: a copy may overlap what it produces.
CopyByte(out, off) == Append(out, out[Len(out) + 1 - off])
Overlap(out, off, n) ==
    LET copy[k \in 0 .. n] == IF k = 0 THEN out ELSE CopyByte(copy[k - 1], off) IN copy[n]

\* A copy of earlier output, which the output size cuts short.
CopyItem(st, src, raw, used, off, len) ==
    IF st.sp + used > Len(src) \/ off = 0 \/ off > Len(st.out)
    THEN [st EXCEPT !.bad = TRUE]
    ELSE [st EXCEPT !.sp = @ + used, !.bit = @ + 1,
                    !.out = Overlap(@, off, IF len < raw - Len(@) THEN len ELSE raw - Len(@))]

\* One item: a literal or a copy.
InflateItem(st, src, raw) ==
    LET tag == src[st.sp + 1]
    IN  IF st.bit \notin st.ctrl
          THEN [st EXCEPT !.sp = @ + 1, !.bit = @ + 1, !.out = Append(@, tag)]
        ELSE IF tag[2] = MaxNibble
          THEN CopyItem(st, src, raw, 3, tag[3], 3 + tag[2] + src[st.sp + 3][2])
          ELSE CopyItem(st, src, raw, 2, tag[3], 3 + tag[2])

\* A round of the loop: a control byte or an item.
InflateStep(st, src, raw) ==
    IF st.bad \/ st.sp >= Len(src) \/ Len(st.out) >= raw THEN st
    ELSE IF st.bit = ItemsPerCtrl
      THEN [st EXCEPT !.sp = @ + 1, !.bit = 0, !.ctrl = src[st.sp + 1][2]]
      ELSE InflateItem(st, src, raw)

InflateStart == [sp |-> 0, out |-> <<>>, bit |-> ItemsPerCtrl, ctrl |-> {}, bad |-> FALSE]
Inflated(st, raw) == IF st.bad \/ Len(st.out) # raw THEN Error ELSE st.out

pglz_decompress(src, raw) ==
    LET st[k \in 0 .. Len(src)] ==
            IF k = 0 THEN InflateStart ELSE InflateStep(st[k - 1], src, raw)
    IN  Inflated(st[Len(src)], raw)

\* 0 is pglz, 1 is lz4 (a library: the stream is one token).
decompress_datum(method, payload, raw) ==
    CASE method = 0 -> pglz_decompress(payload, raw)
      [] method = 1 /\ Len(payload) = 1 /\ Len(payload[1][2]) = raw -> payload[1][2]
      [] OTHER -> Error

\* The server's side of pglz: items are literals and copies.
Literal(b) == [copy |-> FALSE, b |-> b, off |-> 0, len |-> 0]
Copy(off, len) == [copy |-> TRUE, b |-> Zero, off |-> off, len |-> len]

Produce(out, it) ==
    IF ~it.copy THEN Append(out, it.b)
    ELSE out \o [i \in 1 .. it.len |-> out[Len(out) - it.off + 1 + ((i - 1) % it.off)]]

\* What the first items stand for, and all of them.
Outputs(items) ==
    LET out[i \in 0 .. Len(items)] == IF i = 0 THEN <<>> ELSE Produce(out[i - 1], items[i]) IN out
Expand(items) == Outputs(items)[Len(items)]

ItemBytes(it) ==
    IF ~it.copy THEN <<it.b>>
    ELSE IF it.len - 3 < MaxNibble THEN << <<"ref", it.len - 3, it.off>>, Zero >>
    ELSE << <<"ref", MaxNibble, it.off>>, Zero, Num(it.len - 3 - MaxNibble) >>

\* The control byte before item i.
Ctrl(items, i) ==
    IF (i - 1) % ItemsPerCtrl # 0 THEN <<>>
    ELSE << <<"ctrl", {k \in 0 .. ItemsPerCtrl - 1 : i + k <= Len(items) /\ items[i + k].copy}>> >>

Group(items, i) == Ctrl(items, i) \o ItemBytes(items[i])

Compress(items) ==
    LET upto[i \in 0 .. Len(items)] == IF i = 0 THEN <<>> ELSE upto[i - 1] \o Group(items, i)
    IN  upto[Len(items)]

\* A copy is from what is there, and at least three bytes long.
IsItems(items) ==
    /\ IsSeq(items)
    /\ \A i \in DOMAIN items :
         LET it == items[i]
         IN  /\ it.copy \in BOOLEAN
             /\ it.copy => /\ it.off \in Nat \ {0} /\ it.off <= Len(Outputs(items)[i - 1])
                           /\ it.len \in Nat /\ it.len >= 3

-----------------------------------------------------------------------------
(* TOAST                                                                   *)

Method(form) == IF form \in {"lz4", "external lz4"} THEN 1 ELSE 0
Packed(a) == IF Method(a.form) = 1 THEN << <<"lz4", a.v>> >> ELSE Compress(a.items)

\* What the server cuts into chunks: a compressed value keeps its tcinfo.
Stored(a) ==
    IF a.form = "external" THEN a.v ELSE <<Num(Len(a.v)), Zero, Zero, Zero>> \o Packed(a)

Unpacked(buf, raw, ext, method) ==
    CASE Len(buf) # ext -> Error
      [] Len(buf) = ext /\ ext = raw -> buf
      [] Len(buf) = ext /\ ext # raw /\ ext < 4 -> Error
      [] OTHER -> decompress_datum(method, SubSeq(buf, 5, Len(buf)), raw)

\* ToastCache::resolve; chunks maps chunk_seq to bytes, in order of seq.
resolve(chunks, raw, ext, method) ==
    LET n == Cardinality(DOMAIN chunks)
    IN  IF DOMAIN chunks # 0 .. n - 1 THEN Error
        ELSE Unpacked(FlattenSeq([i \in 1 .. n |-> chunks[i - 1]]), raw, ext, method)

-----------------------------------------------------------------------------
(* Values: what a row holds for the bytes of a column                      *)

\* A run of bytes that is no UTF-8 (a token) becomes U+FFFD, three bytes.
Replacement == [i \in 1 .. 3 |-> <<"fffd", i>>]
from_utf8_lossy(b) ==
    FlattenSeq([i \in 1 .. Len(b) |-> IF b[i][1] = "raw" THEN Replacement ELSE <<b[i]>>])

\* The server's numeric: a two-byte header that holds sign, scale and weight,
\* which takes two more bytes in the long form, and two bytes per digit.
NumericBytes(kind, w, digits) ==
    << <<"numeric", kind, w>> >> \o Filler(IF kind = "long" THEN 3 ELSE 1) \o digits

\* The decimal string: digits from behind the header, in pairs of bytes.
Decimal(b, w, hdr) == << <<"decimal", w, SubSeq(b, hdr + 1, hdr + 2 * ((Len(b) - hdr) \div 2))>> >>
numeric_to_string(b) ==
    LET head == IF b[1][1] = "numeric" THEN b[1] ELSE <<"numeric", "short", b[1]>>
    IN  CASE Len(b) < 2 -> Error
          [] Len(b) >= 2 /\ head[2] = "special" -> << <<"special", head[3]>> >>
          [] Len(b) >= 2 /\ head[2] = "short" -> Decimal(b, head[3], 2)
          [] OTHER -> IF Len(b) < 4 THEN Error ELSE Decimal(b, head[3], 4)

\* Always the long form.
numeric_from_string(x) ==
    IF x[1][1] = "special" THEN NumericBytes("special", x[1][2], <<>>)
    ELSE NumericBytes("long", x[1][2], x[1][3])

\* The document's text, which is not turned back into a container.
jsonb_to_string(b) == IF Len(b) < 4 THEN Error ELSE << <<"json", b>> >>

\* decode_value's conversion; the fixed types and bytea ("exact") keep every
\* bit (integers, floats, dates, timestamps, uuid).
to_value(col, b) ==
    CASE col.type = "text" -> from_utf8_lossy(b)
      [] col.type = "numeric" -> numeric_to_string(b)
      [] col.type = "jsonb" -> jsonb_to_string(b)
      [] OTHER -> b

\* encode_attrs' conversion back; Error where it gives up.
from_value(col, x) ==
    CASE col.type = "numeric" -> numeric_from_string(x)
      [] col.type = "jsonb" -> Error
      [] OTHER -> x

-----------------------------------------------------------------------------
(* Tuples as the server builds them                                        *)

Attr(form, v) == [form |-> form, v |-> v, items |-> <<>>]
PackedAttr(form, items) == [form |-> form, v |-> Expand(items), items |-> items]
NullAttr == Attr("null", <<>>)
External == {"external", "external lz4", "external pglz"}

\* Column and attribute stand for the valueid of an out-of-line value.
ValueId(i, a) == <<i, a>>

\* A cache (ToastCache) with the chunks of the given out-of-line values: all
\* of them or, after a restart in between, the last one only.
Cached(ids, all) ==
    [id \in ids |->
        LET s == Stored(id[2])
            chunks == [k \in 0 .. 1 |-> IF k = 0 THEN SubSeq(s, 1, 1) ELSE SubSeq(s, 2, Len(s))]
        IN  IF all THEN chunks ELSE [k \in {1} |-> chunks[1]]]

Pointer(i, a) ==
    << <<"external", ValueId(i, a), Len(a.v), Len(Stored(a)), Method(a.form)>> >> \o Filler(PtrLen - 1)

Fill(buf, col, i, a) ==
    LET pad(n) == buf \o Filler(align_to(Len(buf), n) - Len(buf))
        body == Packed(a)
    IN  CASE a.form = "null"  -> buf
          [] a.form = "fixed" -> pad(col.align) \o a.v
          [] a.form = "short" -> buf \o << <<"short", Len(a.v) + 1>> >> \o a.v
          [] a.form = "long"  -> pad(4) \o << <<"long", Len(a.v) + 4>> >> \o Filler(3) \o a.v
          [] a.form \in {"pglz", "lz4"} ->
               pad(4) \o << <<"packed", Len(body) + 8>> >> \o Filler(3)
                 \o << <<"tcinfo", Len(a.v), Method(a.form)>> >> \o Filler(3) \o body
          [] a.form \in External -> buf \o Pointer(i, a)

\* The attribute area of a tuple: what follows t_hoff on the page.
Attrs(cols, t) ==
    LET upto[i \in 0 .. Len(t)] == IF i = 0 THEN <<>> ELSE Fill(upto[i - 1], cols[i], i, t[i])
    IN  upto[Len(t)]

HasNulls(t) == \E i \in DOMAIN t : t[i].form = "null"
BitmapBytes(t) == IF HasNulls(t) THEN (Len(t) + BitsPerByte - 1) \div BitsPerByte ELSE 0
THoff(t) == align_to(HeapHeader + BitmapBytes(t), 8)
Bitmap(t) ==
    [k \in 1 .. BitmapBytes(t) |->
        <<"bits", {b \in 0 .. BitsPerByte - 1 : LET i == (k - 1) * BitsPerByte + b + 1
                                                IN i <= Len(t) /\ t[i].form # "null"}>>]
    \o Filler(THoff(t) - HeapHeader - BitmapBytes(t))
Payload(cols, t) == Bitmap(t) \o Attrs(cols, t)

\* xl_heap_header, 9 bytes long in the Neon dialect and 5 otherwise.
WalHeader(t, neon) ==
    LET len == IF neon THEN 9 ELSE 5
    IN  [i \in 1 .. len |-> CASE i = 1 -> Num(Len(t)) [] i = 3 -> <<"hasnull", HasNulls(t)>>
                              [] i = len -> Num(THoff(t)) [] OTHER -> Zero]

\* The row a reader of the table expects: live columns, absent ones NULL.
Shown(col, a) == [v |-> to_value(col, a.v)]
ColumnValue(cols, t, i) ==
    IF i > Len(t) \/ t[i].form = "null" THEN Null ELSE Shown(cols[i], t[i])
RowOf(cols, t) ==
    LET upto[i \in 0 .. Len(cols)] ==
            IF i = 0 THEN <<>>
            ELSE IF cols[i].live THEN Append(upto[i - 1], ColumnValue(cols, t, i)) ELSE upto[i - 1]
    IN  upto[Len(cols)]

\* What the server stores in a column.  Compression is kept only if it saves.
IsAttr(col, a) ==
    /\ IsSeq(a.v) /\ a.v # Error
    /\ a.form # "null" => IsSeq(to_value(col, a.v)) /\ to_value(col, a.v) # Error
    /\ \/ a = NullAttr
       \/ a.form = "fixed" /\ col.len >= 0 /\ Len(a.v) = col.len
       \/ /\ col.len < 0
          /\ \/ a.form = "short" /\ Len(a.v) <= ShortMax
             \/ a.form = "long" /\ Len(a.v) > ShortMax
             \/ a.form = "lz4"
             \/ a.form = "external" /\ Len(a.v) > 0
             \/ a.form = "external lz4" /\ Len(Stored(a)) < Len(a.v)
             \/ /\ a.form \in {"pglz", "external pglz"}
                /\ IsItems(a.items) /\ a.v = Expand(a.items)
                /\ a.form # "pglz" => Len(Stored(a)) < Len(a.v)

IsColumn(col) == col.len \in Int /\ col.align \in Nat \ {0} /\ col.live \in BOOLEAN

ASSUME HeapTupleAssumption ==
    /\ {BitsPerByte, ItemsPerCtrl, PtrLen} \subseteq Nat \ {0}
    /\ {ShortMax, MaxNibble} \subseteq Nat
    /\ \A cols \in Layouts :
         /\ IsSeq(cols) /\ \E i \in DOMAIN cols : cols[i].live
         /\ \A i \in DOMAIN cols :
              IsColumn(cols[i]) /\ \A a \in AttrChoices(cols[i]) : IsAttr(cols[i], a)

-----------------------------------------------------------------------------
(* Decoding                                                                *)

Unresolved == [unresolved |-> TRUE]
Bad == [bad |-> TRUE]
Got(v, off) == [v |-> v, off |-> off]
GotBytes(v, off) == IF v = Error THEN Bad ELSE Got([v |-> v], off)

\* A varlena at off: [v, off after it].  The first byte tells the forms apart.
decode_varlena(data, off, toast) ==
    LET first == data[off + 1]
        at    == align_to(off, 4)
        hdr   == data[at + 1]
    IN  CASE off >= Len(data) -> Bad
          [] first[1] = "external" ->
               IF off + PtrLen > Len(data) THEN Bad
               ELSE IF first[2] \notin DOMAIN toast THEN Got(Unresolved, off + PtrLen)
               ELSE GotBytes(resolve(toast[first[2]], first[3], first[4], first[5]), off + PtrLen)
          [] first[1] = "short" ->
               IF off + first[2] > Len(data) THEN Bad
               ELSE Got([v |-> Slice(data, off + 1, first[2] - 1)], off + first[2])
          [] OTHER ->
               IF at + 4 > Len(data) \/ hdr[1] \notin {"long", "packed"} \/ at + hdr[2] > Len(data)
               THEN Bad
               ELSE IF hdr[1] = "long" THEN Got([v |-> Slice(data, at + 4, hdr[2] - 4)], at + hdr[2])
               ELSE GotBytes(decompress_datum(data[at + 5][3], Slice(data, at + 8, hdr[2] - 8), data[at + 5][2]),
                             at + hdr[2])

ReadValue(data, off, col, toast) ==
    LET at == align_to(off, col.align)
    IN  IF col.len < 0 THEN decode_varlena(data, off, toast)
        ELSE IF at + col.len > Len(data) THEN Bad
        ELSE Got([v |-> Slice(data, at, col.len)], at + col.len)

Converted(d, col) ==
    IF d = Bad \/ d.v = Unresolved THEN d ELSE GotBytes(to_value(col, d.v.v), d.off)

decode_value(data, off, col, toast) == Converted(ReadValue(data, off, col, toast), col)

SchemaDrift == [drift |-> TRUE]

\* Unchanged out-of-line values are not looked up in the previous row.
MutTakeValue(st, col, d, old) ==
    IF d = Bad \/ d.v = Unresolved THEN [st EXCEPT !.bad = TRUE]
    ELSE IF ~col.live THEN [st EXCEPT !.off = d.off]
    ELSE [st EXCEPT !.row = Append(@, d.v), !.off = d.off]

\* The previous row is indexed from the column before.
MutTakeOld(st, col, d, old) ==
    IF d = Bad THEN [st EXCEPT !.bad = TRUE]
    ELSE IF ~col.live THEN [st EXCEPT !.off = d.off]
    ELSE IF d.v # Unresolved THEN [st EXCEPT !.row = Append(@, d.v), !.off = d.off]
    ELSE IF Len(st.row) \in DOMAIN old /\ old[Len(st.row)] # Null
      THEN [st EXCEPT !.row = Append(@, old[Len(@)]), !.off = d.off]
    ELSE [st EXCEPT !.bad = TRUE]

\* A dropped column is walked over; a pointer without chunks takes the value
\* the row had before.
TakeValue(st, col, d, old) ==
    IF d = Bad THEN [st EXCEPT !.bad = TRUE]
    ELSE IF ~col.live THEN [st EXCEPT !.off = d.off]
    ELSE IF d.v # Unresolved THEN [st EXCEPT !.row = Append(@, d.v), !.off = d.off]
    ELSE IF Len(st.row) < Len(old) /\ old[Len(st.row) + 1] # Null
      THEN [st EXCEPT !.row = Append(@, old[Len(@) + 1]), !.off = d.off]
    ELSE [st EXCEPT !.bad = TRUE]

\* One physical column.
DecodeColumn(st, col, isNull, data, toast, old) ==
    IF isNull THEN [st EXCEPT !.row = IF col.live THEN Append(@, Null) ELSE @]
    ELSE IF ~col.live /\ col.len >= 0 THEN [st EXCEPT !.off = align_to(@, col.align) + col.len]
    ELSE TakeValue(st, col, IF col.live THEN decode_value(data, st.off, col, toast)
                            ELSE ReadValue(data, st.off, col, toast), old)

Whole(st, data) == IF st.bad THEN Bad ELSE [row |-> st.row, attrs |-> data]

\* A clear bit of the bitmap.
IsNull(tuple, i) == ((i - 1) % BitsPerByte) \notin tuple[(i - 1) \div BitsPerByte + 1][2]

DecodeStart == [row |-> <<>>, off |-> 0, bad |-> FALSE]

\* Columns the tuple does not have were added later.
NextColumn(st, i, tuple, natts, nulls, data, cols, toast, old) ==
    IF st.bad THEN st
    ELSE IF i > natts THEN [st EXCEPT !.row = IF cols[i].live THEN Append(@, Null) ELSE @]
    ELSE DecodeColumn(st, cols[i], nulls /\ IsNull(tuple, i), data, toast, old)

DecodeColumns(tuple, natts, nulls, data, cols, toast, old) ==
    LET after[i \in 0 .. Len(cols)] ==
            IF i = 0 THEN DecodeStart
            ELSE NextColumn(after[i - 1], i, tuple, natts, nulls, data, cols, toast, old)
    IN  after[Len(cols)]

\* old is the previous version's row, <<>> when there is none.
decode_tuple_payload(tuple, natts, nulls, hoff, cols, toast, old) ==
    LET bits == hoff - HeapHeader
        data == SubSeq(tuple, bits + 1, Len(tuple))
    IN  IF natts > Len(cols) THEN SchemaDrift
        ELSE IF bits < 0 \/ Len(tuple) < bits THEN Bad
        ELSE Whole(DecodeColumns(tuple, natts, nulls, data, cols, toast, old), data)

wal_heap_header(b, neon) ==
    LET len == IF neon THEN 9 ELSE 5
    IN  IF Len(b) < len THEN Bad
        ELSE [natts |-> b[1][2], nulls |-> b[3][2], hoff |-> b[len][2], len |-> len]

decode_insert_tuple(b, cols, toast, neon) ==
    LET h == wal_heap_header(b, neon)
    IN  IF h = Bad THEN Bad
        ELSE decode_tuple_payload(SubSeq(b, h.len + 1, Len(b)), h.natts, h.nulls, h.hoff, cols, toast, <<>>)

\* tuple_on_page finds the same masks and t_hoff in the on-disk header.
OnPage(cols, t) ==
    [i \in 1 .. HeapHeader |-> CASE i = 19 -> Num(Len(t)) [] i = 21 -> <<"hasnull", HasNulls(t)>>
                                 [] i = 23 -> Num(THoff(t)) [] OTHER -> Zero] \o Payload(cols, t)
decode_tuple_from_page(tuple, cols, toast) ==
    IF Len(tuple) < HeapHeader THEN Bad
    ELSE decode_tuple_payload(SubSeq(tuple, HeapHeader + 1, Len(tuple)), tuple[19][2], tuple[21][2],
                              tuple[23][2], cols, toast, <<>>)

\* Block data of a MULTI INSERT: each tuple 2-byte aligned behind its header.
MultiTuple(buf, cols, t) ==
    buf \o Filler(align_to(Len(buf), 2) - Len(buf)) \o
    [i \in 1 .. MultiHeader |->
        CASE i = 1 -> Num(Len(Payload(cols, t))) [] i = 3 -> Num(Len(t))
          [] i = 5 -> <<"hasnull", HasNulls(t)>> [] i = 7 -> Num(THoff(t)) [] OTHER -> Zero]
    \o Payload(cols, t)

MultiData(cols, ts) ==
    LET upto[k \in 0 .. Len(ts)] ==
            IF k = 0 THEN <<>> ELSE MultiTuple(upto[k - 1], cols, ts[k])
    IN  upto[Len(ts)]

NextTuple(st, b, cols, toast) ==
    LET off == align_to(st.off, 2)
        len == b[off + 1][2]
        body == off + MultiHeader
    IN  IF st.bad \/ body > Len(b) THEN [st EXCEPT !.bad = TRUE]
        ELSE IF body + len > Len(b) THEN [st EXCEPT !.bad = TRUE]
        ELSE [st EXCEPT !.off = body + len,
                        !.out = Append(@, decode_tuple_payload(Slice(b, body, len), b[off + 3][2],
                                           b[off + 5][2], b[off + 7][2], cols, toast, <<>>))]

MultiStart == [off |-> 0, out |-> <<>>, bad |-> FALSE]

decode_multi_insert(b, ntuples, cols, toast) ==
    LET after[k \in 0 .. ntuples] ==
            IF k = 0 THEN MultiStart ELSE NextTuple(after[k - 1], b, cols, toast)
    IN  IF after[ntuples].bad THEN <<Bad>> ELSE after[ntuples].out

\* Block data of an UPDATE that shares p and s bytes with the old version.
UpdateData(cols, t, p, s, neon) ==
    LET a == Attrs(cols, t)
    IN  (IF p > 0 THEN <<Num(p), Zero>> ELSE <<>>) \o (IF s > 0 THEN <<Num(s), Zero>> ELSE <<>>)
        \o WalHeader(t, neon) \o Bitmap(t) \o SubSeq(a, p + 1, Len(a) - s)

\* Bitmap, prefix of the old attributes, the bytes logged, suffix of the old.
UpdatePayload(b, off, bits, prefix, suffix, old) ==
    SubSeq(b, off + 1, off + bits) \o SubSeq(old, 1, prefix)
    \o SubSeq(b, off + bits + 1, Len(b)) \o SubSeq(old, Len(old) - suffix + 1, Len(old))

NoAttrs == << <<"none">> >>

decode_update_new_tuple(b, hasPrefix, hasSuffix, old, cols, toast, neon) ==
    LET prefix == IF hasPrefix THEN b[1][2] ELSE 0
        suffix == IF hasSuffix THEN b[IF hasPrefix THEN 3 ELSE 1][2] ELSE 0
        skip == (IF hasPrefix THEN 2 ELSE 0) + (IF hasSuffix THEN 2 ELSE 0)
        h == wal_heap_header(SubSeq(b, skip + 1, Len(b)), neon)
        off == skip + h.len
        payload == IF prefix + suffix = 0 THEN SubSeq(b, off + 1, Len(b))
                   ELSE UpdatePayload(b, off, h.hoff - HeapHeader, prefix, suffix, old.attrs)
    IN  IF h = Bad THEN Bad
        ELSE IF prefix + suffix > (IF old.attrs = NoAttrs THEN 0 ELSE Len(old.attrs)) THEN Bad
        ELSE decode_tuple_payload(payload, h.natts, h.nulls, h.hoff, cols, toast, old.row)

\* Fixed-width values are not aligned.
MutEncodeValue(buf, col, v) ==
    IF col.len < 0 THEN buf \o << <<"short", Len(v) + 1>> >> \o v ELSE buf \o v

EncodeValue(buf, col, v) ==
    IF col.len < 0 THEN buf \o << <<"short", Len(v) + 1>> >> \o v
    ELSE buf \o Filler(align_to(Len(buf), col.align) - Len(buf)) \o v

LiveCols(cols) ==
    LET upto[i \in 0 .. Len(cols)] ==
            IF i = 0 THEN <<>> ELSE IF cols[i].live THEN Append(upto[i - 1], cols[i]) ELSE upto[i - 1]
    IN  upto[Len(cols)]

EncodeStep(buf, col, value) ==
    LET b == from_value(col, value.v)
    IN  IF buf = NoAttrs \/ value = Null THEN buf
        ELSE IF b = Error \/ (col.len < 0 /\ Len(b) > ShortMax) THEN NoAttrs
        ELSE EncodeValue(buf, col, b)

EncodeRow(row, live) ==
    LET made[i \in 0 .. Len(live)] == IF i = 0 THEN <<>> ELSE EncodeStep(made[i - 1], live[i], row[i])
    IN  made[Len(live)]

\* Pre-image bytes made up from a row; None when a value is too long for the
\* short form or has no way back.  It goes by the live columns: dropped ones
\* leave no bytes.
encode_attrs(row, cols) == EncodeRow(row, LiveCols(cols))

-----------------------------------------------------------------------------
(* The life of a row                                                       *)

NoTuple == << >>
Absent == [row |-> <<>>, attrs |-> NoAttrs]

\* The tuples of a table; those written before the last column was added are
\* shorter.
TuplesOf(cols, n) ==
    {t \in [1 .. n -> UNION {AttrChoices(cols[i]) : i \in DOMAIN cols}] :
        \A i \in 1 .. n : t[i] \in AttrChoices(cols[i])}
Tuples == [cols \in Layouts |-> TuplesOf(cols, Len(cols)) \cup TuplesOf(cols, Len(cols) - 1)]
AttrsOf == [cols \in Layouts |-> {Attrs(cols, t) : t \in Tuples[cols]}]

\* The versions an UPDATE may write; dropped columns become NULL.
NewVersions ==
    [p \in Layouts |-> {u \in Tuples[p] : /\ Len(u) = Len(p)
                                          /\ \A i \in DOMAIN u : ~p[i].live => u[i] = NullAttr}]

ExternalOf(t) == {ValueId(i, t[i]) : i \in {j \in DOMAIN t : t[j].form \in External}}

\* Out-of-line values an UPDATE from t to u leaves alone: no chunks are logged.
Kept(t, u) == ExternalOf(t) \cap ExternalOf(u)
Logged(t, u) == ExternalOf(u) \ Kept(t, u)

\* How much of two attribute areas is equal from the front.
Shared(a, b) == Max({0} \cup {n \in 1 .. Min({Len(a), Len(b)}) : SubSeq(a, 1, n) = SubSeq(b, 1, n)})

\* The same from the back, with the first p bytes taken.
SharedEnd(o, a, p) == Min({Shared(Reverse(o), Reverse(a)), Len(a) - p, Len(o) - p})

\* A change that cannot be decoded is noted and dropped.
Decoded(d) == IF d \in {Bad, SchemaDrift} THEN Absent ELSE d

InitRow == phys \in Layouts /\ cur = NoTuple /\ known = Absent /\ lost = FALSE
           /\ imaged = FALSE /\ blind = FALSE

\* INSERT, MULTI INSERT, a full-page image: the record has the whole tuple.
\* all: every chunk of its out-of-line values was seen.
InsertRow(t, path, all) ==
    LET toast == Cached(ExternalOf(t), all)
        neon  == path = "neon"
        b     == WalHeader(t, neon) \o Payload(phys, t)
        early == SubSeq(phys, 1, Len(t) - 1)
    IN  /\ path = "early" => Len(t) > 1
        /\ cur' = t
        /\ known' = Decoded(
               CASE path \in {"wal", "neon"} -> decode_insert_tuple(b, phys, toast, neon)
                 [] path = "early" -> decode_insert_tuple(b, early, toast, neon)
                 [] path = "multi" -> decode_multi_insert(MultiData(phys, <<t, t>>), 2, phys, toast)[2]
                 [] path = "image" -> decode_tuple_from_page(OnPage(phys, t), phys, toast))
        /\ lost' = (path = "early" \/ (~all /\ ExternalOf(t) # {}))
        /\ UNCHANGED <<phys, imaged, blind>>

\* UPDATE: the record leaves out p and s bytes it shares with the old version.
\* A value none of whose chunks was seen is taken from the old row; with some
\* of them, the record is refused.
UpdateRow(u, p, s, seen) ==
    LET missed == IF seen = "all" THEN {} ELSE Logged(cur, u)
        toast == IF seen = "none" THEN << >> ELSE Cached(Logged(cur, u), seen = "all")
    IN  /\ cur' = u
        /\ known' = Decoded(decode_update_new_tuple(UpdateData(phys, u, p, s, FALSE), p > 0, s > 0,
                                                    known, phys, toast, FALSE))
        /\ lost' = \/ p + s > 0 /\ known.attrs = NoAttrs
                   \/ missed # {}
                   \/ Kept(cur, u) # {} /\ known = Absent
        /\ imaged' = FALSE
        /\ blind' = (blind \/ seen = "none")
        /\ UNCHANGED phys

\* UPDATE logged as a full-page image: the old row is not consulted, even for
\* a value the record leaves alone.
UpdateImage(u) ==
    /\ cur' = u
    /\ known' = Decoded(decode_tuple_from_page(OnPage(phys, u), phys, Cached(Logged(cur, u), TRUE)))
    /\ lost' = (Kept(cur, u) # {} /\ known = Absent)
    /\ imaged' = (Kept(cur, u) # {} /\ known # Absent)
    /\ UNCHANGED <<phys, blind>>

\* Whether what encode_attrs makes up can be what is on the page.
Plain(p, t) ==
    \A i \in DOMAIN t :
        /\ ~p[i].live => t[i] = NullAttr
        /\ t[i].form \in {"null", "fixed", "short", "long"}
        /\ t[i].form # "null" => from_value(p[i], to_value(p[i], t[i].v)) = t[i].v

\* resume_tables: attribute bytes are made up from the row; where they cannot
\* be they are what the page has now at the row's ctid: nothing, this tuple,
\* or one that has taken its place since (the page is ahead of the replay).
Restart(page) ==
    LET made == encode_attrs(known.row, phys)
        own  == Attrs(phys, cur)
    IN  /\ known' = [known EXCEPT !.attrs = IF made = NoAttrs THEN page ELSE made]
        /\ blind' = (blind \/ IF made = NoAttrs THEN page \notin {NoAttrs, own}
                              ELSE ~Plain(phys, cur))
        /\ UNCHANGED <<phys, cur, lost, imaged>>

NextRow ==
    \/ /\ cur = NoTuple
       /\ \E t \in Tuples[phys], path \in {"wal", "neon", "multi", "image", "early"}, all \in BOOLEAN :
            InsertRow(t, path, all)
    \/ /\ cur # NoTuple
       /\ \E u \in NewVersions[phys] :
            \/ \E p \in {0, Shared(Attrs(phys, cur), Attrs(phys, u))} :
               \E s \in {0, SharedEnd(Attrs(phys, cur), Attrs(phys, u), p)} :
               \E seen \in IF Logged(cur, u) = {} THEN {"all"} ELSE {"all", "some", "none"} :
                 UpdateRow(u, p, s, seen)
            \/ UpdateImage(u)
    \/ /\ known # Absent
       /\ \E page \in {NoAttrs} \cup AttrsOf[phys] : Restart(page)

RowSpec == InitRow /\ [][NextRow]_rowVars

-----------------------------------------------------------------------------
\* handle_record, handle_update, decode_tuple_payload: what the engine knows
\* of a row is what the source has, column by column - however its bytes are
\* padded, compressed, cut into chunks or left out, through any sequence of
\* updates and restarts - unless it holds a guess: bytes made up for a tuple
\* that encode_attrs cannot reproduce (dropped or compressed columns, numerics
\* in the short form, text that is no UTF-8), bytes of another tuple read from
\* a page ahead of the replay, or an out-of-line value whose chunks were all
\* missed.
RowExact == cur # NoTuple /\ known # Absent /\ ~blind => known.row = RowOf(phys, cur)

\* decode_update_new_tuple, encode_attrs and resume_tables: the attribute bytes
\* kept for the next UPDATE are those on the page, or none are kept, unless
\* they are one of the guesses above.
BytesExact == ~blind => known.attrs \in {NoAttrs, Attrs(phys, cur)}

\* note_decode_error: a change is dropped only if something it needs is gone
\* (chunks, the previous version's row or bytes, the definition of a new
\* column), if the row before it held a guess, or if it is an UPDATE logged as
\* an image that leaves an out-of-line value alone.
NoneDropped == cur # NoTuple /\ ~lost /\ ~imaged /\ ~blind => known # Absent

\* What comments of the code say and the code does not keep (no theorem):

\* encode_attrs (heap.rs:376-380): bytes made up from a row are those on the
\* page; None is returned when they would not be.
MadeUpFaithful ==
    known # Absent /\ known.row = RowOf(phys, cur) =>
        encode_attrs(known.row, phys) \in {NoAttrs, Attrs(phys, cur)}

\* decode_tuple_payload (heap.rs:532-534): a value that an UPDATE
\* leaves alone is taken from the previous version, so an UPDATE of a row the
\* engine knows is decoded, logged as an image or not.
ImageTakesOld == cur # NoTuple /\ ~lost /\ ~blind => known # Absent

=============================================================================
