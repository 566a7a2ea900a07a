------------------------------ MODULE WalRecord ------------------------------
(***************************************************************************)
(* One WAL record: what Postgres puts into it and how parse_record and     *)
(* PageImage::restore take it apart (wal/mod.rs).  The fields a Cursor     *)
(* reads together are one token; a data or image byte is one token each.   *)
(***************************************************************************)
EXTENDS Naturals, Sequences

CONSTANTS
    RecHdr,    \* tokens of the fixed record header
    LenField,  \* of these, the ones that hold xl_tot_len
    BlckSz     \* cells of a heap page

ASSUME WalRecordAssumption ==
    /\ RecHdr \in Nat /\ LenField \in Nat \ {0} /\ LenField < RecHdr /\ BlckSz \in Nat

Zero == <<"zero">>
Null == [none |-> TRUE]
Error == << <<"error">> >>

\* A heap page with its pd_lower..pd_upper hole.
Page(v, off, len) ==
    [c \in 1 .. BlckSz |-> IF c > off /\ c <= off + len THEN Zero ELSE <<"cell", v, c>>]

-----------------------------------------------------------------------------
\* The writer (Postgres): a record is [id, blocks, main, extras]; a block is
\* [id, rel, same, blkno, data, image], an image [page, off, hole, packed].

Body(img) == SubSeq(img.page, 1, img.off) \o SubSeq(img.page, img.off + img.hole + 1, BlckSz)
ImageData(img) == IF img.packed THEN << <<"packed", Body(img)>> >> ELSE Body(img)

BlockHeader(b) ==
    << <<"block", b.id, b.image # Null, b.data # <<>>, b.same, Len(b.data)>> >>
    \o (IF b.image = Null THEN <<>>
        ELSE << <<"imghdr", Len(ImageData(b.image)), b.image.off, b.image.hole > 0, b.image.packed>> >>
             \o (IF b.image.packed /\ b.image.hole > 0 THEN << <<"hole", b.image.hole>> >> ELSE <<>>))
    \o (IF b.same THEN <<>> ELSE << <<"rel", b.rel>> >>)
    \o << <<"blkno", b.blkno>> >>

BlockPayload(b) == (IF b.image = Null THEN <<>> ELSE ImageData(b.image)) \o b.data

Join(F(_), s) ==
    LET J[k \in 0 .. Len(s)] == IF k = 0 THEN <<>> ELSE J[k - 1] \o F(s[k]) IN J[Len(s)]

Content(r) ==
    Join(BlockHeader, r.blocks) \o r.extras
    \o (IF r.main = <<>> THEN <<>> ELSE << <<"main", Len(r.main)>> >>)
    \o Join(BlockPayload, r.blocks) \o r.main

TotLen(r) == RecHdr + Len(Content(r))

Encode(r) ==
    [k \in 1 .. RecHdr |-> IF k <= LenField THEN <<"len", TotLen(r), k>> ELSE <<"fixed", r.id>>]
    \o Content(r)

\* What Postgres assembles: a page image is a whole page whose hole is zero,
\* and a block marked `same` follows one of the same relation.
IsSeq(s) == s \in Seq({s[k] : k \in DOMAIN s})

IsImage(img) ==
    /\ IsSeq(img.page) /\ Len(img.page) = BlckSz
    /\ img.off \in Nat /\ img.hole \in Nat /\ img.off + img.hole <= BlckSz
    /\ \A c \in img.off + 1 .. img.off + img.hole : img.page[c] = Zero
    /\ img.packed \in BOOLEAN

IsBlock(b) ==
    /\ IsSeq(b.data) /\ b.same \in BOOLEAN
    /\ b.image = Null \/ IsImage(b.image)

WellFormed(r) ==
    /\ IsSeq(r.blocks) /\ IsSeq(r.main)
    /\ r.extras \in Seq({<<"origin">>, <<"topxid">>})
    /\ \A k \in DOMAIN r.blocks :
          /\ IsBlock(r.blocks[k])
          /\ r.blocks[k].same => k > 1 /\ r.blocks[k - 1].rel = r.blocks[k].rel

-----------------------------------------------------------------------------
\* parse_record: headers are read while more bytes remain than the data
\* announced so far; then the data section, block by block, then main data.

\* State of the header loop: c.off, the blocks, main_len, datatotal, prev_rel.
HeaderStart == [off |-> RecHdr, blocks |-> <<>>, main |-> 0, total |-> 0, rel |-> Null]

\* One block header: the optional parts follow the flags.
TakeBlock(rec, s) ==
    LET t == rec[s.off + 1]
        hasImage == t[3]
        img == IF hasImage THEN rec[s.off + 2] ELSE Null
        explicit == hasImage /\ img[4] /\ img[5]
        afterImg == s.off + 1 + (IF hasImage THEN 1 ELSE 0) + (IF explicit THEN 1 ELSE 0)
        hole == IF ~hasImage \/ ~img[4] THEN 0
                ELSE IF explicit THEN rec[s.off + 3][2] ELSE BlckSz - img[2]
        same == t[5]
        rel == IF same THEN s.rel ELSE rec[afterImg + 1][2]
        afterRel == afterImg + (IF same THEN 0 ELSE 1)
    IN [off |-> afterRel + 1,
        blocks |-> Append(s.blocks,
            [id |-> t[2], rel |-> rel, blkno |-> rec[afterRel + 1][2],
             hasImage |-> hasImage, imageLen |-> IF hasImage THEN img[2] ELSE 0,
             off |-> IF hasImage THEN img[3] ELSE 0, hole |-> hole,
             packed |-> hasImage /\ img[5],
             dataLen |-> IF t[4] THEN t[6] ELSE 0]),
        main |-> s.main,
        total |-> s.total + (IF hasImage THEN img[2] ELSE 0) + (IF t[4] THEN t[6] ELSE 0),
        rel |-> rel]

TakeItem(rec, s) ==
    LET t == rec[s.off + 1] IN
    CASE t[1] = "block" -> TakeBlock(rec, s)
      [] t[1] = "main" -> [s EXCEPT !.off = @ + 1, !.main = t[2], !.total = @ + t[2]]
      [] t[1] \in {"origin", "topxid"} -> [s EXCEPT !.off = @ + 1]

\* While remaining() > datatotal; at most one round per token.
Headers(rec) ==
    LET H[k \in 0 .. Len(rec)] ==
            IF k = 0 THEN HeaderStart
            ELSE LET s == H[k - 1]
                 IN IF Len(rec) - s.off > s.total THEN TakeItem(rec, s) ELSE s
    IN H[Len(rec)]

MutRestore(body, off, hole) ==
    IF Len(body) + hole # BlckSz \/ off + hole > BlckSz THEN Error
    ELSE SubSeq(body, 1, off) \o SubSeq(body, off + 1, Len(body)) \o [k \in 1 .. hole |-> Zero]

\* PageImage::restore after decompression: put the hole back.
Restore(body, off, hole) ==
    IF Len(body) + hole # BlckSz \/ off + hole > BlckSz THEN Error
    ELSE SubSeq(body, 1, off) \o [k \in 1 .. hole |-> Zero] \o SubSeq(body, off + 1, Len(body))

\* Decompression yields the bytes that were packed if their number is right.
Unpack(data, packed, raw) ==
    IF ~packed THEN data
    ELSE IF Len(data[1][2]) = raw THEN data[1][2] ELSE <<>>

\* Where the payload of header block k starts: payloads are in header order.
PayloadAt(h, k) ==
    LET P[j \in 1 .. k] ==
            IF j = 1 THEN h.off ELSE P[j - 1] + h.blocks[j - 1].imageLen + h.blocks[j - 1].dataLen
    IN P[k]

ParseBlock(rec, h, k) ==
    LET b == h.blocks[k]
        at == PayloadAt(h, k)
        image == SubSeq(rec, at + 1, at + b.imageLen)
    IN [id |-> b.id, rel |-> b.rel, blkno |-> b.blkno,
        data |-> SubSeq(rec, at + b.imageLen + 1, at + b.imageLen + b.dataLen),
        page |-> IF b.hasImage
                 THEN Restore(Unpack(image, b.packed, BlckSz - b.hole), b.off, b.hole) ELSE Null]

ParseRecord(rec) ==
    LET h == Headers(rec)
        n == Len(h.blocks)
        mainAt == IF n = 0 THEN h.off
                  ELSE PayloadAt(h, n) + h.blocks[n].imageLen + h.blocks[n].dataLen
    IN [id |-> rec[RecHdr][2],
        blocks |-> [k \in 1 .. n |-> ParseBlock(rec, h, k)],
        main |-> SubSeq(rec, mainAt + 1, mainAt + h.main)]

\* What the reader of record r is entitled to see.
Meaning(r) ==
    [id |-> r.id,
     blocks |-> [k \in 1 .. Len(r.blocks) |->
        [id |-> r.blocks[k].id, rel |-> r.blocks[k].rel, blkno |-> r.blocks[k].blkno,
         data |-> r.blocks[k].data,
         page |-> IF r.blocks[k].image = Null THEN Null ELSE r.blocks[k].image.page]],
     main |-> r.main]
=============================================================================
