----------------------------- MODULE MCWalReader -----------------------------
(***************************************************************************)
(* The instance of WalReader that TLC checks: four kinds of records, from  *)
(* a COMMIT without blocks to an UPDATE over two pages with a compressed   *)
(* full-page image; and four tables for HeapTuple, with a dropped column   *)
(* of either kind and every conversion.  The two share no variable: a      *)
(* behaviour reads a stream or follows a row.                              *)
(***************************************************************************)
EXTENDS WalReader, HeapTuple

NoImage(id, rel, same, data) ==
    [id |-> id, rel |-> rel, same |-> same, blkno |-> 7, data |-> data, image |-> Null]

WithImage(packed) ==
    [id |-> 0, rel |-> "r", same |-> FALSE, blkno |-> 7, data |-> <<>>,
     image |-> [page |-> Page("v", 1, 1), off |-> 1, hole |-> 1, packed |-> packed]]

D(x) == <<"byte", x>>

MCShapes ==
    {[id |-> "commit", blocks |-> <<>>, extras |-> << <<"topxid">> >>, main |-> <<D(1), D(2), D(3)>>],
     [id |-> "insert", blocks |-> <<NoImage(0, "r", FALSE, <<D(4)>>)>>, extras |-> <<>>, main |-> <<D(5)>>],
     [id |-> "update",
      blocks |-> <<WithImage(TRUE), NoImage(1, "r", TRUE, <<D(6), D(7)>>)>>,
      extras |-> << <<"origin">> >>, main |-> <<D(8)>>],
     [id |-> "image", blocks |-> <<WithImage(FALSE)>>, extras |-> <<>>, main |-> <<>>]}

Fixed(n, live) == [len |-> n, align |-> n, live |-> live, type |-> "exact"]
Varlena(type, live) == [len |-> -1, align |-> 4, live |-> live, type |-> type]
Text(live) == Varlena("text", live)

MCLayouts ==
    {<<Fixed(1, TRUE), Text(TRUE), Fixed(4, TRUE)>>,
     <<Text(TRUE), Fixed(4, FALSE), Fixed(2, TRUE)>>,
     <<Fixed(1, TRUE), Text(FALSE), Text(TRUE)>>,
     <<Varlena("numeric", TRUE), Fixed(2, TRUE), Varlena("jsonb", TRUE)>>}

Bytes(x, n) == [i \in 1 .. n |-> <<"byte", x, i>>]

\* Copies that overlap what they produce, that just fit the tag byte and that
\* need the extension byte, over several control bytes.
ItemSeqs ==
    LET x == Literal(<<"byte", "x">>)
        y == Literal(<<"byte", "y">>)
    IN  {<<x, y, Copy(2, 3 + MaxNibble)>>, <<x, y, Copy(1, 4 + MaxNibble), x, Copy(2, 3)>>}

TextChoices ==
    {Attr("short", <<>>), Attr("short", Bytes("c", ShortMax)), Attr("short", << <<"raw", 1>> >>),
     Attr("long", Bytes("d", ShortMax + 1)), Attr("lz4", Bytes("f", 9)),
     Attr("external", Bytes("g", 4)), Attr("external lz4", Bytes("h", 9)),
     PackedAttr("external pglz", <<Literal(<<"byte", "z">>), Copy(1, 10 + MaxNibble)>>)}
    \cup {PackedAttr("pglz", items) : items \in ItemSeqs}

\* Numbers of at most one digit: the short form wherever it is wide enough.
NumericChoices ==
    {Attr("short", NumericBytes(kind[1], kind[2], kind[3])) :
        kind \in {<<"short", 1, Bytes("n", 2)>>, <<"short", 0, <<>> >>,
                  <<"long", 99, Bytes("n", 2)>>, <<"special", "NaN", <<>> >>}}

JsonbChoices == {Attr("short", Bytes("j", 4)), Attr("external", Bytes("k", 5))}

MCAttrChoices(col) ==
    {NullAttr} \cup
    IF col.len >= 0 THEN {Attr("fixed", Bytes(x, col.len)) : x \in {"a", "b"}}
    ELSE CASE ~col.live -> {a \in TextChoices : a.form \in {"long", "lz4", "external"}}
           [] col.type = "numeric" -> NumericChoices
           [] col.type = "jsonb" -> JsonbChoices
           [] OTHER -> TextChoices

NoTable == phys = <<>> /\ cur = NoTuple /\ known = Absent /\ lost = FALSE /\ imaged = FALSE
           /\ blind = FALSE
AnyStream == CHOOSE s \in [1 .. NRecords -> Shapes] : TRUE

MCInit ==
    \/ Init /\ NoTable
    \/ stream = AnyStream /\ switch = 0 /\ magic = TRUE /\ start = 0 /\ Init /\ InitRow

MCNext ==
    \/ phys = <<>> /\ Next /\ UNCHANGED rowVars
    \/ phys # <<>> /\ NextRow /\ UNCHANGED vars

\* A row that holds a guess is not followed further.
NoGuess == ~blind

MCSpec == MCInit /\ [][MCNext]_<<vars, rowVars>>
=============================================================================
