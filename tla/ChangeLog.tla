----------------------------- MODULE ChangeLog -----------------------------
(***************************************************************************)
(* What the rows of the lake say.  One table of the source, its Delta      *)
(* change log, the in-memory mirror that supplies the pre-images the WAL   *)
(* leaves out, and the remap that replaces the table's contents when its   *)
(* relfilenode changes (engine.rs, txbuf.rs, sink.rs) - driven by the wire *)
(* stream of main.rs or by the in-process events of embed.rs.              *)
(*                                                                         *)
(* A row is a key and a version (the index of the record that wrote it).   *)
(* UPDATE and DELETE records do not carry the key: it comes from the       *)
(* pre-image.  Readers merge by key, latest (lsn, seq) first.  Watermarks, *)
(* TOAST and subtransactions across tables are module Transcoder's.        *)
(***************************************************************************)
EXTENDS Integers, Sequences, FiniteSets, SequencesExt

CONSTANTS
    Keys, Ctids, Xids,
    None,        \* no key, no ctid, no transaction
    Modes,       \* the drivers explored: TRUE is embed.rs, FALSE is main.rs
    PageSlack,   \* records that page-aligning the start LSN may reach back
    MaxRecords,  \* bound: WAL records under the wire driver
    MaxEmbedded, \* bound: WAL records under the embedded one
    MaxDdl,      \* bound: schema changes
    MaxFaults    \* bound: crashes of the transcoder and losses of the tee

ASSUME ChangeLogAssumption ==
    /\ Modes \subseteq BOOLEAN /\ Modes # {}
    /\ {PageSlack, MaxRecords, MaxEmbedded, MaxDdl, MaxFaults} \subseteq Nat
    /\ None \notin Keys \cup Ctids \cup Xids

VARIABLES
    \* the source
    wal,       \* its records; the index of a record stands for its place
    rows,      \* ctid |-> the tuple there, with its inserter and deleter
    cat,       \* committed catalog: the table's relfilenode and columns
    ddl,       \* the transaction that is changing the table, if any
    ddls,      \* schema changes so far
    hist,      \* history: hist[n + 1] is what is committed after n records
    \* the Delta table
    lake,
    \* the process
    embedded,  \* which driver feeds it
    pc,        \* what it is doing
    pos,       \* records handled
    tx,        \* TxBuffer: xid |-> buffered ops
    suspects,  \* smgr_suspects: transactions with DDL in flight
    remapAt,   \* remap_at: LSN of a DDL commit awaiting its check (0: none)
    lastCommit,\* last_commit_lsn
    desc,      \* the catalog entry the table is decoded and routed by
    mirror,    \* ctid |-> row
    dedupe,    \* dedupe_below
    needs,     \* needs_resnapshot
    pending, maxCommit, seq,   \* PendingBatch
    job,       \* the re-snapshot under way
    faults,
    sound      \* history: none of the hazards marked below has struck

source == <<wal, rows, cat, ddl, ddls, hist>>
batch == <<pending, maxCommit, seq>>
stream == <<pos, tx, suspects, remapAt, lastCommit>>
table == <<desc, mirror, dedupe, needs>>
vars == <<source, lake, embedded, pc, stream, table, batch, job, faults, sound>>

Row == [key : Keys \cup {None}, val : Nat]
NoRow == [key |-> None, val |-> 0]
Free == [key |-> None, val |-> 0, ins |-> None, del |-> None]
Cat == [node : Nat, cols : Nat]
NoDdl == [xid |-> None, saved |-> <<>>, cat |-> [node |-> 0, cols |-> 0]]
Empty == [c \in Ctids |-> NoRow]
NoJob == [restart |-> 0, kind |-> "none"]

-----------------------------------------------------------------------------
(* LSNs.  Records are 8-byte aligned.  The wire reader names a record by   *)
(* its first byte, the embedded source by the byte after its last one.     *)

Lsn(i) == 8 * (IF embedded THEN i + 1 ELSE i)
InsertLsn == 8 * (Len(wal) + 1)
\* The number of records whose commits an LSN covers.
Upto(l) == LET n == l \div 8 - (IF embedded THEN 1 ELSE 0)
           IN  IF n > Len(wal) THEN Len(wal) ELSE n

-----------------------------------------------------------------------------
(* The source database                                                     *)

RowAt(s) == IF s.ins = None /\ s.key # None THEN [key |-> s.key, val |-> s.val] ELSE NoRow
Committed(rs) == [c \in Ctids |-> RowAt(rs[c])]

Record(kind, x, old, c, k) ==
    [kind |-> kind, xid |-> x, old |-> old, ctid |-> c, key |-> k,
     cat |-> IF ddl.xid = x THEN ddl.cat ELSE cat]
Mark(kind, x) == Record(kind, x, None, None, None)

\* One more record; rs and ct are what is committed after it.
Log(r, rs, ct) ==
    /\ Len(wal) < IF embedded THEN MaxEmbedded ELSE MaxRecords
    /\ wal' = Append(wal, r)
    /\ hist' = Append(hist, [rows |-> Committed(rs), cat |-> ct])
    /\ UNCHANGED <<lake, embedded, pc, stream, table, batch, job, faults, sound>>

\* No transaction but x has changed the table and is still open.
Alone(x) == \A c \in Ctids : {rows[c].ins, rows[c].del} \subseteq {None, x}
Visible(x, c) == rows[c].key # None /\ rows[c].ins \in {None, x} /\ rows[c].del = None
\* While a schema change is open, others see the table as it was.
Outside(rs) == IF ddl.xid = None THEN rs ELSE ddl.saved

Change(x, r, rs) ==
    /\ ddl.xid \in {None, x}
    /\ rows' = rs
    /\ Log(r, Outside(rs), cat)
    /\ UNCHANGED <<cat, ddl, ddls>>

Insert(x, k, c) ==
    /\ rows[c] = Free
    /\ \A d \in Ctids : rows[d].key = k => rows[d].del = x
    /\ Change(x, Record("insert", x, None, c, k),
              [rows EXCEPT ![c] = [key |-> k, val |-> Len(wal) + 1, ins |-> x, del |-> None]])

Update(x, c, d) ==
    /\ Visible(x, c) /\ rows[d] = Free
    /\ Change(x, Record("update", x, c, d, None),
              [rows EXCEPT ![c].del = x,
                           ![d] = [key |-> rows[c].key, val |-> Len(wal) + 1,
                                   ins |-> x, del |-> None]])

Delete(x, c) ==
    /\ Visible(x, c)
    /\ Change(x, Record("delete", x, None, c, None), [rows EXCEPT ![c].del = x])

\* DDL takes the table for itself.  Its trace in the WAL is a relation file
\* created or a catalog row written, under the transaction's id.
Ddl(x, new, rs) ==
    /\ ddl.xid = None /\ Alone(x) /\ ddls < MaxDdl
    /\ ddls' = ddls + 1
    /\ ddl' = [xid |-> x, saved |-> rows, cat |-> new]
    /\ rows' = rs
    /\ Log(Mark("ddl", x), rows, cat)
    /\ UNCHANGED cat

Truncate(x) == Ddl(x, [cat EXCEPT !.node = @ + 1], [c \in Ctids |-> Free])

\* VACUUM FULL, CLUSTER: the rows stay and move.
Rewrite(x, move) ==
    Ddl(x, [cat EXCEPT !.node = @ + 1],
        [c \in Ctids |-> IF rows[move[c]].del = None THEN rows[move[c]] ELSE Free])

AddColumn(x) == Ddl(x, [cat EXCEPT !.cols = @ + 1], rows)

\* DDL on some other relation.
OtherDdl(x) ==
    /\ ddls < MaxDdl
    /\ ddls' = ddls + 1
    /\ Log(Mark("ddl", x), Outside(rows), cat)
    /\ UNCHANGED <<rows, cat, ddl>>

Ended(rs, x, commits) ==
    [c \in Ctids |->
       IF x = (IF commits THEN rs[c].del ELSE rs[c].ins) THEN Free
       ELSE [rs[c] EXCEPT !.ins = IF @ = x THEN None ELSE @,
                          !.del = IF @ = x THEN None ELSE @]]

\* The end of a transaction; a commit may be of one that wrote only other
\* tables.  Space left by dead tuples may be reused at once.
End(x, commits) ==
    LET mine == ddl.xid = x
        done == Ended(IF mine /\ ~commits THEN ddl.saved ELSE rows, x, commits)
        now  == IF mine /\ commits THEN ddl.cat ELSE cat
    IN  /\ commits \/ mine \/ \E c \in Ctids : x \in {rows[c].ins, rows[c].del}
        /\ rows' = done /\ cat' = now
        /\ ddl' = IF mine THEN NoDdl ELSE ddl
        /\ Log(Mark(IF commits THEN "commit" ELSE "abort", x),
               IF mine THEN done ELSE Outside(done), now)
        /\ UNCHANGED ddls

-----------------------------------------------------------------------------
(* The Delta table: a set of change rows and the watermarks of the last    *)
(* commit.  seq orders the entries of one LSN; the rows of a snapshot, and *)
(* the tombstones of a drained mirror, never compete and share one.        *)

Entry(l, s, del, c, r) == [lsn |-> l, seq |-> s, deleted |-> del, ctid |-> c, row |-> r]
Newer(e, f) == e.lsn > f.lsn \/ (e.lsn = f.lsn /\ e.seq > f.seq)
NoLake == [log |-> {}, commit |-> 0, restart |-> 0, node |-> 0]

append(es, commit, restart, n) ==
    [log |-> lake.log \cup es, commit |-> commit, restart |-> restart, node |-> n]

\* Latest entry of every primary key.
LatestByKey(log) ==
    {e \in log : \A f \in log : f.row.key = e.row.key => ~Newer(f, e)}
\* What a reader's merge returns.
View(log) == {e.row : e \in {f \in LatestByKey(log) : ~f.deleted}}

MutLoadMirror(log) ==
    LET oldest(c) == {e \in log : e.ctid = c /\ \A f \in log : f.ctid = c => ~Newer(e, f)}
    IN  [c \in Ctids |-> IF oldest(c) = {} THEN NoRow ELSE (CHOOSE e \in oldest(c) : TRUE).row]

\* load_mirror goes by ctid, not by key: versions an UPDATE superseded are
\* still under their old ctid and come back as if they were alive.
load_mirror(log) ==
    LET latest(c) == {e \in log : e.ctid = c /\ \A f \in log : f.ctid = c => ~Newer(f, e)}
        alive(c)  == {e \in latest(c) : ~e.deleted}
    IN  [c \in Ctids |-> IF alive(c) = {} THEN NoRow ELSE (CHOOSE e \in alive(c) : TRUE).row]

-----------------------------------------------------------------------------
(* Buffering and committing                                                *)

Op(kind, l, old, c, r) == [kind |-> kind, lsn |-> l, old |-> old, ctid |-> c, row |-> r]

\* A transaction's uncommitted version of the row at c: its last op there,
\* unless that op moved or removed the row.
overlay(x, c) ==
    LET touching == {i \in DOMAIN tx[x] : c \in {tx[x][i].old, tx[x][i].ctid}}
        last == tx[x][CHOOSE i \in touching : \A j \in touching : j <= i]
    IN  IF touching = {} \/ last.kind = "delete" \/ last.old = c THEN NoRow ELSE last.row

MutPreimage(c) == mirror[c]

\* txbuf.lookup over every open transaction, then the mirror.
preimage(c) ==
    LET found == {x \in Xids : overlay(x, c) # NoRow}
    IN  IF found = {} THEN mirror[c] ELSE overlay(CHOOSE x \in found : TRUE, c)

restart_lsn ==
    LET firsts == {tx[x][1].lsn : x \in {y \in Xids : tx[y] # <<>>}}
    IN  IF firsts = {} THEN lastCommit ELSE CHOOSE l \in firsts : \A m \in firsts : l <= m

\* The row a change record decodes to: an UPDATE's key is in its pre-image,
\* and so is all of a DELETE's row.
Decoded(r) ==
    CASE r.kind = "insert" -> [key |-> r.key, val |-> pos + 1]
      [] r.kind = "update" -> [key |-> preimage(r.old).key, val |-> pos + 1]
      [] r.kind = "delete" -> preimage(r.ctid)

\* The next record of the stream.  The embedded driver runs the catalog
\* check after every event, the wire driver after a chunk of records.
Reading(kinds) ==
    /\ pc = "run" /\ pos < Len(wal) /\ wal[pos + 1].kind \in kinds
    /\ embedded => remapAt = 0
    /\ pos' = pos + 1
    /\ UNCHANGED <<source, lake, embedded, pc, job, faults, sound>>

Changes == {"insert", "update", "delete"}

\* A change: buffered, dropped when it is another relation's or cannot be
\* decoded; a tuple with more columns than we know schedules a re-snapshot.
HandleChange ==
    LET r == wal[pos + 1]
        drift == r.kind # "delete" /\ r.cat.cols > desc.cols
        lost == r.kind = "update" /\ preimage(r.old) = NoRow
    IN  /\ Reading(Changes)
        /\ IF r.cat.node # desc.node THEN UNCHANGED <<tx, needs, remapAt>>
           ELSE IF drift
             THEN /\ needs' = TRUE
                  /\ remapAt' = IF remapAt = 0 THEN Lsn(pos + 1) ELSE remapAt
                  /\ UNCHANGED tx
           ELSE /\ tx' = IF lost THEN tx
                         ELSE [tx EXCEPT ![r.xid] =
                                 Append(@, Op(r.kind, Lsn(pos + 1), r.old, r.ctid, Decoded(r)))]
                /\ UNCHANGED <<needs, remapAt>>
        /\ UNCHANGED <<suspects, lastCommit, desc, mirror, dedupe, batch>>

HandleDdl ==
    /\ Reading({"ddl"})
    /\ suspects' = suspects \cup {wal[pos + 1].xid}
    /\ UNCHANGED <<tx, remapAt, lastCommit, table, batch>>

HandleAbort ==
    LET x == wal[pos + 1].xid
    IN  /\ Reading({"abort"})
        /\ tx' = [tx EXCEPT ![x] = <<>>]
        /\ suspects' = suspects \ {x}
        /\ UNCHANGED <<remapAt, lastCommit, table, batch>>

\* One committed op: the change row it emits and what it does to the mirror.
Emit(st, op) ==
    LET was == IF op.row # NoRow THEN op.row ELSE st.mirror[op.ctid]
        gone == op.kind = "delete"
        moved == IF op.kind = "update" THEN [st.mirror EXCEPT ![op.old] = NoRow] ELSE st.mirror
    IN  [mirror |-> [moved EXCEPT ![op.ctid] = IF gone THEN NoRow ELSE op.row],
         seq |-> st.seq + 1,
         out |-> st.out \cup {Entry(st.lsn, st.seq + 1, gone, op.ctid, IF gone THEN was ELSE op.row)},
         lsn |-> st.lsn]

MutHighest(ops, l) == maxCommit

\* max_commit_lsn after the rows of one commit were emitted.
Highest(ops, l) == IF Len(ops) = 0 THEN maxCommit ELSE Max({maxCommit, l})

HandleCommit ==
    LET x == wal[pos + 1].xid
        l == Lsn(pos + 1)
        ops == IF l <= dedupe THEN <<>> ELSE tx[x]
        after[k \in 0 .. Len(ops)] ==
            IF k = 0 THEN [mirror |-> mirror, seq |-> seq, out |-> pending, lsn |-> l]
            ELSE Emit(after[k - 1], ops[k])
        done == after[Len(ops)]
    IN  /\ Reading({"commit"})
        /\ lastCommit' = l
        /\ suspects' = suspects \ {x}
        /\ remapAt' = IF x \in suspects THEN l ELSE remapAt
        /\ tx' = [tx EXCEPT ![x] = <<>>]
        /\ mirror' = done.mirror /\ seq' = done.seq /\ pending' = done.out
        /\ maxCommit' = Highest(ops, l)
        /\ UNCHANGED <<desc, dedupe, needs>>

-----------------------------------------------------------------------------
(* Flushing and compaction                                                 *)

Flushed == IF pending = {} THEN lake ELSE append(pending, maxCommit, restart_lsn, desc.node)

flush_all ==
    /\ pc = "run" /\ remapAt = 0 /\ pending # {}
    /\ lake' = Flushed /\ pending' = {}
    /\ UNCHANGED <<source, embedded, pc, stream, table, maxCommit, seq, job, faults, sound>>

\* Right after a flush.  Superseded rows and tombstones go, watermarks stay.
compact ==
    LET kept == {e \in LatestByKey(lake.log) : ~e.deleted}
    IN  /\ pc = "run" /\ remapAt = 0 /\ pending = {} /\ lake.log # kept
        /\ lake' = [lake EXCEPT !.log = kept]
        /\ UNCHANGED <<source, embedded, pc, stream, table, batch, job, faults, sound>>

-----------------------------------------------------------------------------
(* Replacing the table's contents                                          *)

\* HAZARD: entries meant to supersede others must be newer than they are.
Supersedes(es, log) == \A e \in es, f \in log : e.row.key = f.row.key => Newer(e, f)

\* First half of remap_table: everything the mirror m holds is tombstoned at
\* LSN l and appended, with what was pending, under the filenode `stamp`.
remap_table(m, l, stamp, restart, kind) ==
    LET tombs == {Entry(l, seq + 1, TRUE, c, m[c]) : c \in {d \in Ctids : m[d] # NoRow}}
        top == IF tombs = {} THEN maxCommit ELSE Max({maxCommit, l})
        out == pending \cup tombs
    IN  /\ lake' = IF out = {} THEN lake ELSE append(out, top, restart, stamp)
        /\ maxCommit' = top /\ seq' = seq + 1 /\ pending' = {}
        /\ mirror' = Empty
        /\ pc' = "snapshot" /\ job' = [restart |-> restart, kind |-> kind]
        /\ sound' = (sound /\ Supersedes(tombs, lake.log \cup pending))

\* Where the stream starts for a restart LSN: at the page it lies in.
Starts(r) == {p \in 0 .. Len(wal) : p < r \div 8 /\ r \div 8 <= p + 1 + PageSlack}

Lockable == ddl.xid = None /\ Alone(None)
SnapshotRows == {c \in Ctids : Committed(rows)[c] # NoRow}
\* COPY returns the columns of now; the parser expects those of desc.
Parseable == cat.cols = desc.cols \/ SnapshotRows = {}

\* Second half, and the initial snapshot: under a lock that waits for every
\* open writer, the rows at a cutover LSN.
take ==
    LET initial == job.kind = "initial"
        s == IF initial THEN 0 ELSE seq + 1
        es == {Entry(InsertLsn, s, FALSE, c, Committed(rows)[c]) : c \in SnapshotRows}
    IN  /\ pc = "snapshot" /\ Lockable /\ Parseable
        /\ lake' = IF initial /\ es = {} THEN lake
                   ELSE append(es, InsertLsn, IF initial THEN InsertLsn ELSE job.restart, desc.node)
        /\ mirror' = Committed(rows) /\ dedupe' = InsertLsn
        /\ seq' = s
        /\ needs' = IF job.kind = "check" THEN FALSE ELSE needs
        /\ IF initial THEN lastCommit' = InsertLsn /\ pos' \in Starts(InsertLsn)
                      ELSE UNCHANGED <<lastCommit, pos>>
        /\ pc' = IF embedded /\ job.kind \in {"initial", "resume"} THEN "gap" ELSE "run"
        /\ job' = NoJob
        /\ sound' = (sound /\ Supersedes(es, lake.log))
        /\ UNCHANGED <<source, embedded, tx, suspects, remapAt, desc, pending, maxCommit, faults>>

\* remap_check: what is pending becomes durable first,
remap_check_flush ==
    /\ pc = "run" /\ remapAt # 0
    /\ lake' = Flushed /\ pending' = {}
    /\ pc' = "check"
    /\ UNCHANGED <<source, embedded, stream, table, maxCommit, seq, job, faults, sound>>

MutStamp == cat.node

\* The filenode of the tombstones' commit, which the next start will not
\* find in the catalog.
Stamp == IF cat.node # desc.node THEN desc.node ELSE 0

\* then the catalog is read as it is now.  A new filenode, or changes that
\* were dropped, replace the contents; new columns alone only change shape.
remap_check ==
    /\ pc = "check"
    /\ desc' = cat /\ remapAt' = 0
    /\ IF cat.node # desc.node \/ needs
         THEN remap_table(mirror, remapAt, Stamp, restart_lsn, "check")
         ELSE pc' = "run" /\ UNCHANGED <<lake, mirror, batch, job, sound>>
    /\ UNCHANGED <<source, embedded, pos, tx, suspects, lastCommit, dedupe, needs, faults>>

-----------------------------------------------------------------------------
(* Start, crash, and the embedded source                                   *)

\* open_tables and resume_tables.
resume ==
    /\ pc = "down"
    /\ desc' = cat
    /\ IF lake.restart = 0
         THEN /\ pc' = "snapshot" /\ job' = [restart |-> 0, kind |-> "initial"]
              /\ UNCHANGED <<lake, mirror, batch, sound, pos, lastCommit, dedupe>>
         ELSE /\ dedupe' = lake.commit /\ lastCommit' = lake.restart
              /\ pos' \in IF embedded THEN {0} ELSE Starts(lake.restart)
              /\ IF lake.node # cat.node
                   THEN remap_table(load_mirror(lake.log), lake.commit + 1, lake.node,
                                    lake.restart, "resume")
                   ELSE /\ pc' = IF embedded THEN "gap" ELSE "run"
                        /\ mirror' = load_mirror(lake.log)
                        /\ UNCHANGED <<lake, batch, job, sound>>
    /\ UNCHANGED <<source, embedded, tx, suspects, remapAt, needs, faults>>

\* The first event of the embedded source, wherever its walreceiver is: the
\* record after the p-th, or mere progress up to the p-th.
\* HAZARD: a transaction open at the watermark whose changes came before.
gap_check(p, record) ==
    LET first == IF record THEN Lsn(p + 1) ELSE Lsn(p)
        torn == \E i \in 1 .. p : /\ wal[i].kind \in Changes
                                  /\ \A j \in i + 1 .. Upto(dedupe) :
                                       ~(wal[j].kind \in {"commit", "abort"} /\ wal[j].xid = wal[i].xid)
    IN  /\ pc = "gap" /\ IF record THEN p < Len(wal) ELSE p <= Len(wal)
        /\ pos' = p
        /\ IF 0 < dedupe /\ dedupe < first
             THEN remap_table(mirror, dedupe + 1, desc.node, dedupe, "gap")
             ELSE /\ pc' = "run" /\ sound' = (sound /\ ~torn)
                  /\ UNCHANGED <<lake, mirror, batch, job>>
        /\ UNCHANGED <<source, embedded, tx, suspects, remapAt, lastCommit, desc, dedupe, needs, faults>>

\* The tee dropped the records up to p.
Lost(p) ==
    /\ embedded /\ pc = "run" /\ remapAt = 0
    /\ pos < p /\ p <= Len(wal) /\ faults < MaxFaults
    /\ pos' = p /\ faults' = faults + 1
    /\ tx' = [x \in Xids |-> <<>>] /\ suspects' = {}
    /\ remap_table(mirror, dedupe + 1, desc.node, dedupe, "lost")
    /\ UNCHANGED <<source, embedded, remapAt, lastCommit, desc, dedupe, needs>>

Stop ==
    /\ pc' = "down" /\ job' = NoJob
    /\ pos' = 0 /\ tx' = [x \in Xids |-> <<>>] /\ suspects' = {} /\ remapAt' = 0 /\ lastCommit' = 0
    /\ desc' = [node |-> 0, cols |-> 0] /\ mirror' = Empty /\ dedupe' = 0 /\ needs' = FALSE
    /\ pending' = {} /\ maxCommit' = 0 /\ seq' = 0
    /\ UNCHANGED <<source, lake, embedded>>

\* HAZARDS: dropped changes are remembered in memory only; the re-snapshots
\* of embed.rs leave no trace in the filenode stamp.
Crash ==
    /\ pc # "down" /\ faults < MaxFaults
    /\ Stop
    /\ faults' = faults + 1
    /\ sound' = (sound /\ ~needs /\ job.kind \notin {"gap", "lost"})

\* The snapshot does not parse: the process exits with the error.
TakeFails ==
    /\ pc = "snapshot" /\ Lockable /\ ~Parseable
    /\ Stop
    /\ sound' = (sound /\ ~needs /\ job.kind \notin {"gap", "lost"})
    /\ UNCHANGED faults

-----------------------------------------------------------------------------
Init ==
    /\ embedded \in Modes
    /\ cat = [node |-> 1, cols |-> 1] /\ ddl = NoDdl /\ ddls = 0 /\ wal = <<>>
    /\ \E k \in Keys, c \in Ctids :
         rows = [d \in Ctids |-> IF d = c THEN [key |-> k, val |-> 0, ins |-> None, del |-> None]
                                 ELSE Free]
    /\ hist = <<[rows |-> Committed(rows), cat |-> cat]>>
    /\ lake = NoLake
    /\ pc = "down" /\ job = NoJob
    /\ pos = 0 /\ tx = [x \in Xids |-> <<>>] /\ suspects = {} /\ remapAt = 0 /\ lastCommit = 0
    /\ desc = [node |-> 0, cols |-> 0] /\ mirror = Empty /\ dedupe = 0 /\ needs = FALSE
    /\ pending = {} /\ maxCommit = 0 /\ seq = 0
    /\ faults = 0 /\ sound = TRUE

Moves == {f \in [Ctids -> Ctids] : \A c, d \in Ctids : c # d => f[c] # f[d]}

Next ==
    \/ \E x \in Xids :
         \/ \E k \in Keys, c \in Ctids : Insert(x, k, c)
         \/ \E c, d \in Ctids : Update(x, c, d)
         \/ \E c \in Ctids : Delete(x, c)
         \/ Truncate(x)
         \/ \E move \in Moves : Rewrite(x, move)
         \/ AddColumn(x)
         \/ OtherDdl(x)
         \/ \E commits \in BOOLEAN : End(x, commits)
    \/ HandleChange \/ HandleDdl \/ HandleAbort \/ HandleCommit
    \/ flush_all \/ compact
    \/ remap_check_flush \/ remap_check \/ take \/ TakeFails
    \/ resume \/ Crash
    \/ \E p \in 0 .. MaxEmbedded :
         \/ \E record \in BOOLEAN : gap_check(p, record)
         \/ Lost(p)

Spec == Init /\ [][Next]_vars

-----------------------------------------------------------------------------
(* Properties                                                              *)

\* Types; and no pending row is above max_commit_lsn, the watermark that
\* PendingBatch::emit keeps for the Delta commit it will travel in.
TypeOK ==
    /\ rows \in [Ctids -> [key : Keys \cup {None}, val : 0 .. Len(wal),
                           ins : Xids \cup {None}, del : Xids \cup {None}]]
    /\ pc \in {"down", "gap", "run", "check", "snapshot"}
    /\ pos \in 0 .. Len(wal)
    /\ mirror \in [Ctids -> Row]
    /\ Len(hist) = Len(wal) + 1
    /\ \A e \in pending : e.row \in Row /\ e.lsn <= maxCommit

\* What the table has consumed: the stream, or further by snapshot or replay.
Covered == hist[1 + Max({pos, Upto(dedupe)})]
RowSet(f) == {f[c] : c \in Ctids} \ {NoRow}
\* The table is routed and decoded by the catalog of that moment.
InStep == pc = "run" /\ ~needs /\ desc = Covered.cat

\* The reader's view of the README (latest entry per key over the change log
\* and the unflushed rows) is exactly the rows committed in the source at the
\* point consumed - through flushes, compaction, remaps and restarts, with
\* the keys of UPDATE and DELETE taken from pre-images (Engine::preimage).
LakeExact ==
    InStep /\ sound => View(lake.log \cup pending) = RowSet(Covered.rows)

\* Every live row is in the mirror under its ctid, so that no pre-image is
\* missing or wrong: also when load_mirror rebuilt it from the change log by
\* ctid, where versions superseded by an UPDATE come back beside live ones.
MirrorCovers ==
    InStep /\ sound =>
        \A c \in Ctids : Covered.rows[c] # NoRow => mirror[c] = Covered.rows[c]

\* "Idempotent across crashes" (remap_table): a process that stopped between
\* the tombstones and the new snapshot left a filenode stamp that differs from
\* the catalog's, so the next start replaces the contents again; where the
\* stamp agrees, the lake is whole as of its commit watermark.
CrashRepairs ==
    pc = "down" /\ sound /\ lake.restart # 0 /\ lake.node = cat.node
        => View(lake.log) = RowSet(hist[1 + Upto(lake.commit)].rows)

\* README, TRUNCATE and VACUUM FULL: "the old state is tombstoned and the table
\* re-snapshotted at a fresh cutover": no key of before a remap outlives it.
\* The code violates it: the tombstones carry the LSN of the DDL commit
\* (remap_table's tombstone_lsn), which may be below rows already emitted.
OldStateGone ==
    InStep => {r.key : r \in View(lake.log \cup pending)} \subseteq {r.key : r \in RowSet(Covered.rows)}

=============================================================================
