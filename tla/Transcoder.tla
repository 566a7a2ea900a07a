----------------------------- MODULE Transcoder -----------------------------
(***************************************************************************)
(* The replication core of open-ltap: one process reads the physical WAL   *)
(* of a Postgres database, buffers row changes per transaction, emits the  *)
(* changes of committed transactions, and appends them table by table to   *)
(* Delta tables.  Every Delta commit carries two watermarks atomically     *)
(* with its rows: the commit LSN up to which the table is complete and the *)
(* restart LSN from which the WAL must be read again after a crash.        *)
(*                                                                         *)
(* Covered: transaction buffering (txbuf.rs), handle_record/commit/abort,  *)
(* flush rounds with a crash between any two tables, startup from the      *)
(* watermarks, the locked snapshot at its cutover LSN, attaching a table   *)
(* created later, TOAST chunks, slot feedback and WAL recycling.           *)
(*                                                                         *)
(* Abstracted: an LSN is the index of a record in the WAL; a row change is *)
(* identified by the LSN of its record; the contents of rows are the       *)
(* business of module ChangeLog.                                           *)
(***************************************************************************)
EXTENDS Naturals, Sequences, FiniteSets

CONSTANTS
    Tables,      \* the user tables of the database
    InitTables,  \* the ones that exist when the transcoder is first started
    ToastTables, \* the ones with a TOAST relation: long values in chunks
    Xids,        \* transaction and subtransaction ids
    PageBreaks,  \* LSNs of the records that are the first on their WAL page
    MaxChanges,  \* bound: row changes and chunks the source writes
    MaxCrashes   \* bound: crashes of the transcoder

ASSUME ConstantsAssumption ==
    /\ InitTables \subseteq Tables /\ InitTables # {}
    /\ ToastTables \subseteq Tables
    /\ PageBreaks \subseteq Nat \ {0} /\ 1 \in PageBreaks
    /\ MaxChanges \in Nat
    /\ MaxCrashes \in Nat

VARIABLES
    \* the source database
    wal,      \* sequence of WAL records; the index of a record is its LSN
    exists,   \* tables in the catalog
    slot,     \* restart LSN of the replication slot
    floor,    \* lowest LSN of the WAL that has not been recycled
    \* the Delta tables
    delta,    \* table |-> sequence of Delta commits
    base,     \* table |-> cutover LSN of its snapshot (0: none); a history
              \* variable: changes below it are in the table as an image
    \* the process
    pc,       \* what the process is doing
    start,    \* LSN at which this incarnation began to read the WAL
    pos,      \* LSN of the next record to handle
    tables,   \* tables under management (Engine.tables)
    open,     \* TxBuffer: xid |-> LSNs of its buffered changes
    toast,    \* ToastCache: LSNs of the chunks held
    pending,  \* table |-> rows emitted and not yet in Delta
    maxCommit,\* table |-> PendingBatch.max_commit_lsn
    dedupe,   \* table |-> commits at or below it are already in Delta
    lastCommit,   \* Engine.last_commit_lsn
    persisted,    \* persisted_restart: what the slot may be told
    todo,     \* tables the current round (resume or flush) has still to do
    restart,  \* the restart LSN of the round: stamped, or minimum so far
    cont,     \* what follows the flush round
    crashes   \* crashes so far

source == <<wal, exists, slot, floor>>
lake == <<delta, base>>
buffers == <<open, toast, pending, maxCommit, lastCommit>>
round == <<todo, restart, cont>>
vars == <<source, lake, pc, start, pos, tables, dedupe, persisted, buffers,
          round, crashes>>

-----------------------------------------------------------------------------
\* Records and LSNs.

Lsn == Nat \ {0}
ChangeRecord == [kind : {"op", "chunk"}, xid : Xids, tab : Tables, chunk : Nat]
EndRecord == [kind : {"commit", "abort"}, xid : Xids, subs : SUBSET Xids]
Row == [src : Lsn, at : Lsn]
DeltaCommit == [rows : SUBSET Row, commit : Lsn, restart : Lsn]

\* A record written by an open transaction: a heap change or a TOAST chunk.
IsChange(r) == r.kind \in {"op", "chunk"}
IsEnd(r) == r.kind \in {"commit", "abort"}

\* The transaction ids a COMMIT or ABORT record settles: its own and the
\* subtransactions it lists.
Settles(r) == {r.xid} \cup r.subs

Ends(l, x) == IsEnd(wal[l]) /\ x \in Settles(wal[l])
Ended(x) == \E l \in DOMAIN wal : Ends(l, x)

OpOn(l, t) == wal[l].kind = "op" /\ wal[l].tab = t

\* Every committed change of table t, with the LSN of its COMMIT record.
Ops(t) == {l \in DOMAIN wal : OpOn(l, t)}
Commits == {c \in DOMAIN wal : wal[c].kind = "commit"}
Committed(t) ==
    {r \in [src : Ops(t), at : Commits] : wal[r.src].xid \in Settles(wal[r.at])}

Last(t) == delta[t][Len(delta[t])]

\* The LSN up to which the Delta table of t is complete.
Mark(t) == IF delta[t] = <<>> THEN base[t] ELSE Last(t).commit

Min(S) == CHOOSE m \in S : \A n \in S : m <= n

\* The page an LSN lies on, as the LSN of the first record on it.
PageStart(l) ==
    CHOOSE s \in PageBreaks : s <= l /\ \A b \in PageBreaks : b <= l => b <= s

-----------------------------------------------------------------------------
\* The source: transactions write changes and end.  A transaction that never
\* ends (a source crash writes no ABORT record) is one that stays open.

CreateTable(t) ==
    /\ t \notin exists
    /\ exists' = exists \cup {t}
    /\ UNCHANGED <<wal, slot, floor, lake, pc, start, pos, tables, dedupe,
                   persisted, buffers, round, crashes>>

Changes == {l \in DOMAIN wal : IsChange(wal[l])}

\* The chunk a change of x on t may point to: one its transaction has already
\* written, or none (0) when the row is stored whole.
ChunksFor(x, t) ==
    {0} \cup {l \in DOMAIN wal : wal[l].kind = "chunk" /\ wal[l].xid = x /\ wal[l].tab = t}

WriteChange(x, t) ==
    /\ t \in exists
    /\ ~Ended(x)
    /\ Cardinality(Changes) < MaxChanges
    /\ \E r \in [kind : {"op"}, xid : {x}, tab : {t}, chunk : ChunksFor(x, t)]
                \cup [kind : {"chunk"}, xid : {x}, tab : {t} \cap ToastTables, chunk : {0}] :
          wal' = Append(wal, r)
    /\ UNCHANGED <<exists, slot, floor, lake, pc, start, pos, tables, dedupe,
                   persisted, buffers, round, crashes>>

EndTransaction(x, subs) ==
    /\ ~Ended(x)
    /\ \A s \in subs : s # x /\ ~Ended(s)
    /\ \E k \in {"commit", "abort"} :
          wal' = Append(wal, [kind |-> k, xid |-> x, subs |-> subs])
    /\ UNCHANGED <<exists, slot, floor, lake, pc, start, pos, tables, dedupe,
                   persisted, buffers, round, crashes>>

\* A checkpoint recycles the WAL the slot does not retain, in whole pages.
RecycleWal ==
    /\ floor < PageStart(slot)
    /\ floor' = PageStart(slot)
    /\ UNCHANGED <<wal, exists, slot, lake, pc, start, pos, tables, dedupe,
                   persisted, buffers, round, crashes>>

-----------------------------------------------------------------------------
\* Mutant of AppendDelta: the table is written in overwrite mode.
OverwriteDelta(t, rows, commit, restartLsn) ==
    delta' = [delta EXCEPT ![t] = <<[rows |-> rows, commit |-> commit, restart |-> restartLsn]>>]

\* Delta: one commit holds the rows and both watermarks.
AppendDelta(t, rows, commit, restartLsn) ==
    delta' = [delta EXCEPT ![t] =
                 Append(@, [rows |-> rows, commit |-> commit, restart |-> restartLsn])]

\* Mutant of Lockable: the snapshot does not wait for writers.
NoLock(t) == TRUE

\* LOCK TABLE ... IN EXCLUSIVE MODE is granted when no open transaction has
\* written the table; the cutover is the insert position, the LSN the next
\* record will get.
Lockable(t) ==
    \A l \in DOMAIN wal : IsChange(wal[l]) /\ wal[l].tab = t => Ended(wal[l].xid)

Cutover == Len(wal) + 1

\* Whether a snapshot of t finds no rows.  The first change of a table is an
\* insert, so a single committed change leaves a row behind.
MayBeEmpty(t) == Cardinality(Committed(t)) # 1
MayHaveRows(t) == Committed(t) # {}

-----------------------------------------------------------------------------
\* Startup: main, resume_tables and build_engine.

\* What a new process starts from: nothing but the source and the lake.
LoseMemory ==
    /\ pc' = "down"
    /\ start' = 1
    /\ pos' = 1
    /\ tables' = {}
    /\ open' = [x \in Xids |-> {}]
    /\ toast' = {}
    /\ pending' = [t \in Tables |-> {}]
    /\ maxCommit' = [t \in Tables |-> 0]
    /\ dedupe' = [t \in Tables |-> 0]
    /\ lastCommit' = 0
    /\ persisted' = 0
    /\ todo' = {}
    /\ restart' = 0
    /\ cont' = "run"

Launch ==
    /\ pc = "down"
    /\ pc' = "resume"
    /\ todo' = exists
    /\ UNCHANGED <<source, lake, start, pos, tables, dedupe, persisted, buffers,
                   restart, cont, crashes>>

AddCandidate(l) == restart' = IF tables = {} THEN l ELSE Min({restart, l})

\* Mutant of ResumeFromMarks: resumes from the commit watermark.
ResumeFromCommit(t) ==
    /\ delta[t] # <<>>
    /\ dedupe' = [dedupe EXCEPT ![t] = Last(t).commit]
    /\ AddCandidate(Last(t).commit)
    /\ UNCHANGED lake

\* A table with watermarks resumes from them.
ResumeFromMarks(t) ==
    /\ delta[t] # <<>>
    /\ dedupe' = [dedupe EXCEPT ![t] = Last(t).commit]
    /\ AddCandidate(Last(t).restart)
    /\ UNCHANGED lake

\* A table without takes a snapshot, which is appended unless it is empty.
ResumeFromSnapshot(t) ==
    /\ delta[t] = <<>>
    /\ Lockable(t)
    /\ base' = [base EXCEPT ![t] = Cutover]
    /\ \/ MayHaveRows(t) /\ AppendDelta(t, {}, Cutover, Cutover)
       \/ MayBeEmpty(t) /\ UNCHANGED delta
    /\ dedupe' = [dedupe EXCEPT ![t] = Cutover]
    /\ AddCandidate(Cutover)

ResumeTable(t) ==
    /\ pc = "resume"
    /\ t \in todo
    /\ ResumeFromMarks(t) \/ ResumeFromSnapshot(t)
    /\ todo' = todo \ {t}
    /\ tables' = tables \cup {t}
    /\ UNCHANGED <<source, pc, start, pos, persisted, buffers, cont, crashes>>

\* Reading begins at the page boundary at or below the resume LSN.
StartReplication ==
    /\ pc = "resume"
    /\ todo = {}
    /\ tables # {}
    /\ floor <= PageStart(restart)
    /\ start' = PageStart(restart)
    /\ pos' = PageStart(restart)
    /\ pc' = "run"
    /\ lastCommit' = restart
    /\ persisted' = restart
    /\ restart' = 0
    /\ UNCHANGED <<source, lake, tables, dedupe, open, toast, pending, maxCommit,
                   todo, cont, crashes>>

\* The server refuses to stream WAL it has recycled: startup fails.
StartRefused ==
    /\ pc = "resume"
    /\ todo = {}
    /\ tables # {}
    /\ PageStart(restart) < floor
    /\ LoseMemory
    /\ UNCHANGED <<source, lake, crashes>>

-----------------------------------------------------------------------------
\* The record stream: handle_record, handle_commit and handle_abort.

\* An INSERT, UPDATE or DELETE of a managed table is buffered under its xid.
\* One that points to a chunk the cache does not hold cannot be decoded and is
\* dropped with a warning.
HandleChange(r) ==
    /\ r.kind = "op"
    /\ open' = IF r.tab \in tables /\ r.chunk \in toast \cup {0}
               THEN [open EXCEPT ![r.xid] = @ \cup {pos}]
               ELSE open
    /\ UNCHANGED <<toast, pending, maxCommit, lastCommit>>

HandleChunk(r) ==
    /\ r.kind = "chunk"
    /\ toast' = IF r.tab \in tables THEN toast \cup {pos} ELSE toast
    /\ UNCHANGED <<open, pending, maxCommit, lastCommit>>

\* What both ends of a transaction do to the buffers: drop the entries of the
\* transaction and of its subtransactions.
DropBuffers(r) ==
    /\ open' = [x \in Xids |-> IF x \in Settles(r) THEN {} ELSE open[x]]
    /\ toast' = {l \in toast : wal[l].xid \notin Settles(r)}

\* Mutants of Emitted: replayed commits are emitted again; the changes of
\* subtransactions are forgotten.
EmittedAgain(r, c, t) ==
    {[src |-> l, at |-> c] : l \in {l \in UNION {open[x] : x \in Settles(r)} : wal[l].tab = t}}
EmittedTopLevel(r, c, t) ==
    IF c <= dedupe[t] THEN {}
    ELSE {[src |-> l, at |-> c] : l \in {l \in open[r.xid] : wal[l].tab = t}}

\* The rows a COMMIT at LSN c emits for table t: none when t already has them.
Emitted(r, c, t) ==
    IF c <= dedupe[t] THEN {}
    ELSE {[src |-> l, at |-> c] :
             l \in {l \in UNION {open[x] : x \in Settles(r)} : wal[l].tab = t}}

HandleCommit(r) ==
    /\ r.kind = "commit"
    /\ pending' = [t \in Tables |-> pending[t] \cup Emitted(r, pos, t)]
    /\ maxCommit' = [t \in Tables |-> IF Emitted(r, pos, t) = {} THEN maxCommit[t] ELSE pos]
    /\ lastCommit' = pos
    /\ DropBuffers(r)

HandleAbort(r) ==
    /\ r.kind = "abort"
    /\ DropBuffers(r)
    /\ UNCHANGED <<pending, maxCommit, lastCommit>>

HandleRecord ==
    /\ pc = "run"
    /\ pos \in DOMAIN wal
    /\ LET r == wal[pos] IN
          HandleChange(r) \/ HandleChunk(r) \/ HandleCommit(r) \/ HandleAbort(r)
    /\ pos' = pos + 1
    /\ UNCHANGED <<source, lake, pc, start, tables, dedupe, persisted, round, crashes>>

-----------------------------------------------------------------------------
\* Flush rounds.

Buffered == UNION {open[x] : x \in Xids}

\* Mutants of RestartLsn: open transactions do not hold it back; no LSN at all
\* when none is open.
RestartAtLastCommit == lastCommit
RestartOrZero == IF Buffered = {} THEN 0 ELSE Min(Buffered)

\* Engine::restart_lsn: the first change of the oldest open transaction, or
\* the last commit when none is open.
RestartLsn == IF Buffered = {} THEN lastCommit ELSE Min(Buffered)

WithPending == {t \in tables : pending[t] # {}}

\* flush_all fixes the restart LSN once, then appends table by table.
BeginFlush(next) ==
    IF WithPending = {}
    THEN pc' = next /\ UNCHANGED round
    ELSE /\ pc' = "flush"
         /\ todo' = WithPending
         /\ restart' = RestartLsn
         /\ cont' = next

Flush ==
    /\ pc = "run"
    /\ WithPending # {}
    /\ BeginFlush("run")
    /\ UNCHANGED <<source, lake, start, pos, tables, dedupe, persisted, buffers, crashes>>

FlushTable(t) ==
    /\ pc = "flush"
    /\ t \in todo
    /\ AppendDelta(t, pending[t], maxCommit[t], restart)
    /\ pending' = [pending EXCEPT ![t] = {}]
    /\ todo' = todo \ {t}
    /\ IF todo = {t}
       THEN pc' = cont /\ persisted' = restart /\ restart' = 0 /\ cont' = "run"
       ELSE UNCHANGED <<pc, persisted, restart, cont>>
    /\ UNCHANGED <<source, base, start, pos, tables, open, toast, maxCommit, dedupe,
                   lastCommit, crashes>>

\* A catalog check (after a transaction that may have run DDL) flushes first,
\* then attaches the tables that are new in the catalog.
RemapCheck ==
    /\ pc = "run"
    /\ exists \ tables # {}
    /\ BeginFlush("attach")
    /\ UNCHANGED <<source, lake, start, pos, tables, dedupe, persisted, buffers, crashes>>

AttachTable(t) ==
    /\ pc = "attach"
    /\ t \in exists \ tables
    /\ Lockable(t)
    /\ base' = [base EXCEPT ![t] = Cutover]
    /\ AppendDelta(t, {}, Cutover, Cutover)
    /\ dedupe' = [dedupe EXCEPT ![t] = Cutover]
    /\ tables' = tables \cup {t}
    /\ UNCHANGED <<source, pc, start, pos, persisted, buffers, round, crashes>>

\* The check ends; a table that could not be attached stays out.
RemapDone ==
    /\ pc = "attach"
    /\ pc' = "run"
    /\ UNCHANGED <<source, lake, start, pos, tables, dedupe, persisted, buffers,
                   round, crashes>>

\* Mutant of SendStatus: reports what was read, not what is durable.
SendReceived ==
    /\ pc = "run"
    /\ slot # pos
    /\ slot' = pos
    /\ UNCHANGED <<wal, exists, floor, lake, pc, start, pos, tables, dedupe,
                   persisted, buffers, round, crashes>>

\* Standby status update: the slot may forget what is below persisted.
SendStatus ==
    /\ pc = "run"
    /\ slot # persisted
    /\ slot' = persisted
    /\ UNCHANGED <<wal, exists, floor, lake, pc, start, pos, tables, dedupe,
                   persisted, buffers, round, crashes>>

\* The process dies, or an append or the connection fails and main returns.
Crash ==
    /\ pc # "down"
    /\ crashes < MaxCrashes
    /\ crashes' = crashes + 1
    /\ LoseMemory
    /\ UNCHANGED <<source, lake>>

-----------------------------------------------------------------------------
Init ==
    /\ wal = <<>>
    /\ exists = InitTables
    /\ slot = 1
    /\ floor = 1
    /\ delta = [t \in Tables |-> <<>>]
    /\ base = [t \in Tables |-> 0]
    /\ pc = "down"
    /\ start = 1
    /\ pos = 1
    /\ tables = {}
    /\ open = [x \in Xids |-> {}]
    /\ toast = {}
    /\ pending = [t \in Tables |-> {}]
    /\ maxCommit = [t \in Tables |-> 0]
    /\ dedupe = [t \in Tables |-> 0]
    /\ lastCommit = 0
    /\ persisted = 0
    /\ todo = {}
    /\ restart = 0
    /\ cont = "run"
    /\ crashes = 0

Source ==
    \/ \E t \in Tables : CreateTable(t)
    \/ \E x \in Xids, t \in Tables : WriteChange(x, t)
    \/ \E x \in Xids : \E subs \in SUBSET (Xids \ {x}) : EndTransaction(x, subs)
    \/ RecycleWal

Process ==
    \/ Launch
    \/ \E t \in Tables : ResumeTable(t)
    \/ StartReplication
    \/ StartRefused
    \/ HandleRecord
    \/ Flush
    \/ \E t \in Tables : FlushTable(t)
    \/ RemapCheck
    \/ \E t \in Tables : AttachTable(t)
    \/ RemapDone
    \/ SendStatus

Next == Source \/ Process \/ Crash

Spec == Init /\ [][Next]_vars

\* The loop of main always comes back to reading, flushing and reporting; the
\* supervisor restarts a dead process; and the transactions of the source end,
\* without which a snapshot could wait for its lock for ever.
Fairness ==
    /\ WF_vars(Launch)
    /\ WF_vars(\E t \in Tables : ResumeTable(t))
    /\ WF_vars(StartReplication)
    /\ WF_vars(HandleRecord)
    /\ WF_vars(Flush)
    /\ WF_vars(\E t \in Tables : FlushTable(t))
    /\ \A x \in Xids : WF_vars(EndTransaction(x, {}))

FairSpec == Spec /\ Fairness

-----------------------------------------------------------------------------
\* Properties.

\* Every variable holds a value of its kind.
TypeOK ==
    /\ wal \in Seq(ChangeRecord \cup EndRecord)
    /\ exists \subseteq Tables
    /\ slot \in Lsn /\ floor \in Nat
    /\ delta \in [Tables -> Seq(DeltaCommit)]
    /\ base \in [Tables -> Nat]
    /\ pc \in {"down", "resume", "run", "flush", "attach"}
    /\ start \in Lsn /\ pos \in Lsn
    /\ tables \subseteq Tables
    /\ open \in [Xids -> SUBSET Lsn]
    /\ toast \subseteq Lsn
    /\ pending \in [Tables -> SUBSET Row]
    /\ maxCommit \in [Tables -> Nat]
    /\ dedupe \in [Tables -> Nat]
    /\ lastCommit \in Nat /\ persisted \in Nat /\ restart \in Nat
    /\ todo \subseteq Tables
    /\ cont \in {"run", "attach"}
    /\ crashes \in Nat

Published(t) == UNION {delta[t][i].rows : i \in DOMAIN delta[t]}

\* The committed changes the Delta table of t must hold as rows: those after
\* its snapshot and not above its commit watermark.
Due(t) == {r \in Committed(t) : base[t] < r.at /\ r.at <= Mark(t)}

\* Exactly once across crashes and replays: no change is appended by two Delta
\* commits, nothing uncommitted or already in the snapshot is ever appended,
\* and nothing committed below the watermark is missing.  Changes that point to
\* a TOAST chunk are left out of the last part: see ToastedNotStranded.
Whole(l) == wal[l].chunk = 0
WholeRows(S) == {r \in S : Whole(r.src)}

NoDuplicate ==
    \A t \in Tables : \A i, j \in DOMAIN delta[t] :
        i # j => delta[t][i].rows \cap delta[t][j].rows = {}
NoPhantom == \A t \in Tables : Published(t) \subseteq Due(t)
NoLoss == \A t \in Tables : WholeRows(Due(t)) \subseteq Published(t)
ExactlyOnce == NoDuplicate /\ NoPhantom /\ NoLoss

\* A change is settled for t when its transaction aborted, or committed at or
\* below the watermark of t: t never needs to see it again.
Settled(t, l) ==
    \E e \in DOMAIN wal :
        /\ Ends(e, wal[l].xid)
        /\ wal[e].kind = "abort" \/ e <= Mark(t)

\* The stream takes over exactly at the cutover of the snapshot, "no gap, no
\* overlap": a transaction with a change of t below the cutover has ended below
\* it, so the image is all that t needs of it.
CutoverExact ==
    \A t \in Tables : \A l \in Ops(t) : l < base[t] =>
        \E e \in DOMAIN wal : e < base[t] /\ Ends(e, wal[l].xid)

\* The restart watermark of a table never leaves a change of that table
\* behind that the table still needs.
RestartSafe ==
    \A t \in Tables : delta[t] # <<>> =>
        \A l \in Ops(t) : Whole(l) /\ l < Last(t).restart => Settled(t, l)

\* While the process runs, every change it has passed and a table still needs
\* is in memory: buffered while its transaction is open, pending afterwards.
Streamed(t, l) ==
    \/ l >= pos
    \/ Settled(t, l)
    \/ l \in open[wal[l].xid]
    \/ \E r \in pending[t] : r.src = l
NothingStranded ==
    pc \in {"run", "flush", "attach"} =>
        \A t \in tables : \A l \in Ops(t) : Whole(l) => Streamed(t, l)

\* The commit watermark of a table only moves forward, and Delta history is
\* append-only.
WatermarkAdvances ==
    [][\A t \in Tables : /\ Mark(t) <= Mark(t)'
                         /\ SubSeq(delta[t]', 1, Len(delta[t])) = delta[t]]_lake

\* The lake keeps its contract, for the changes that store their rows whole.
Contract == INSTANCE LakeContract WITH
    committed <- [t \in Tables |-> WholeRows(Committed(t))],
    mark <- [t \in Tables |-> Mark(t)],
    published <- [t \in Tables |-> WholeRows(Published(t))]

\* Every step of the transcoder, crashes and replays included, is a step of
\* the contract or leaves the lake and the committed history alone.
ImplementsContract == Contract!Spec

\* The same of every change, also one that points to a TOAST chunk: "Chunks for
\* a value are always WAL-logged (same xid) before the referencing tuple, so
\* resolution at decode time always hits".
ToastedNotStranded ==
    pc \in {"run", "flush", "attach"} =>
        \A t \in tables : \A l \in Ops(t) : Streamed(t, l)

\* Every committed change of a managed table that stores its row whole reaches
\* the lake, as a row or in a snapshot, whatever crashes on the way.
InLake(t, l) ==
    \/ \E r \in Published(t) : r.src = l
    \/ \E r \in Committed(t) : r.src = l /\ r.at <= base[t]
CommittedArrives ==
    \A t \in InitTables : \A l \in 1..(MaxChanges + Cardinality(Xids)) :
        (\E r \in Committed(t) : r.src = l /\ Whole(l)) ~> InLake(t, l)

\* The source keeps the WAL every table would be resumed from: "the server
\* retains everything we might still need to replay after a crash".
SlotRetains == \A t \in Tables : delta[t] # <<>> => floor <= Last(t).restart

=============================================================================
