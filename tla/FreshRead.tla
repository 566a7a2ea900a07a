----------------------------- MODULE FreshRead -----------------------------
(***************************************************************************)
(* The freshness read path of one table: serve.rs (the in-memory tail and  *)
(* its HTTP handler) beside the engine that feeds it (main.rs, engine.rs). *)
(* A client reads the Delta table and the tail in either order, each at    *)
(* its own moment, and merges them; the engine goes on committing,         *)
(* flushing, evicting, changing schema and restarting between the two.     *)
(*                                                                         *)
(* A commit is identified with the LSN of its record, one row each.        *)
(***************************************************************************)
EXTENDS Integers, Sequences, FiniteSets

CONSTANTS
    MaxLsn,     \* bound: records the source writes
    MaxChunk,   \* records in one XLogData message
    MaxTime,    \* bound: the clock
    Retain,     \* tail_retain, in ticks
    Cap,        \* tail_max_rows
    MaxCrashes  \* bound: restarts of the transcoder

ASSUME FreshReadAssumption ==
    /\ {MaxLsn, MaxTime, Retain, Cap, MaxCrashes} \subseteq Nat
    /\ MaxChunk \in Nat \ {0}

VARIABLES
    wal,      \* the source's log: "row" (a commit) or "ddl" records
    now,      \* the clock
    todo,     \* records of the chunk in hand, not handled yet
    busy,     \* a chunk is in hand
    walEnd,   \* last_recv_lsn: the highest wal_end received
    handled,  \* LSN of the last record handled
    remapAt,  \* engine.remap_at: a DDL commit awaits its catalog check
    schema,   \* the schema rows are decoded under
    pending,  \* commits emitted and not flushed
    lake,     \* commits in the Delta table
    marking,  \* flush_all stands between append and mark_flushed
    tail,     \* TableTail.batches
    applied,  \* TailStore.applied_lsn
    client,   \* one client's merged read
    crashes

source == <<wal, now>>
engine == <<todo, busy, walEnd, handled, remapAt, schema, pending, marking>>
vars == <<source, engine, lake, tail, applied, client, crashes>>

Lsns == 1..MaxLsn
Never == -1    \* flushed_at = None

Batch(l) == [lsn |-> l, schema |-> schema, at |-> Never]
TailLsns(bs) == {bs[i].lsn : i \in DOMAIN bs}

-----------------------------------------------------------------------------
(* TailStore                                                               *)

MutPush(bs, b) == <<b>> \o bs

push(bs, b) == Append(bs, b)

\* Vec::retain: the batches at the indices K, in their order.
Rank(K, k) == Cardinality({j \in K : j <= k})
Nth(K, n) == CHOOSE k \in K : Rank(K, k) = n
Retained(bs, K) == [n \in 1..Cardinality(K) |-> bs[Nth(K, n)]]

\* Without retention every batch goes as soon as it is flushed.
MutMarkFlushed(bs) == <<>>

\* Every batch held starts its clock; those past their retention go.
Clocked(b) == [b EXCEPT !.at = IF @ = Never THEN now ELSE @]
mark_flushed(bs) ==
    Retained([i \in DOMAIN bs |-> Clocked(bs[i])],
             {i \in DOMAIN bs : now - Clocked(bs[i]).at < Retain})

MutEnforceCap(bs) == IF Len(bs) <= Cap THEN bs ELSE SubSeq(bs, Len(bs) - Cap + 1, Len(bs))

\* The oldest flushed batches go until the rest fit; unflushed ones never do.
enforce_cap(bs) ==
    LET excess == Len(bs) - Cap
        flushedUpTo(i) == Cardinality({j \in 1..i : bs[j].at # Never})
        kept == {i \in DOMAIN bs : bs[i].at = Never \/ flushedUpTo(i) > excess}
    IN  IF excess <= 0 THEN bs
        ELSE Retained(bs, kept)

\* The handler serves the batches of the newest schema only.
Served(bs) == Retained(bs, {i \in DOMAIN bs : bs[i].schema = bs[Len(bs)].schema})

-----------------------------------------------------------------------------
(* The source and the clock                                                *)

Write(kind) ==
    /\ Len(wal) < MaxLsn
    /\ wal' = Append(wal, kind)
    /\ UNCHANGED <<now, engine, lake, tail, applied, client, crashes>>

Tick ==
    /\ now < MaxTime
    /\ now' = now + 1
    /\ UNCHANGED <<wal, engine, lake, tail, applied, client, crashes>>

-----------------------------------------------------------------------------
(* The main loop of the transcoder                                         *)

Idle == ~busy /\ ~marking

\* XLogData: the data goes up to MaxChunk records on, wal_end is as far as
\* the server has flushed when it sends.
Receive(end) ==
    LET last == IF end - handled > MaxChunk THEN handled + MaxChunk ELSE end IN
    /\ Idle /\ handled < end /\ end <= Len(wal)
    /\ busy' = TRUE /\ todo' = [i \in 1..(last - handled) |-> handled + i]
    /\ walEnd' = IF end > walEnd THEN end ELSE walEnd
    /\ UNCHANGED <<source, handled, remapAt, schema, pending, marking, lake, tail,
                   applied, client, crashes>>

MutKeepalive ==
    /\ Idle
    /\ walEnd' = IF handled > walEnd THEN handled ELSE walEnd
    /\ UNCHANGED <<source, todo, busy, handled, remapAt, schema, pending, marking, lake,
                   tail, applied, client, crashes>>

\* A keepalive carries the position sent so far, which is the one received.
Keepalive ==
    /\ Idle
    /\ walEnd' = IF handled > walEnd THEN handled ELSE walEnd
    /\ applied' = IF handled > walEnd THEN handled ELSE walEnd
    /\ UNCHANGED <<source, todo, busy, handled, remapAt, schema, pending, marking, lake,
                   tail, client, crashes>>

\* What an eviction of the tail takes away while the client is between reads.
Evicting(bs) == [client EXCEPT !.evicted = @ \/ (client.pc = "between" /\ enforce_cap(bs) # bs)]

HandleRecord ==
    LET l == todo[1]
        pushed == push(tail, Batch(l))
    IN  /\ todo # <<>>
        /\ todo' = Tail(todo) /\ handled' = l
        /\ IF wal[l] = "row" /\ l \notin lake
           THEN /\ pending' = pending \cup {l}
                /\ tail' = enforce_cap(pushed)
                /\ client' = Evicting(pushed)
           ELSE UNCHANGED <<pending, tail, client>>
        /\ remapAt' = (remapAt \/ wal[l] = "ddl")
        /\ UNCHANGED <<source, busy, walEnd, schema, marking, lake, applied, crashes>>

\* append: one Delta commit; the tail learns of it afterwards.
FlushAppend ==
    /\ ~marking /\ pending # {}
    /\ todo = <<>>
    /\ lake' = lake \cup pending
    /\ pending' = {} /\ marking' = TRUE
    /\ UNCHANGED <<source, todo, busy, walEnd, handled, remapAt, schema, tail, applied, client, crashes>>

FlushMark ==
    /\ marking /\ marking' = FALSE
    /\ tail' = enforce_cap(mark_flushed(tail))
    /\ client' = Evicting(mark_flushed(tail))
    /\ UNCHANGED <<source, todo, busy, walEnd, handled, remapAt, schema, pending, lake, applied, crashes>>

\* remap_check, after its flush_all: the new columns, the old batches left.
Remap ==
    /\ todo = <<>> /\ remapAt /\ pending = {} /\ ~marking
    /\ remapAt' = FALSE /\ schema' = schema + 1
    /\ UNCHANGED <<source, todo, busy, walEnd, handled, pending, marking, lake, tail, applied,
                   client, crashes>>

\* After the chunk's records and its catalog check: applied_lsn is wal_end.
SetApplied ==
    /\ busy /\ todo = <<>> /\ ~remapAt /\ ~marking
    /\ busy' = FALSE
    /\ applied' = walEnd
    /\ UNCHANGED <<source, todo, walEnd, handled, remapAt, schema, pending, marking, lake,
                   tail, client, crashes>>

\* A restart resumes at or before what the lake holds; the tail was memory.
Crash(resume) ==
    /\ resume = 0 \/ \E l \in lake : resume <= l
    /\ crashes < MaxCrashes /\ crashes' = crashes + 1
    /\ todo' = <<>> /\ busy' = FALSE /\ walEnd' = resume /\ handled' = resume
    /\ remapAt' = FALSE /\ marking' = FALSE /\ pending' = {}
    /\ schema' = Cardinality({l \in 1..resume : wal[l] = "ddl"})
    /\ tail' = <<>> /\ applied' = 0
    /\ client' = IF client.pc \in {"wait", "between"} THEN [client EXCEPT !.restarted = TRUE]
                 ELSE client
    /\ UNCHANGED <<source, lake>>

-----------------------------------------------------------------------------
(* A client: it may hold the LSN of its own commit, waits for it, and      *)
(* reads the Delta table and the tail in the order it likes.               *)

NoRead == [pc |-> "idle", min |-> 0, first |-> "tail", start |-> 0, must |-> {}, got |-> {},
           evicted |-> FALSE, restarted |-> FALSE, filtered |-> FALSE, stop |-> 0]

CommitsUpTo(l) == {m \in 1..l : wal[m] = "row"}

\* GET /tail?min_lsn=N polls until applied_lsn has come, or answers 408.
Ask(l) ==
    /\ client.pc = "idle" /\ l <= Len(wal)
    /\ client' = [NoRead EXCEPT !.pc = "wait", !.min = l]
    /\ UNCHANGED <<source, engine, lake, tail, applied, crashes>>

TimedOut ==
    /\ client.pc = "wait" /\ applied < client.min
    /\ client' = [client EXCEPT !.pc = "408"]
    /\ UNCHANGED <<source, engine, lake, tail, applied, crashes>>

ReadTail == TailLsns(Served(tail))
Filtered == Served(tail) # tail

ReadFirst(side) ==
    /\ client.pc = "wait" /\ applied >= client.min
    /\ client' = [client EXCEPT !.pc = "between", !.first = side, !.start = now,
                    !.must = CommitsUpTo(handled),
                    !.got = IF side = "tail" THEN ReadTail ELSE lake]
    /\ UNCHANGED <<source, engine, lake, tail, applied, crashes>>

ReadSecond ==
    /\ client.pc = "between"
    /\ client' = [client EXCEPT !.pc = "done", !.stop = now,
                    !.filtered = client.first = "delta" /\ Filtered,
                    !.got = @ \cup (IF client.first = "tail" THEN lake ELSE ReadTail)]
    /\ UNCHANGED <<source, engine, lake, tail, applied, crashes>>

Init ==
    /\ wal = <<>> /\ now = 0
    /\ todo = <<>> /\ busy = FALSE /\ walEnd = 0 /\ handled = 0 /\ remapAt = FALSE /\ schema = 0
    /\ pending = {} /\ lake = {} /\ marking = FALSE
    /\ tail = <<>> /\ applied = 0
    /\ client = NoRead /\ crashes = 0

Next ==
    \/ \E kind \in {"row", "ddl"} : Write(kind)
    \/ Tick
    \/ \E end \in Lsns : Receive(end)
    \/ Keepalive \/ HandleRecord \/ FlushAppend \/ FlushMark \/ Remap \/ SetApplied
    \/ \E l \in 0..MaxLsn : Crash(l)
    \/ \E l \in 0..MaxLsn : Ask(l)
    \/ TimedOut
    \/ \E side \in {"tail", "delta"} : ReadFirst(side)
    \/ ReadSecond

\* The engine's loop and its flush timer go on; the server sends what it has
\* written, and keepalives when it has nothing to send.
Fairness ==
    /\ WF_vars(HandleRecord) /\ WF_vars(FlushMark) /\ WF_vars(FlushAppend)
    /\ WF_vars(Remap) /\ WF_vars(SetApplied)
    /\ WF_vars(\E end \in Lsns : Receive(end)) /\ WF_vars(Keepalive)

Spec == Init /\ [][Next]_vars
FairSpec == Spec /\ Fairness

-----------------------------------------------------------------------------
TailBatch == [lsn : Lsns, schema : 0..MaxLsn, at : Never..MaxTime]
ClientState ==
    [pc : {"idle", "wait", "408", "between", "done"}, first : {"tail", "delta"},
     min : 0..MaxLsn, start : 0..MaxTime, stop : 0..MaxTime,
     must : SUBSET Lsns, got : SUBSET Lsns,
     evicted : BOOLEAN, restarted : BOOLEAN, filtered : BOOLEAN]

\* Types; the tail holds each commit once, oldest first.
Sorted(bs) == \A i, j \in DOMAIN bs : i < j => bs[i].lsn < bs[j].lsn
TypeOK ==
    /\ wal \in Seq({"row", "ddl"}) /\ now \in 0..MaxTime
    /\ todo \in Seq(Lsns) /\ busy \in BOOLEAN /\ remapAt \in BOOLEAN /\ marking \in BOOLEAN
    /\ handled \in 0..MaxLsn /\ walEnd \in 0..MaxLsn /\ applied \in 0..MaxLsn
    /\ schema \in 0..MaxLsn
    /\ pending \subseteq Lsns /\ lake \subseteq Lsns
    /\ tail \in Seq(TailBatch) /\ Sorted(tail)
    /\ client \in ClientState /\ crashes \in Nat

\* serve.rs enforce_cap: "unflushed batches are never evicted": whatever the
\* cap, every commit handled is in the lake or in the tail, and every pending
\* one in the tail.
NeverLost ==
    /\ CommitsUpTo(handled) \subseteq lake \cup TailLsns(tail)
    /\ pending \subseteq TailLsns(tail)

\* serve.rs TailBatch: a merged read has every commit handled when it began,
\* whichever side it reads first: without condition when the tail is read
\* first; when Delta is, if it takes less than the retention and no eviction,
\* schema change or restart comes between the two reads.
NoGap ==
    client.pc = "done"
    /\ (client.first = "delta" =>
            /\ client.stop - client.start < Retain
            /\ ~client.evicted /\ ~client.filtered /\ ~client.restarted)
    => client.must \subseteq client.got

\* serve.rs "read-your-writes for a client that captured pg_current_wal_lsn()
\* after its commit": a read that waited for an LSN has every commit up to it.
ReadYourWrites ==
    client.pc = "done" /\ client.first = "tail" => CommitsUpTo(client.min) \subseteq client.got

\* main.rs: a client that keeps waiting gets its answer: applied_lsn reaches
\* every LSN the source has written, restarts included.
WaitEnds == \A l \in Lsns : (Len(wal) >= l) ~> (applied >= l)

-----------------------------------------------------------------------------
\* What makes the safety properties inductive.

\* The log, the chunk in hand and the positions in it.
ChunkInv ==
    /\ Len(wal) <= MaxLsn /\ walEnd <= Len(wal)
    /\ handled + Len(todo) <= Len(wal) /\ \A i \in DOMAIN todo : todo[i] = handled + i
    /\ marking => todo = <<>> /\ pending = {}

\* A schema change needs a DDL record, and none is counted twice.
SchemaInv == schema < handled \/ (schema = handled /\ ~remapAt)

\* Delta holds the commits up to each commit it holds.
LakeInv == \A l \in lake : l <= Len(wal) /\ CommitsUpTo(l) \subseteq lake

\* Every commit handled is in Delta or pending; a pending one is in the tail,
\* not clocked, and from there on the tail has the current schema.
Awaiting(l) ==
    \E i \in DOMAIN tail :
        /\ tail[i].lsn = l /\ tail[i].at = Never
        /\ \A j \in i..Len(tail) : tail[j].schema = schema
TailInv ==
    /\ CommitsUpTo(handled) \subseteq lake \cup pending
    /\ \A i \in DOMAIN tail : tail[i].lsn <= handled /\ tail[i].lsn \in lake \cup pending
    /\ \A l \in pending : Awaiting(l) /\ l <= handled

\* What a client between its two reads can still count on.
Kept(l) == \E i \in DOMAIN tail : tail[i].lsn = l /\ (tail[i].at = Never \/ tail[i].at >= client.start)
InTime == now - client.start < Retain
Undisturbed == ~client.evicted /\ ~client.restarted
ClientInv ==
    client.pc = "between" =>
        /\ client.start <= now
        /\ client.first = "tail" => client.must \subseteq client.got \cup lake
        /\ client.first = "delta" /\ InTime /\ Undisturbed
              => \A l \in client.must \ client.got : Kept(l)

Inv == TypeOK /\ ChunkInv /\ SchemaInv /\ LakeInv /\ TailInv /\ ClientInv /\ NoGap
=============================================================================
