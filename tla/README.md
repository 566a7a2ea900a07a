# A verification project for open-ltap

open-ltap reads the physical WAL of a Postgres database and keeps one Delta
table per user table up to date in object storage. This directory models it
in TLA+, checks the models with TLC and proves the main theorems with
TLAPS. File names below are relative to the repository root.

## The system and its parts

| part | code | state | operations |
| --- | --- | --- | --- |
| engine | `src/engine.rs`, `src/main.rs` | managed tables, `dedupe_below`, pending batches, `last_commit_lsn`, `persisted_restart`, `smgr_suspects` | `handle_record`, `handle_commit`, `handle_abort`, `flush_all`, `remap_check`, `attach_table`, `resume_tables`, the select loop of `main` |
| transaction buffer | `src/txbuf.rs` | xid to buffered changes and an overlay of uncommitted rows | `add_op`, `commit`, `abort`, `lookup`, `oldest_first_lsn` |
| Delta sink | `src/sink.rs` | change-log rows, watermarks (commit, restart, filenode) | `append`, `resume_state`, `load_mirror`, `compact`, `vacuum`, `evolve` |
| snapshot | `src/snapshot.rs` | none | lock, read the cutover LSN, copy, unlock |
| TOAST cache | `src/wal/heap.rs` | chunks of out-of-line values by owning xid | `add_chunk`, `resolve`, `gc_xid` |
| replication protocol | `src/pgwire.rs` | the slot, on the server | `create_slot`, `start_replication`, `send_status` |
| WAL reader | `src/wal/mod.rs` | partial page and record | `feed`, `parse_record`, `PageImage::restore` |
| tuple decoding | `src/wal/heap.rs` | none | `decode_insert_tuple`, `decode_update_new_tuple`, `decode_multi_insert`, `encode_attrs` |
| catalog | `src/schema.rs`, `src/catalog.rs` | none | discovery over SQL, or from pages |
| freshness endpoint | `src/serve.rs` | tail batches, `applied_lsn` | push, mark flushed, evict, serve |
| embedded source | `src/embed.rs` | start of the stream | `run`, `gap_check`, `resnapshot_all` |
| page visibility | `src/clog.rs`, `src/multixact.rs`, `src/fragment.rs` | none | commit status, updater of a multixact, HOT chains, `emit_page` |
| page rebuild | `src/reconstruct.rs` | none | `RawTuple::from_page`, `build_page` |
| time travel | `src/timetravel.rs` | layers of the lake | `resolve`, `image_redundant`, branches |

The engine is one task: the select loop of `main` interleaves the record stream,
the flush timer and the status timer, but a handler runs to its end. The
concurrency that matters is between that task and the world around it: source
transactions go on while the stream lags behind, the catalog changes, the server
recycles WAL, and the process can die at any await, in particular between the
Delta commits of two tables of one flush round. The correctness of the whole
rests on three LSNs per table: the commit watermark (everything up to it is in
the table), the restart watermark (replay from there finds everything else) and
the cutover of the snapshot. `PROJECT.json` lists the hazards with their lines.

What makes each part correct:

* engine, buffer, sink, snapshot: exactly once, no loss at restart, watermarks
  that only advance, a cutover with no gap and no overlap, rows that arrive;
* slot feedback: the server keeps the WAL a restart will ask for;
* catalog: an interrupted remap is run again, a new table is found;
* change log: merging a table by key and LSN gives the source table;
* freshness endpoint: lake plus tail is the table as of the promised LSN;
* reader, decoding, visibility: agreement with what the server wrote, however
  the stream is laid out and whatever commits in between;
* time travel: what retention promises has a base, and a branch stays frozen.

The modules divide the system at interfaces the code has. `WalReader` and
`HeapTuple` turn bytes into records and rows; `Transcoder` takes records in LSN
order and is about many tables and the watermarks between them, with no row
values; `ChangeLog` takes one table and is about values, pre-images and
re-snapshots; `FreshRead` adds a client beside the flush; `HeapPage` and
`TimeTravel` are the page-level readers and the retention policy, which share no
state with the stream.

## Modules

**`Transcoder`** models the engine end to end. An LSN is the index of a record in
`wal`; a row change is identified by the LSN of its record, since the properties
tell changes apart and never look at values. The source writes changes, TOAST
chunks and COMMIT/ABORT records with subtransaction lists (actions `WriteChange`,
`EndTransaction`, external to the code). The process variables are those of
`Engine` and of `main`: `tables`, `open` (TxBuffer), `toast` (ToastCache),
`pending` and `maxCommit` (PendingBatch), `dedupe` (`dedupe_below`),
`lastCommit`, `persisted`, and the reader position `pos`. The lake is `delta`, a
sequence of Delta commits per table, each with rows and both watermarks;
`base` is a history variable with the cutover of the image a table began with.

| action | code |
| --- | --- |
| `Launch`, `ResumeTable`, `StartReplication`, `StartRefused` | startup in `main`, `resume_tables`, `build_engine`, `start_replication` |
| `HandleRecord` (`HandleChange`, `HandleChunk`, `HandleCommit`, `HandleAbort`) | `handle_record`, `handle_commit`, `handle_abort`, `TxBuffer`, `ToastCache` |
| `Flush`, `FlushTable` | `flush_all`, one step per table so that a crash can come between two |
| `RemapCheck`, `AttachTable`, `RemapDone` | the part of `remap_check` that attaches new tables |
| `SendStatus`, `RecycleWal` | `send_status`, and the checkpointer of the source |
| `Crash` | the process dies, or an error makes `main` return |

Choices the code leaves to its environment are nondeterministic: when a flush or
a status update happens, when the catalog is checked, in which order a round
visits tables (a superset of the code's fixed order) and whether a snapshot is
empty where the changes alone do not tell. `PageBreaks` says which records begin a
WAL page: a restart goes back to the page of its LSN, and the checkpointer removes
whole pages.

**`LakeContract`** is what a reader of the lake may rely on, with no process in
it: each table is the source as of one commit LSN, the LSN only moves forward,
and when it moves exactly the transactions committed since appear, whole.
`Transcoder` implements it under the mapping in `Contract`.

**`TranscoderInv`** holds the inductive invariants, **`TranscoderProofs`** the
proofs, **`MCTranscoder`** the symmetry for TLC. Each of `ChangeLog`, `FreshRead`,
`WalRecord`, `WalReader`, `HeapTuple`, `HeapPage` and `TimeTravel` has a module of
proofs of its own, with the same name and `Proofs`.

**`ChangeLog`** is the same engine for one table at the level of rows. A row is a
key and a version; UPDATE and DELETE records name a ctid and no key, so their key
comes from the pre-image (`preimage`: the transaction's overlay, then `mirror`).
The source inserts, updates, deletes, truncates, rewrites (rows move to other
ctids), adds columns and runs DDL on other relations in two transactions. The
process handles records (`HandleChange`, `HandleDdl`, `HandleCommit`,
`HandleAbort`), flushes, compacts, checks the catalog (`remap_check_flush`, then
`remap_check`: the await between is where the catalog moves), re-snapshots
(`remap_table` writes the tombstones, `take` the new contents, so that a crash can
come between) and resumes. `Modes` selects the driver: `main.rs` names a record by
its first byte and restarts at a page boundary; `embed.rs` names it by its end,
joins the stream anywhere (`gap_check`) and may lose records (`Lost`). A reader's
view is the latest (LSN, seq) per key over the log and the unflushed rows. The
history variable `sound` turns false where the code has a known hole that the
properties then do not speak of: tombstones or a snapshot that do not sort above
every row they replace, an embedded start inside a transaction, a crash in an
embedded re-snapshot, a crash after a drifted change was dropped and before the
re-snapshot. Each place is marked HAZARD in the module and listed in
`PROJECT.json`.

**`FreshRead`** puts a client beside the engine: it waits for an LSN (`Ask`,
`TimedOut`), reads tail and Delta in either order at two moments, while records
arrive, `flush_all` runs in its two steps (`FlushAppend`, `FlushMark`), the cap
evicts, a remap changes the schema that new batches have (the old ones stay in the
tail and are served no more) and the process restarts.

**`WalRecord`** has the server's encoding of a record (`Encode`) and the code's
`parse_record`; **`WalReader`** is `feed()` with one action per branch of its loop,
over pages of 16 bytes in segments of 32, with a switch of segments, any page as the
start and chunks that end where the server's may (`MayEnd`: anywhere in or around a
record, in fill at aligned positions only). The magic is checked on every page, as in
the code: it is missing everywhere if the server's version is not supported
(`magic`), and on the pages a switch leaves unused (`Unused`). Several bytes that
are read together are one token followed by filler, so that a framing error shows
as a token out of place. **`HeapTuple`** follows one row from there: `InsertRow`, `UpdateRow`,
`UpdateImage` and `Restart` keep `known`, the mirror's row and attribute bytes,
beside `cur`, the tuple the server stored. Values have every form Postgres uses
(short, long, compressed with pglz or lz4, out of line), tables have dropped and
added columns. A row holds values, not bytes: `to_value` is the conversion of
`decode_value` (text with replacement characters, decimal strings of numerics in
either form, the text of a jsonb document; the other types keep every bit), and
`from_value` the way back in `encode_attrs` (numerics always in the long form, none
for jsonb). At a restart the bytes are made up from the row, or else they are what
the page has now at its ctid: nothing, the row's own or those of any other tuple.
`lost`, `imaged` and `blind` are history variables: the record lacked something no
decoder could supply; it was an image that left out a value the engine has in the
old row; a guess was made (made-up bytes of a tuple that `encode_attrs` cannot
reproduce, another tuple's bytes from the page, a value whose chunks were all
missed).

**`HeapPage`** is a heap page with line pointers, its commit log and multixacts,
under a Postgres that writes, locks, prunes and vacuums; an emission
(`EmitStart`, `EmitStep`, `EmitDone`) reads a fixed page and a moving commit log.
`CatalogScan` and `Rebuild` are the other two readers of pages. The commit log the
readers see is the server's current one: that `FileClogSource` reads `pg_xact` files
which the server flushes late is not modelled. A row frozen long ago is one with
xmin 2 (`FrozenTransactionId`, always committed); the infomask bits that freeze a row
whose xmin is no longer in `pg_xact` are not modelled either.

**`TimeTravel`** has the policy functions of `timetravel.rs` as operators, put
under the pageserver they are meant to drive, which is not in the repository:
its actions are external. An image goes when `image_redundant` says so, the tail is
truncated up to the effective horizon, as `docs/v2c-p7.md:59-60` has it, and a branch
is created at or above the horizon (an assumption). `docs/v2c-p7.md` says a branch read in the gap between the
branch point and the branch's first fragment resolves to the parent's frozen base;
the code returns `BelowHorizon` there, and the module follows the code.

`MC*` modules hold constants, symmetry and constraints for TLC.

## Runs

| run | instance | shows |
| --- | --- | --- |
| `core` | 2 tables (one created later), 2 xids, 3 changes, 1 crash | `TypeOK`, `ExactlyOnce`, `CutoverExact`, `RestartSafe`, `NothingStranded` |
| `single` | 1 table with TOAST values, 2 changes, 2 crashes, fair | `CommittedArrives`, `WatermarkAdvances`, `SlotRetains`, refinement of `LakeContract` |
| `slot_idle` | 2 tables | `SlotRetains` is violated: finding 1 |
| `toast_replay` | 1 table with TOAST values, 3 changes | `ToastedNotStranded` is violated: finding 2 |
| `changelog` | 2 keys, 2 ctids, 2 xids, 5 records (3 embedded), 1 DDL, 1 crash or loss | `LakeExact`, `MirrorCovers`, `CrashRepairs` |
| `remap_order` | 1 key, 6 records read in one burst, 2 DDLs | `OldStateGone` is violated: finding 3 |
| `fresh` | 3 records, chunks of 2, cap and retention 1, 1 crash, fair | `NeverLost`, `NoGap`, `WaitEnds` |
| `fresh_lsn` | 3 records, chunks of 1 | `ReadYourWrites` is violated: finding 4 |
| `wal` | 3 records of 4 shapes, chunks up to 9 bytes; 4 tables | `InStep`, `FramingExact`, `ParsedExact`; `RowExact`, `BytesExact`, `NoneDropped` |
| `heappage` | 3 slots, 3 versions, 3 xids of which one a subtransaction, 2 multixacts | `EmitLinear`, `ReadersAgree`, `MultixactExact`, `RebuildExact` |
| `hot_chain` | the same | `DeadEnds` is violated: finding 5 |
| `timetravel` | 2 blocks, 3 LSNs, 3 fragments, 1 branch | `BaseKept`, `BranchReads` |

Every module's `TypeOK` is checked with it. What the properties say:

* `LakeExact`: at every moment the table is routed by the catalog of what it has
  consumed, the merged log plus the unflushed rows is exactly what the source had
  committed there. `MirrorCovers`: every live row is in the mirror under its ctid
  (the comment on `load_mirror` says the mirror is exactly the table's state; it is
  a superset, superseded versions come back under their old ctids, and the run
  shows that this does no harm). `CrashRepairs`: where a stopped process left a
  filenode that agrees with the catalog, the lake is whole.
* `NeverLost`, `NoGap`: a commit handled is in the lake or the tail, and a merged
  read has every commit handled when it began; Delta first needs the read to be
  shorter than the retention, with no eviction, remap or restart in between.
  `WaitEnds`: `applied_lsn` reaches every LSN the source has written.
* `InStep`, `FramingExact`, `ParsedExact`: between records the reader is at a
  record boundary, hands out exactly the records that begin at or after its start,
  with their LSNs, up to the first page it refuses, and parsing recovers blocks,
  images and main data.
* `RowExact`, `BytesExact`, `NoneDropped`: the row known, and the bytes kept for
  the next UPDATE, are the server's along any sequence of updates and restarts,
  unless a guess was made; a change is dropped only for a cause that is named
  (`lost`, `imaged` or a guess before it). The guesses are real
  (divergences 7 and 8 below); what the three properties show is that there are no
  others.
* `EmitLinear`: a finished emission gives each root a row that was committed at
  some moment of the emission. `ReadersAgree`: emission and catalog scan find the
  same committed rows. `MultixactExact`: visibility with multixacts is right and
  refuses only on the newest multixact. `RebuildExact`: a rebuilt page fits and
  reads like the original (row locks excepted, whose bits it loses).
* `BaseKept`, `BranchReads`: a block without image keeps a base for every read
  from the effective horizon on, and a branch sees its parent as of the branch
  point. The last is stated for blocks the
  branch has not written or has a fragment of: a block written on the branch and
  not yet materialised is served in the parent's state.

Bounds. In `Transcoder`, `MaxChanges` bounds what the source writes and
`MaxCrashes` the crashes; everything else follows from them. Three changes over
two tables and two transactions are enough for a transaction that stays open over
a flush, a round with two tables, a subtransaction, and a change after recovery.
A second crash, in recovery itself, is in `single` and covered by the theorems. `PageBreaks` puts
one page break inside the log, so that a restart replays part of it or all. In `ChangeLog` five records are a
change, a DDL, their two ends and one more record; the tighter bound for the
embedded driver pays for its free choice of the starting point; `Sound` prunes
states the properties do not speak of, and `Burst` (only in `remap_order`) lets
the source finish before the stream is read, which finds the same counterexample
sooner. In `HeapPage` three slots hold a chain of three versions, or a pruned
chain and the row that reuses its slot. In `WalReader` the sizes are scaled so
that every record crosses a page in some stream and a header falls on every
offset; three records over two segments exercise padding, fill and both headers. In
`HeapTuple` one byte of the null bitmap covers two columns, a short varlena holds
six bytes (so that a numeric fits in either form) and a pglz control byte two items,
and each limit is crossed;
`NoGuess` stops following a row that holds a guess. `wal` checks `WalReader` and
`HeapTuple` side by side: they share no variable, and a behaviour moves only one.
In `TimeTravel` three LSNs separate base, horizon and tip. Deadlock checking is off
because a quiet system with nothing to write and nothing to flush stops.

Fairness (`single`). The loop of `main` always returns to the stream and the
timers, so `HandleRecord`, `Flush` and `FlushTable` are weakly fair; a
supervisor restarts a dead process, so `Launch`, `ResumeTable` and
`StartReplication` are. `EndTransaction` is weakly fair because a snapshot waits
for a lock held by open transactions: without it the transcoder may wait for
ever. Nothing else is assumed fair; in particular status updates, WAL recycling
and the source's own writes are not. In `fresh` the engine's steps are fair for the
same reason, and so are `Receive` and `Keepalive`: a walsender sends what has been
written, and a keepalive when it has nothing to send. That keepalive is what
safekeepers do; a walsender whose client reports every 10 s without asking for a
reply sends none, and there it is the page read again after a restart that moves
`applied_lsn`, so for that server `WaitEnds` is an assumption on its keepalives.
Clients, eviction, the clock and crashes are not fair.

### Findings

1. **The slot can pass an idle table** (`slot_idle`). `flush_all` reports the
   round's restart LSN for the whole stream, but a table with nothing pending
   keeps its older restart watermark, and a restart resumes from the minimum
   over all tables. Once the server has recycled that WAL the process cannot
   start again (`StartRefused`). The data in the lake stays correct.
2. **A restart can separate a TOAST chunk from its row** (`toast_replay`).
   `restart_lsn` only counts buffered row changes; a chunk read before the first
   of them is not read again after a restart, and the row that points to it is
   dropped with a warning. The other properties therefore speak of rows stored
   whole (`Whole`) where they claim completeness.
3. **Tombstones of a remap can lose** (`remap_order`). They carry the LSN of the
   DDL commit that triggered the check. An UPDATE that committed after it in the
   same chunk has been emitted at a higher LSN; if the table was truncated before
   the check read the catalog, its key outlives the TRUNCATE for good. The
   re-snapshots of `embed.rs` choose `dedupe_below + 1` and are exposed to the same
   order.
4. **`min_lsn` can be answered too early** (`fresh_lsn`). `applied_lsn` is the
   server's `wal_end`, ahead of the data in the message: a client may read before
   its own commit was decoded.
5. **A HOT chain can lead into another row** (`hot_chain`). `visible_version`
   follows `t_ctid` without comparing the next tuple's `xmin` with this one's
   `xmax`; after a subtransaction aborted, its version was pruned and the slot
   reused, an unrelated row is emitted under the wrong root.

Where the code departs from its comments in further places, the model follows the
code, and the passing properties name the exception. These have no run of their own.
6, 7, 9 and 10 are what TLC answers when the definition in brackets is made the
`INVARIANT` of `WalReader.cfg` (10: of `TimeTravel.cfg`).

6. **A segment switch stops the reader** (`OnlyVersionRefused`). The server leaves the pages
   after a switch zero, headers included. `feed()` skips the fill of the current page
   and refuses the next one with magic 0x0000, at a right position and for a
   supported version, where `src/wal/mod.rs:88-90` says the check rejects unsupported
   versions and guards the position; a restart meets the same page again.
7. **Made-up bytes are not those on the page** (`MadeUpFaithful`). `encode_attrs` writes every
   numeric in the long form, the server almost every one in the short form, and `src/wal/heap.rs:380`
   says None is returned when re-encoding would be unfaithful. The next UPDATE
   that shares a prefix or suffix decodes to a wrong row or not at all. Dropped
   columns that still have bytes, short values stored compressed or out of line, and
   text that is no UTF-8 are other ways there.
8. **A page read ahead may belong to another row** (`Restart`). The bytes that
   cannot be made up are read from the page as it is now. If the row was updated
   after the resume point and its line pointer reused, they are another tuple's, and
   the replayed UPDATE that shares a suffix with the row gets that tuple's value.
   `src/snapshot.rs:132-134` calls reading ahead safe.
9. **An image does not take the old value** (`ImageTakesOld`). An UPDATE logged as a
   full-page image that leaves an out-of-line value alone is dropped although the
   engine has the old row: the image path does not consult it, as
   `src/wal/heap.rs:532-534` says is done.
10. **The tail can move past the fragment that replaced an image** (`RetainedReads`).
   `image_redundant` looks at the tail floor of the moment; truncated to the horizon
   later, as the design note has it, the tail no longer reaches back to that
   fragment, and `resolve` answers `BelowHorizon` for reads the horizon promises.
11. **Missed chunks pass for an unchanged value** (`UpdateRow`). An UPDATE whose new
   chunks were all missed takes the old value without notice; the row then holds a
   guess (`blind`).

## Theorems

Each is proved for every value of the constants, from the named assumption of its
module alone.

| theorem | module | property |
| --- | --- | --- |
| `TypeCorrect`, `ExactlyOnceHolds`, `RestartSafeHolds`, `CutoverExactHolds`, `NothingStrandedHolds` | `TranscoderProofs` | of the same names, any tables, transactions and crashes |
| `WatermarkAdvancesHolds`, `ContractHolds` | `TranscoderProofs` | the action property, and the refinement of `LakeContract` |
| `SlotRetainsHolds` | `TranscoderProofs` | `SlotRetains`, for any table that is the only one |
| `TypeCorrect`, `NeverLostHolds`, `NoGapHolds` | `FreshReadProofs` | any cap, retention, chunk size, clock and number of crashes |
| `TypeCorrect`, `BaseKeptHolds`, `BranchReadsHolds` | `TimeTravelProofs` | any blocks, fragments and LSNs |
| `ParseInverts` | `WalRecordProofs` | `ParseRecord(Encode(r)) = Meaning(r)` for every well-formed record |
| `TypeCorrect`, `InStepHolds`, `FramingExactHolds`, `RecordsUnderstood` | `WalReaderProofs` | with `ParsedExact`: any page, segment, header and alignment sizes, records and start page, chunks as `MayEnd` has them, pages without magic after a switch |
| `PglzInverts` | `HeapTupleProofs` | `pglz_decompress(Compress(items), Len(Expand(items))) = Expand(items)` for every stream of literals and back references |
| `RowsExact`, `BytesKeptExact`, `DropsJustified` | `HeapTupleProofs` | `RowExact`, `BytesExact`, `NoneDropped`: any layouts, values, bitmap and pointer widths, and any sequence of updates and restarts, outside the guesses they name |
| `TypeCorrect`, `EmissionLinear`, `ReadersCorrect`, `MultixactVisible`, `RebuildFaithful` | `HeapPageProofs` | `EmitLinear`, `ReadersAgree`, `MultixactExact`, `RebuildExact`: any transactions and subtransactions, line pointers, versions, multixacts, log and page sizes |
| `TypeCorrect` | `ChangeLogProofs` | `TypeOK`: any keys, ctids and transactions, either driver, any number of records, schema changes and faults |

`Transcoder`. `ExactlyOnce` is not inductive. `IndInv` adds what ties the watermarks to the
buffers: a transaction ends once and writes nothing after (`WalInv`); watermarks
lie within the log (`MarkInv`); during startup the running minimum is below each
resumed table's restart point (`ResumeInv`); a buffered change belongs to a
transaction whose end is still ahead (`OpenInv`); a pending row is above its
table's commit watermark and the batch's `max_commit_lsn` is behind the reader
(`PendingInv`); a table's dedupe point is at or below its watermark, which is
below the reader when they differ (`DedupeInv`); and during a round, all below
the LSN about to be stamped is settled or in the batch (`FlushInv`). The central
step is `FlushTableStep`: a change committed above the watermark and below
the reader must be in the batch (`BatchComplete`), because `NothingStranded`
leaves only that, so stamping `max_commit_lsn` claims nothing too much.
`StartStep` turns the persisted `RestartSafe` and `CutoverExact` back into
`NothingStranded`. The refinement classifies steps into logging a record, taking
an image, flushing a table and invisible ones (`StepKinds`), one lemma each.

`SlotRetains` is false for two tables (finding 1), so the theorem is about one.
Even then the restart LSN is not monotone: a restart replays from the start of the
page, buffers again an open transaction that the last round had passed, and the
next round reports a lower LSN. What only moves up is the page that LSN lies on.
`SlotInv` says so: the page of the LSN a restart would use is retained and at or
above the slot's page (`Held`), and nothing the running process has buffered, read
or reported lies below the page of `persisted` (`SlotRun`). The proof attempt is
why the model recycles WAL in whole pages (the server removes whole segments): with
single records recycled `SlotRetains` would not hold.

`FreshRead`. `NeverLost` needs to know that every pending commit is in the tail with
no clock started (`Awaiting`): that is what `enforce_cap` never evicts. `NoGap` needs
three more facts. Delta is closed downwards (`LakeInv`): it holds all commits below
any commit it holds, so a restart, which forgets the tail, forgets nothing Delta lacks below
its position. From the first pending batch on the tail has the current schema
(`Awaiting` again), so serving the newest schema hides only what is in Delta. And a
client between its two reads finds each commit it has not seen in the tail with a
clock not older than its own start (`Kept`), which `mark_flushed` may not drop before the
retention has passed. `RetainedIs` says what `Vec::retain` returns; the lemmas on
`mark_flushed`, `enforce_cap` and the handler's filter rest on it.

`TimeTravel`. The gate `image_redundant` is checked once, when the image goes, but the
property is about all later reads: `GateHolds` keeps the witness, a fragment at or
below the effective horizon, and `HorizonRises` shows that no step, the creation of a
branch included, moves the effective horizon back. For a branch the witness is below
its point as well, since the effective horizon never passes it; what a plan rebuilds
is then a matter of the tail floors named in the plan's guard. That the tail reaches
back to the witness is no invariant (divergence 10), so no theorem says so.

`WalReader`. The reader counts LSNs, records are laid out in payload bytes, and page
headers of two sizes lie between. The first half of `WalReaderProofs` is about that
correspondence alone: `Physical` is strictly increasing and jumps only over headers (`PhysicalNext`,
`PhysicalOrder`), it keeps alignment because headers are aligned (`PhysicalAligned`),
on one page position and payload offset move together (`Advance`), and the records
lie apart, aligned, with a gap only before the start of a segment (`Layout`). `Inv`
then says that the reader stands at some payload offset (`StandsAt`: at its byte, or
at the page header before it) and is skipping the end or padding of one record,
inside the next, or between the two, with the earlier ones handed over. The step
that needs most is the first header: `xlp_rem_len` counts exactly the bytes of the
record cut by the page (`RestBytes`), so that discarding stops at its end.
`SkipFill` stays between records because fill ends where a page begins (`FillEnds`)
and, by `MayEnd`, a chunk ends inside fill only at an aligned byte. What is assumed
of the sizes (`WalReaderAssumption`) holds of Postgres' 8192, 24, 40, 8, 24 and 4.

`WalRecord`. `WellFormed` is what Postgres assembles: fields of the widths the format
gives them, a block that repeats the relation of the one before only after one
exists, an image whose hole lies inside the page. The proof says where the parts of
an encoded record stand (`Lies`, `Laid`), follows the loop over the headers one
round at a time (`BlockRound`, `ExtraRound`, `MainRound`, `LastRound`, together
`HeadersAre`), computes where each payload begins (`PayloadStarts`) and that removing
and restoring the hole of a page are inverse (`Restored`). `RecordsUnderstood`
combines it with `Inv`, which says that what was handed over is the encoding of
records of the stream.

`HeapTuple`. `RowInv` says of `known`, while nothing was guessed, that it is `Absent` or the
row of `cur` with the bytes on its page or none (`KnownOf`), and that it is not
`Absent` unless something was lost or left out of an image. The three properties follow at once; that the
actions keep it is a statement about values. The decoder inverts the server's
layout column by column: after column i it stands where the server stood when it
had laid that column out (`FillRead`, `PayloadDecodes`), whatever follows, which is
what makes padding, dropped columns and short tuples harmless. Inside a column,
`PglzInverts` follows the items of a compressed stream group by group, with
`Overlap` related to the periodic copy it stands for, and chunks are put together in
order. An UPDATE's record has neither the shared bytes nor the chunks of values it
leaves alone: `Rebuilt` shows that prefix, logged bytes and suffix are the new
attribute area because `Shared` and `SharedEnd` never overlap, `UpdateReads` that the
record's header is found behind the optional lengths, and `KeptDecodes` that
a pointer without chunks finds its value in the old row at the position of its live
column, although old row and new one may have different numbers of attributes.
The conversions stay opaque: `ConvertedIs` needs only that those of stored values
do not fail, and what a row holds is compared as `Shown`. `EncodeExact` is the restart: for
a tuple with no dropped or packed value all of whose values survive the conversion
to a row and back (`Plain`), the bytes `encode_attrs` makes up are those on the page. `HeapTupleAssumption` says that widths
are positive, that a table has a live column (its empty row would be `Absent`), and of
a stored value what `heap_fill_tuple` and the toaster guarantee: the header form goes by the length, an
out-of-line value is not empty, one is compressed only if that saves bytes, and the
bytes are a value of the column's type. The
last is what lets `resolve` tell compressed from plain by the two sizes.

`HeapPage`. `Inv` is in layers. Fates in the commit log are final, and a family of
transactions shares its top's fate (`Families`). The versions of one root supersede
each other in the order they were written, each alive exactly until the next one
commits (`SeenFirst`, `Ordered`, `Present`). Tuples on the page stand for versions:
stamps and multixacts are theirs (`Stamped`, `Multis`), every live version has a tuple
(`Versions`), chains start at a root, a redirect or a heap-only tuple nobody reaches
(`Rooted`, `Starts`) and their links lead to the next version or to nothing that is
alive (`Links`, `Nexts`). There is one lemma per server action for this layer. The
last layer is the emission: which roots are still to do, which rows it has found, and
when they were committed (`Todo`, `Observed`, `Emitted`, `Walked`). `EmitLinear` is not
obvious because the page is fixed and the commit log is not: each lookup may see a
later log than the one before, and the proof names the moment at which all of them
agree. `ReadersAgree` counts the tuples a walk has visited (`Counted`), as the code's
loop bound does, to show that a chain is not cut short. The proof showed three places
where the model was too loose: the sizes have the lower bounds a page really has
(`HeapPageAssumption`: a header, a line pointer and a row fit), a backend writes under
one open transaction of a family at a time (`CanWrite`), and pruning is stated by what
it removes, redirects and frees.

`ChangeLog`. `Typed` adds to `TypeOK` the shape of records, buffers and the change log,
and that the tuples put aside by an open schema change are the table's. A commit
applies `Emit` once per buffered op (`after`); `RunsExist` and `RunsKeep` are the
induction over them, and give that `max_commit_lsn` covers every row it emits.

Recursive functions (`chain_roots`, `visible_version`, `build_page`, the loops of
`parse_record`, `pglz_decompress` and the tuple decoder, `after`) are reasoned about with one lemma, `Inductive`: a set that
holds 0 and the successor of each of its numbers holds all of them. It follows from
the library's theorem that `<` is well founded on Nat.

Only model-checked: `CommittedArrives` and `WaitEnds` (liveness under fairness, which is
out of the prover's reach), and `LakeExact`, `MirrorCovers` and `CrashRepairs` of
`ChangeLog`, which need an invariant that relates every buffered op, pre-image and
change row to the history of the source: which transactions are still open at the
watermark, what a replay buffers of those that are not, and what an open schema
change hides. Random simulation of `MCChangeLog` with larger constants (three ctids,
12 records, three schema changes, three faults, `PageSlack` 2; 44 million states)
found no violation of them either.

## Not modelled, and why

* Two-phase commit: `COMMIT PREPARED` is not handled by the code
  (`docs/v2-scope.md:421`); transactions end by COMMIT or ABORT.
* Dropping, renaming and re-creating tracked tables, column type changes, fast
  defaults, and key-changing UPDATEs: hazards with a note in `PROJECT.json`.
* The GetPage oracle for missing pre-images (`src/pgwire.rs`, `oracle` in
  `src/engine.rs`): it answers from a pageserver that is not in the repository.
* `vacuum` and `evolve` of the sink, Arrow and Parquet layout, HTTP and protocol
  framing, authentication, configuration: no row and no watermark depends on an
  order of steps there.
* The digits of a decimal string, the walk over a jsonb container, the text forms of
  uuid and dates, and COPY parsing: conversions of a single value, covered by unit
  tests. What of them reaches the bytes of a row (the two forms of numeric, lossy
  text, no way back for jsonb) is in `HeapTuple`.
* Hazards that the properties exclude rather than catch: `sound` in `ChangeLog`, the
  window of SubCommitted transactions, multixacts with an updater in the catalog scan
  and row locks of rebuilt pages in `HeapPage`. `PROJECT.json` says so at each.
* A source that crashes in the middle of a record, and the overlay of a
  transaction it never ended: the streams of `WalReader` and `ChangeLog` are
  written once.
* Examples (except the page rebuild of `examples/rebuild.rs`), benchmarks and
  deployment files.
