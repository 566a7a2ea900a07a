--------------------------- MODULE TranscoderInv ----------------------------
(***************************************************************************)
(* The inductive invariant behind the theorems of TranscoderProofs.        *)
(***************************************************************************)
EXTENDS Transcoder

Running == pc \in {"run", "flush", "attach"}

\* The source writes a well-formed log: a transaction ends once and writes
\* nothing after its end.
WalInv ==
    \A i, j \in DOMAIN wal : \A x \in Xids :
        i < j /\ Ends(i, x) =>
            ~Ends(j, x) /\ ~(IsChange(wal[j]) /\ wal[j].xid = x)

\* Watermarks lie within the log; only a snapshot may claim its very end.
MarkInv ==
    \A t \in Tables :
        /\ base[t] <= Mark(t)
        /\ Mark(t) <= Len(wal) \/ Mark(t) = base[t]
        /\ base[t] <= Len(wal) + 1
        /\ delta[t] # <<>> => Last(t).restart <= Len(wal) + 1

\* A table with a Delta commit exists, and is managed or about to be whenever
\* a process is alive.
TableInv ==
    /\ tables \subseteq exists
    /\ \A t \in Tables : delta[t] # <<>> => t \in exists
    /\ pc = "resume" => \A t \in Tables : delta[t] # <<>> => t \in tables \cup todo
    /\ Running => \A t \in Tables : delta[t] # <<>> => t \in tables

\* Nothing is buffered before the stream starts.
IdleInv ==
    /\ ~Running => open = [x \in Xids |-> {}] /\ pending = [t \in Tables |-> {}]
    /\ pc = "down" => tables = {} /\ todo = {}
    /\ pc = "resume" => tables \cap todo = {} /\ todo \subseteq exists

\* During startup: what each resumed table has put in.
ResumeInv ==
    pc = "resume" =>
        /\ tables # {} => restart \in 1..(Len(wal) + 1)
        /\ \A t \in tables :
              /\ dedupe[t] = Mark(t)
              /\ restart <= IF delta[t] = <<>> THEN base[t] ELSE Last(t).restart

\* While the stream runs: positions, and what the buffers hold.
PosInv ==
    Running =>
        /\ pos <= Len(wal) + 1
        /\ lastCommit \in Lsn /\ persisted \in Lsn
        /\ lastCommit < pos \/ pending = [t \in Tables |-> {}]

DedupeInv ==
    Running => \A t \in tables :
        /\ dedupe[t] <= Mark(t)
        /\ Mark(t) <= dedupe[t] \/ Mark(t) < pos

OpenInv ==
    \A x \in Xids : \A l \in open[x] :
        /\ l \in DOMAIN wal /\ l < pos
        /\ wal[l].kind = "op" /\ wal[l].xid = x /\ wal[l].tab \in tables
        /\ \A e \in DOMAIN wal : Ends(e, x) => pos <= e

PendingInv ==
    \A t \in Tables :
        /\ \A r \in pending[t] :
              /\ r \in Committed(t)
              /\ Mark(t) < r.at /\ r.at <= maxCommit[t]
        /\ pending[t] # {} =>
              /\ t \in tables
              /\ maxCommit[t] \in DOMAIN wal
              /\ maxCommit[t] < pos

\* During a flush round: the LSN about to be stamped is safe for every table
\* that will be stamped with it.
FlushInv ==
    pc = "flush" =>
        /\ restart \in 1..Len(wal)
        /\ \A t \in todo :
              /\ pending[t] # {}
              /\ \A l \in Ops(t) : Whole(l) /\ l < restart =>
                    Settled(t, l) \/ \E r \in pending[t] : r.src = l

IndInv ==
    /\ TypeOK
    /\ WalInv /\ MarkInv /\ TableInv /\ CutoverExact
    /\ IdleInv /\ ResumeInv /\ PosInv /\ DedupeInv /\ OpenInv /\ PendingInv
    /\ FlushInv /\ NothingStranded
    /\ ExactlyOnce /\ RestartSafe

-----------------------------------------------------------------------------
\* Behind SlotRetains, which holds for a single table: with a second one the
\* LSN of a flush round may be above what an idle table was stamped with.

\* Where a table would be resumed from: its watermark, or a new snapshot.
Resumable(t) == IF delta[t] = <<>> THEN Len(wal) + 1 ELSE Last(t).restart

\* The page of l is retained and stays so if the slot moves up.
Held(l) == floor <= PageStart(l) /\ PageStart(slot) <= PageStart(l)

\* The restart LSN may fall within a page, since a replay from the start of
\* the page can buffer again what the last round had passed; the page it lies
\* on only moves up.
HeldBelow(l, t) == Held(l) /\ PageStart(l) <= PageStart(Resumable(t))

SlotResume(t) == pc = "resume" /\ tables # {} => HeldBelow(restart, t)

SlotRun(t) ==
    Running =>
        /\ tables # {} /\ HeldBelow(persisted, t)
        /\ PageStart(persisted) <= pos
        /\ \A l \in Buffered : PageStart(persisted) <= l
        /\ pending[t] # {} => PageStart(persisted) <= lastCommit

SlotFlush(t) == pc = "flush" => todo = {t} /\ restart = RestartLsn

SlotInv ==
    \A t \in Tables :
        Held(Resumable(t)) /\ SlotResume(t) /\ SlotRun(t) /\ SlotFlush(t)
=============================================================================
