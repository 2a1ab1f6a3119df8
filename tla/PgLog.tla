----------------------------- MODULE PgLog -----------------------------
(***************************************************************************)
(* The Postgres event log (causal_replay/src/event_log.rs).  An append is  *)
(* one transaction; positions come from a sequence at the INSERT, and a    *)
(* rollback leaves its positions unused for ever.  Every writer takes one  *)
(* advisory lock before it looks at a stream, so that what commits later   *)
(* lies higher.  Postgres itself (the sequence, the unique indexes, the    *)
(* visibility of committed rows only) is external.                         *)
(***************************************************************************)
EXTENDS Naturals, Sequences, FiniteSets

CONSTANTS Stream, Writer, NoOne,
          Batch,                  \* [stream, expected, events]: what is appended
          MaxSeq, MaxAborts       \* bounds of the exploration

ASSUME BatchAssumption ==
    /\ NoOne \notin Writer
    /\ \A b \in Batch :
          /\ b.stream \in Stream
          /\ Len(b.events) \in Nat \ {0} /\ DOMAIN b.events = 1 .. Len(b.events)

VARIABLES table,                  \* the committed rows of causal_log
          seq,                    \* the last position given out
          lock,                   \* who holds the advisory lock
          tx,                     \* the transaction of each writer
          aborts
pgVars == <<table, seq, lock, tx, aborts>>

\* What a read ordered by position returns: row i has i - 1 rows below it.
Below(rows, row) == {other \in rows : other.pos < row.pos}
InOrder(rows) ==
    [i \in 1 .. Cardinality(rows) |->
        CHOOSE row \in rows : Cardinality(Below(rows, row)) = i - 1]

\* The contract, and its operators over a log.
Contract == INSTANCE EventLog WITH log <- InOrder(table)

Positions == {row.pos : row \in table}
LatestPosition == IF table = {} THEN 0 ELSE CHOOSE p \in Positions : \A q \in Positions : q <= p

NoTx == [pc |-> "idle"]

PgInit ==
    /\ table = {}
    /\ seq = 0
    /\ lock = NoOne
    /\ tx = [w \in Writer |-> NoTx]
    /\ aborts = 0

\* Without pg_advisory_xact_lock writers overlap.
WrongBegin(w, b) ==
    /\ tx[w].pc = "idle"
    /\ seq + Len(b.events) <= MaxSeq
    /\ tx' = [tx EXCEPT ![w] = [pc |-> "locked", batch |-> b]]
    /\ UNCHANGED <<table, seq, lock, aborts>>

\* A transaction begins and waits for the lock, with its rows already built.
Begin(w, b) ==
    /\ tx[w].pc = "idle"
    /\ seq + Len(b.events) <= MaxSeq
    /\ lock = NoOne
    /\ lock' = w
    /\ tx' = [tx EXCEPT ![w] = [pc |-> "locked", batch |-> b]]
    /\ UNCHANGED <<table, seq, aborts>>

\* The revision the batch starts at, by its expectation.
NextRevision(s) == Contract!NextRev(InOrder(table), s)

BaseRevision(b) ==
    IF b.expected.kind = "no_stream" THEN 0 ELSE NextRevision(b.stream)

\* A NoStream batch is not compared with the head: the unique index is.
HeadAllows(b) ==
    \/ b.expected.kind = "no_stream"
    \/ Contract!Matches(InOrder(table), b.stream, b.expected)

Inserted(b) ==
    {[pos |-> seq + i, id |-> b.events[i].id, body |-> b.events[i].body,
      stream |-> b.stream, rev |-> BaseRevision(b) + i - 1] : i \in DOMAIN b.events}

Unique(rows) ==
    \A x, y \in rows : x # y =>
        x.id # y.id /\ <<x.stream, x.rev>> # <<y.stream, y.rev>>

Release(w) ==
    /\ tx' = [tx EXCEPT ![w] = NoTx]
    /\ lock' = IF lock = w THEN NoOne ELSE lock

\* The statements under the lock.  A head that is not the expected one ends in
\* a rollback: a redelivery, an overlap and a conflict differ in the answer
\* only.  So does an INSERT a unique index refuses, which has used positions.
Insert(w) ==
    LET b == tx[w].batch
    IN  /\ tx[w].pc = "locked"
        /\ \/ /\ HeadAllows(b)
              /\ Unique(table \cup Inserted(b))
              /\ tx' = [tx EXCEPT ![w] = [pc |-> "inserted", rows |-> Inserted(b)]]
              /\ seq' = seq + Len(b.events)
              /\ UNCHANGED lock
           \/ /\ ~HeadAllows(b)
              /\ Release(w)
              /\ UNCHANGED seq
           \/ /\ HeadAllows(b)
              /\ ~Unique(table \cup Inserted(b))
              /\ seq' \in seq + 1 .. seq + Len(b.events)
              /\ Release(w)
        /\ UNCHANGED <<table, aborts>>

Commit(w) ==
    /\ tx[w].pc = "inserted"
    /\ table' = table \cup tx[w].rows
    /\ Release(w)
    /\ UNCHANGED <<seq, aborts>>

\* The connection is lost, or the writer dies, before the commit.
Abort(w) ==
    /\ tx[w].pc # "idle"
    /\ aborts < MaxAborts
    /\ aborts' = aborts + 1
    /\ Release(w)
    /\ UNCHANGED <<table, seq>>

\* read_all: the rows a reader sees past a position, the limit lowest of them.
Between(low, high) == {row \in table : low < row.pos /\ row.pos < high}
ReadAll(after, limit) ==
    {row \in table : after < row.pos /\ Cardinality(Between(after, row.pos)) < limit}

\* The log, read in position order, only ever grows at its end, by whole
\* batches of new ids at the stream's next revisions (EventLogBackend's C1,
\* and "Position ordering and gap visibility" of the module's doc).
PgImplementsEventLog == Contract!Spec
=============================================================================
