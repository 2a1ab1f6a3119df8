---------------------------- MODULE EventLog ----------------------------
(***************************************************************************)
(* The event log: rows in one total order, each in one stream, appended in *)
(* batches that land whole or not at all.  The operators are those of the  *)
(* in-memory backend (causal/src/memory_store.rs, append_to_stream), whose *)
(* mutex makes an append one step; the specification is the contract every *)
(* backend promises (causal/src/event_log.rs).                             *)
(***************************************************************************)
EXTENDS Naturals, Sequences, FiniteSets

CONSTANT Stream

VARIABLE log                      \* the rows, by position

IdsOf(rows) == {rows[i].id : i \in DOMAIN rows}

\* The positions of a stream's rows, and how many there are: the revision the
\* next row of the stream gets.
PositionsOf(rows, s) == {i \in DOMAIN rows : rows[i].stream = s}
NextRev(rows, s) == Cardinality(PositionsOf(rows, s))

\* The positions of a stream's rows from revision r on (read_stream after
\* r - 1), and the rows past a position (read_all); both in log order.
StreamFrom(rows, s, r) == {i \in PositionsOf(rows, s) : rows[i].rev >= r}
ReadAll(rows, after, limit) ==
    SubSeq(rows, after + 1,
           IF after + limit < Len(rows) THEN after + limit ELSE Len(rows))

\* What an append may demand of the stream it writes to (StreamState).
AnyState     == [kind |-> "any"]
NoStream     == [kind |-> "no_stream"]
StreamExists == [kind |-> "exists"]
AtRevision(r) == [kind |-> "at", rev |-> r]

Matches(rows, s, expected) ==
    \/ expected.kind = "any"
    \/ expected.kind = "no_stream" /\ NextRev(rows, s) = 0
    \/ expected.kind = "exists" /\ NextRev(rows, s) > 0
    \/ expected.kind = "at" /\ NextRev(rows, s) = expected.rev + 1

\* A batch is a sequence of events [id, body]; body stands for everything a
\* redelivery must repeat: payload, type, workflow and causation.
Malformed(batch) ==
    batch = <<>> \/ Cardinality(IdsOf(batch)) # Len(batch)

Persisted(rows, batch) == {i \in DOMAIN batch : batch[i].id \in IdsOf(rows)}

Row(rows, id) == CHOOSE row \in {rows[i] : i \in DOMAIN rows} : row.id = id

SameRow(row, s, event) == row.stream = s /\ row.body = event.body

\* Only the expected revision is looked at.
WrongVerdict(rows, s, expected, batch) ==
    IF Matches(rows, s, expected) THEN "append" ELSE "conflict"

\* The answer to an append, in the order the code looks: the tail's id decides
\* whether this is a redelivery; then every id must be there and be the same.
Verdict(rows, s, expected, batch) ==
    LET known == Persisted(rows, batch)
        wrong == {i \in known : ~SameRow(Row(rows, batch[i].id), s, batch[i])}
        first == {i \in DOMAIN batch \ (known \ wrong) :
                    \A j \in 1 .. i - 1 : j \in known \ wrong}
    IN  IF Malformed(batch) THEN "malformed"
        ELSE IF Len(batch) \in known /\ first \cap wrong # {} THEN "divergent"
        ELSE IF Len(batch) \in known /\ first = {} THEN "redelivery"
        ELSE IF known # {} THEN "overlap"
        ELSE IF Matches(rows, s, expected) THEN "append" ELSE "conflict"

\* The rows an accepted batch becomes, and the log after the call.
RowsOf(rows, s, batch) ==
    [i \in DOMAIN batch |->
        [id |-> batch[i].id, stream |-> s, body |-> batch[i].body,
         rev |-> NextRev(rows, s) + i - 1]]

AppendTo(rows, s, expected, batch) ==
    IF Verdict(rows, s, expected, batch) = "append"
    THEN rows \o RowsOf(rows, s, batch)
    ELSE rows

\* The revision a write answers with: that of the batch's last row.
RevisionOf(rows, batch) == Row(rows, batch[Len(batch)].id).rev

-----------------------------------------------------------------------------
(* The contract: the log grows by whole batches of one stream, whose ids are *)
(* new and whose revisions continue the stream's.                            *)

IsLog(rows) == rows \in Seq({rows[i] : i \in DOMAIN rows})

Grows(old, new) ==
    /\ IsLog(new)
    /\ Len(new) > Len(old)
    /\ \A i \in DOMAIN old : new[i] = old[i]

Fresh(old, new) == Len(old) + 1 .. Len(new)

NextBatch(old, new, s) ==
    /\ Grows(old, new)
    /\ \A i \in Fresh(old, new) :
         /\ new[i].stream = s
         /\ new[i].rev = NextRev(old, s) + (i - Len(old)) - 1
         /\ new[i].id \notin IdsOf(old)
         /\ \A j \in Fresh(old, new) : new[i].id = new[j].id => i = j

Init == log = <<>>
Next == \E s \in Stream : NextBatch(log, log', s)
Spec == Init /\ [][Next]_log

\* No id is in the log twice, whatever was retried or redelivered.
UniqueIds ==
    \A i, j \in DOMAIN log : log[i].id = log[j].id => i = j

\* The revisions of a stream are 0, 1, 2, ... in log order: what lets a fold
\* detect a gap or a redelivery by comparing two numbers.
DenseRevisions ==
    \A i \in DOMAIN log :
        log[i].rev = Cardinality({j \in 1 .. i - 1 : log[j].stream = log[i].stream})
=============================================================================
