-------------------------- MODULE EventLogProofs --------------------------
(***************************************************************************)
(* For every set of streams, log, batch and expectation: what the          *)
(* in-memory backend appends is a batch the contract allows, and the       *)
(* contract keeps ids unique and the revisions of a stream dense.          *)
(***************************************************************************)
EXTENDS EventLog, FiniteSetTheorems, SequenceTheorems, TLAPS

\* A sequence over some set is one over its own elements.
LEMMA SeqIsLog ==
    ASSUME NEW X, NEW rows \in Seq(X)
    PROVE  IsLog(rows) /\ DOMAIN rows = 1 .. Len(rows) /\ Len(rows) \in Nat
<1>1. rows \in [1 .. Len(rows) -> X] /\ Len(rows) \in Nat
  OBVIOUS
<1> DEFINE Y == {rows[i] : i \in DOMAIN rows}
<1>2. rows \in [1 .. Len(rows) -> Y]
  BY <1>1
<1> HIDE DEF Y
<1>3. rows \in Seq(Y)
  BY <1>1, <1>2
<1> QED
  BY <1>1, <1>3 DEF Y, IsLog

\* A batch that is not malformed mints every id once.
LEMMA WellFormedIsInjective ==
    ASSUME NEW E, NEW batch \in Seq(E), ~Malformed(batch)
    PROVE  \A i, j \in DOMAIN batch : batch[i].id = batch[j].id => i = j
<1> DEFINE dom == 1 .. Len(batch)
           ids == IdsOf(batch)
           f == [i \in dom |-> batch[i].id]
<1>1. DOMAIN batch = dom /\ Len(batch) \in Nat
  OBVIOUS
<1>2. IsFiniteSet(dom) /\ Cardinality(dom) = Len(batch)
  BY <1>1, FS_Interval
<1>3. f \in Surjection(dom, ids)
  BY <1>1 DEF IdsOf, Surjection
<1>4. Cardinality(ids) = Cardinality(dom)
  BY <1>2 DEF Malformed
<1>5. f \in Injection(dom, ids)
  BY <1>2, <1>3, <1>4, FS_Surjection
<1> QED
  BY <1>1, <1>5 DEF Injection, IsInjective

\* append_to_stream of the in-memory backend appends what the contract allows,
\* or nothing: ids no row has, at the next revisions of the stream.
THEOREM AppendIsContract ==
    ASSUME NEW R, NEW rows \in Seq(R), NEW E, NEW batch \in Seq(E), NEW s, NEW expected
    PROVE  \/ AppendTo(rows, s, expected, batch) = rows
           \/ NextBatch(rows, AppendTo(rows, s, expected, batch), s)
<1> SUFFICES ASSUME Verdict(rows, s, expected, batch) = "append"
             PROVE  NextBatch(rows, AppendTo(rows, s, expected, batch), s)
  BY DEF AppendTo
<1> DEFINE new == RowsOf(rows, s, batch)
           n == Len(rows)
           m == Len(batch)
           all == rows \o new
<1>1. AppendTo(rows, s, expected, batch) = all
  BY DEF AppendTo
<1>2. ~Malformed(batch) /\ Persisted(rows, batch) = {}
  BY DEF Verdict
<1>3. n \in Nat /\ m \in Nat \ {0} /\ DOMAIN rows = 1 .. n /\ DOMAIN batch = 1 .. m
  BY <1>2 DEF Malformed
<1>4. \A i \in DOMAIN batch : batch[i].id \notin IdsOf(rows)
  BY <1>2 DEF Persisted
<1>5. \A i, j \in DOMAIN batch : batch[i].id = batch[j].id => i = j
  BY <1>2, WellFormedIsInjective
<1>6. new \in Seq({new[i] : i \in 1 .. m}) /\ Len(new) = m /\ DOMAIN new = 1 .. m
  BY <1>3 DEF RowsOf
<1>7. /\ all \in Seq(R \cup {new[i] : i \in 1 .. m})
      /\ Len(all) = n + m
      /\ \A i \in 1 .. n : all[i] = rows[i]
      /\ \A i \in n + 1 .. n + m : all[i] = new[i - n]
  <2> DEFINE T == {new[i] : i \in 1 .. m}
  <2> HIDE DEF new, T
  <2>1. rows \in Seq(R \cup T) /\ new \in Seq(R \cup T)
    BY <1>3, <1>6 DEF T
  <2>2. /\ all \in Seq(R \cup T)
        /\ Len(all) = n + Len(new)
        /\ \A i \in 1 .. n + Len(new) :
              all[i] = IF i <= n THEN rows[i] ELSE new[i - n]
    BY <2>1, ConcatProperties
  <2> HIDE DEF all
  <2>3. Len(all) = n + m
    BY <1>6, <2>2
  <2>4. ASSUME NEW i \in 1 .. n PROVE all[i] = rows[i]
    BY <1>3, <1>6, <2>2
  <2>5. ASSUME NEW i \in n + 1 .. n + m PROVE all[i] = new[i - n]
    BY <1>3, <1>6, <2>2
  <2> QED BY <2>2, <2>3, <2>4, <2>5 DEF T
<1> HIDE DEF all
<1>8. DOMAIN all = 1 .. n + m /\ IsLog(all)
  BY <1>3, <1>7, SeqIsLog
<1>9. ASSUME NEW i \in 1 .. m
      PROVE  /\ new[i].id = batch[i].id /\ new[i].stream = s
             /\ new[i].rev = NextRev(rows, s) + i - 1
  <2>1. new[i] = [id |-> batch[i].id, stream |-> s, body |-> batch[i].body,
                  rev |-> NextRev(rows, s) + i - 1]
    BY <1>3 DEF RowsOf
  <2> QED BY <2>1
<1> HIDE DEF new
<1>10. Grows(rows, all)
  BY <1>3, <1>7, <1>8 DEF Grows, IsLog
<1>11. ASSUME NEW i \in Fresh(rows, all)
       PROVE  /\ i - n \in 1 .. m /\ all[i].id = batch[i - n].id
              /\ all[i].stream = s /\ all[i].rev = NextRev(rows, s) + (i - n) - 1
  <2>1. i \in n + 1 .. n + m
    BY <1>7 DEF Fresh
  <2>2. i - n \in 1 .. m /\ all[i] = new[i - n]
    BY <1>3, <1>7, <2>1
  <2> QED BY <1>9, <2>2
<1>12. ASSUME NEW i \in Fresh(rows, all), NEW j \in Fresh(rows, all),
              all[i].id = all[j].id
       PROVE  i = j
  <2>1. i - n \in DOMAIN batch /\ j - n \in DOMAIN batch
        /\ batch[i - n].id = batch[j - n].id
    BY <1>3, <1>11, <1>12
  <2>2. i - n = j - n
    BY <1>5, <2>1
  <2>3. i \in Nat /\ j \in Nat
    BY <1>3, <1>7 DEF Fresh
  <2> QED BY <1>3, <2>2, <2>3
<1>13. \A i \in Fresh(rows, all) : all[i].id \notin IdsOf(rows)
  BY <1>3, <1>4, <1>11
<1>14. NextBatch(rows, all, s)
  BY <1>3, <1>10, <1>11, <1>12, <1>13 DEF NextBatch
<1> QED
  BY <1>1, <1>14

-----------------------------------------------------------------------------
(* The contract's own invariants.                                           *)

IInv == IsLog(log) /\ UniqueIds /\ DenseRevisions

\* How many rows of stream s lie below position i.
Below(rows, s, i) == {j \in 1 .. i - 1 : rows[j].stream = s}

\* A row a batch adds has as many rows of its stream below it as its revision
\* says: those the stream had, and those of the batch before it.
LEMMA FreshIsDense ==
    ASSUME NEW R, NEW old \in Seq(R), NEW Q, NEW new \in Seq(Q), NEW s,
           NextBatch(old, new, s), NEW i \in Fresh(old, new)
    PROVE  new[i].rev = Cardinality(Below(new, s, i))
<1> DEFINE n == Len(old)
           have == PositionsOf(old, s)
           mine == n + 1 .. i - 1
<1>1. n \in Nat /\ DOMAIN old = 1 .. n /\ Len(new) \in Nat /\ DOMAIN new = 1 .. Len(new)
  OBVIOUS
<1>2. i \in n + 1 .. Len(new) /\ i \in Nat
  BY <1>1 DEF Fresh
<1>3. \A j \in 1 .. n : new[j] = old[j]
  BY <1>1 DEF NextBatch, Grows
<1>4. \A j \in mine : new[j].stream = s
  BY <1>1, <1>2 DEF NextBatch, Fresh
<1>5. Below(new, s, i) = have \cup mine
  BY <1>1, <1>2, <1>3, <1>4 DEF Below, PositionsOf
<1>6. IsFiniteSet(1 .. n) /\ have \subseteq 1 .. n
  BY <1>1, FS_Interval DEF PositionsOf
<1>7. IsFiniteSet(have)
  BY <1>6, FS_Subset
<1>8. IsFiniteSet(mine) /\ Cardinality(mine) = i - n - 1
  <2>1. n + 1 \in Int /\ i - 1 \in Int
    BY <1>1, <1>2
  <2>2. /\ IsFiniteSet(mine)
        /\ Cardinality(mine) = IF n + 1 > i - 1 THEN 0 ELSE (i - 1) - (n + 1) + 1
    BY <2>1, FS_Interval
  <2> QED BY <1>1, <1>2, <2>2
<1>9. have \cap mine = {} /\ Cardinality(have) \in Nat
  BY <1>1, <1>6, <1>7, FS_CardinalityType
<1>10. Cardinality(have \cup mine) = Cardinality(have) + Cardinality(mine)
       - Cardinality(have \cap mine)
  BY <1>7, <1>8, FS_Union
<1>11. Cardinality(have \cap mine) = 0
  BY <1>9, FS_EmptySet
<1>12. Cardinality(have \cup mine) = Cardinality(have) + (i - n - 1)
  BY <1>1, <1>2, <1>8, <1>9, <1>10, <1>11
<1>13. new[i].rev = Cardinality(have) + (i - n) - 1
  BY DEF NextBatch, NextRev
<1>14. Cardinality(have) + (i - n) - 1 = Cardinality(have) + (i - n - 1)
  BY <1>1, <1>2, <1>9
<1> QED
  BY <1>5, <1>12, <1>13, <1>14

LEMMA NextBatchPreserves ==
    ASSUME IInv, NEW s \in Stream, NextBatch(log, log', s)
    PROVE  IInv'
<1>1. PICK R : log \in Seq(R)
  BY DEF IInv, IsLog
<1>2. PICK Q : log' \in Seq(Q)
  BY DEF NextBatch, Grows, IsLog
<1>3. PICK old : old = log
  OBVIOUS
<1>4. PICK new : new = log'
  OBVIOUS
<1> DEFINE n == Len(old)
<1>5. /\ n \in Nat /\ DOMAIN old = 1 .. n /\ Len(new) \in Nat
      /\ DOMAIN new = 1 .. Len(new) /\ n < Len(new)
      /\ \A j \in 1 .. n : new[j] = old[j]
  BY <1>1, <1>2, <1>3, <1>4 DEF NextBatch, Grows
<1>6. \A j \in 1 .. Len(new) : j \in 1 .. n \/ j \in Fresh(old, new)
  BY <1>5 DEF Fresh
<1>7. NextBatch(old, new, s)
  BY <1>3, <1>4
<1>8. \A i \in Fresh(old, new), j \in 1 .. n : new[i].id # old[j].id
  BY <1>5, <1>7 DEF NextBatch, IdsOf
<1>9. \A i, j \in Fresh(old, new) : new[i].id = new[j].id => i = j
  BY <1>7 DEF NextBatch
<1>10. \A i, j \in 1 .. n : old[i].id = old[j].id => i = j
  BY <1>3, <1>5 DEF IInv, UniqueIds
<1>11. \A i, j \in 1 .. Len(new) : new[i].id = new[j].id => i = j
  BY <1>5, <1>6, <1>8, <1>9, <1>10
<1>12. ASSUME NEW i \in 1 .. Len(new)
       PROVE  new[i].rev = Cardinality(Below(new, new[i].stream, i))
  <2>1. CASE i \in 1 .. n
    <3>1. old[i].rev = Cardinality(Below(old, old[i].stream, i))
      BY <1>3, <1>5, <2>1 DEF IInv, DenseRevisions, Below
    <3>2. Below(new, new[i].stream, i) = Below(old, old[i].stream, i)
      BY <1>5, <2>1 DEF Below
    <3> QED BY <1>5, <2>1, <3>1, <3>2
  <2>2. CASE i \in Fresh(old, new)
    <3>1. new[i].stream = s
      BY <1>7, <2>2 DEF NextBatch
    <3>2. new[i].rev = Cardinality(Below(new, s, i))
      BY <1>1, <1>2, <1>3, <1>4, <1>7, <2>2, FreshIsDense
    <3> QED BY <3>1, <3>2
  <2> QED BY <1>6, <2>1, <2>2
<1>13. UniqueIds'
  BY <1>4, <1>5, <1>11 DEF UniqueIds
<1>14. DenseRevisions'
  BY <1>4, <1>5, <1>12 DEF DenseRevisions, Below
<1>15. IsLog(log)'
  BY DEF NextBatch, Grows, IsLog
<1> QED
  BY <1>13, <1>14, <1>15 DEF IInv

\* Whatever is appended, redelivered or refused, no id is in the log twice and
\* the revisions of a stream are 0, 1, 2, ...: what idempotence by event id and
\* the folds' gap detection rest on.
THEOREM ContractHolds == Spec => [](UniqueIds /\ DenseRevisions)
<1>1. Init => IInv
  <2> SUFFICES ASSUME Init PROVE IInv
    OBVIOUS
  <2>1. log \in Seq({}) /\ DOMAIN log = {}
    BY DEF Init
  <2>2. IsLog(log)
    BY <2>1, SeqIsLog
  <2> QED BY <2>1, <2>2 DEF IInv, UniqueIds, DenseRevisions
<1>2. IInv /\ [Next]_log => IInv'
  <2> SUFFICES ASSUME IInv, [Next]_log PROVE IInv'
    OBVIOUS
  <2>1. CASE UNCHANGED log
    BY <2>1 DEF IInv, IsLog, UniqueIds, DenseRevisions
  <2>2. CASE Next
    BY <2>2, NextBatchPreserves DEF Next
  <2> QED BY <2>1, <2>2
<1>3. IInv => UniqueIds /\ DenseRevisions
  BY DEF IInv
<1> QED
  BY <1>1, <1>2, <1>3, PTL DEF Spec
=============================================================================
