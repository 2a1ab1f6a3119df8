--------------------------- MODULE ReplayProofs ---------------------------
(***************************************************************************)
(* NothingPassed holds for every set of writers, batches and live streams, *)
(* with at most one replay at a time, and the log below implements the     *)
(* contract of EventLog.                                                   *)
(*                                                                         *)
(* The argument for the first has two halves.  TableInv: whoever holds the *)
(* lock is the only writer with rows in flight, and they lie above         *)
(* everything committed; so a commit never puts a row behind a position    *)
(* some reader has reached, because such a position is 0 or that of a      *)
(* committed row (ReaderInv).  The rest of ReaderInv says that a batch     *)
(* leaves out no row between its reader's position and any of its own      *)
(* rows: applying the lowest passes nothing.                               *)
(*                                                                         *)
(* For the second: rows that commit above all others are read after them,  *)
(* so that a commit appends; their revisions continue the stream's, because*)
(* nothing commits between the look at the head and the commit (WritesInv),*)
(* and a batch that does not look at it meets revision 0 of a stream that  *)
(* exists in the unique index (Begun).                                     *)
(***************************************************************************)
EXTENDS Replay, FiniteSetTheorems, TLAPS

Reached == {0} \cup Positions

Distinct(rows) == \A x, y \in rows : x.pos = y.pos => x = y

TableInv ==
    /\ seq \in Nat
    /\ IsFiniteSet(table)
    /\ \A row \in table : row.pos \in 1 .. seq
    /\ Distinct(table)
    /\ tx = [w \in Writer |-> tx[w]]
    /\ \A w \in Writer : tx[w].pc # "idle" => lock = w
    /\ \A w \in Writer : tx[w].pc = "locked" => tx[w].batch \in Batch
    /\ \A w \in Writer : tx[w].pc = "inserted" =>
         /\ IsFiniteSet(tx[w].rows)
         /\ Distinct(tx[w].rows)
         /\ \A row \in tx[w].rows :
               /\ row.pos \in 1 .. seq
               /\ \A old \in table : old.pos < row.pos

Runs == [pc : {"off", "read", "apply", "save", "wait", "finish", "promote"},
         at : Nat, batch : SUBSET table, count : Nat, tailing : BOOLEAN]

ReaderInv ==
    /\ st \in [Reader -> Runs]
    /\ active \in Reached
    /\ \A p \in Positions \ handed : active < p
    /\ \A s \in Reader :
         /\ st[s].at \in Reached
         /\ \A p \in Positions \ handed : st[s].at < p
         /\ \A row \in st[s].batch :
               /\ st[s].at < row.pos
               /\ \A other \in table :
                     st[s].at < other.pos /\ other.pos < row.pos => other \in st[s].batch
         /\ st[s].pc = "promote" => s \in Replayer /\ staged \in {NoPosition, st[s].at}
         /\ st[s].pc = "finish" => s \in Replayer

IInv == TableInv /\ ReaderInv

-----------------------------------------------------------------------------

\* The rows of an INSERT: new positions, all different, above the sequence.
LEMMA InsertedRows ==
    ASSUME seq \in Nat, NEW b \in Batch
    PROVE  /\ IsFiniteSet(Inserted(b))
           /\ Distinct(Inserted(b))
           /\ \A row \in Inserted(b) : row.pos \in seq + 1 .. seq + Len(b.events)
<1> DEFINE n == Len(b.events)
           F(i) == [pos |-> seq + i, id |-> b.events[i].id, body |-> b.events[i].body,
                    stream |-> b.stream, rev |-> BaseRevision(b) + i - 1]
<1>1. n \in Nat /\ DOMAIN b.events = 1 .. n
  BY BatchAssumption
<1>2. Inserted(b) = {F(i) : i \in 1 .. n}
  BY <1>1 DEF Inserted
<1>3. IsFiniteSet(1 .. n)
  BY <1>1, FS_Interval
<1>4. IsFiniteSet({F(i) : i \in 1 .. n})
  <2> DEFINE T == {F(i) : i \in 1 .. n}
             f == [i \in 1 .. n |-> F(i)]
  <2>1. f \in Surjection(1 .. n, T)
    BY DEF Surjection
  <2> HIDE DEF f, T
  <2>2. IsFiniteSet(T)
    BY <1>3, <2>1, FS_Surjection
  <2> QED BY <2>2 DEF T
<1>5. Distinct({F(i) : i \in 1 .. n})
  BY <1>1 DEF Distinct
<1>6. \A row \in {F(i) : i \in 1 .. n} : row.pos \in seq + 1 .. seq + n
  BY <1>1
<1> HIDE DEF F
<1> QED
  BY <1>2, <1>4, <1>5, <1>6

\* What a read returns leaves out no row below one of its own.
LEMMA ReadIsContiguous ==
    ASSUME TableInv, NEW after \in Nat, NEW row \in ReadAll(after, Limit),
           NEW other \in table, after < other.pos, other.pos < row.pos
    PROVE  other \in ReadAll(after, Limit)
<1>1. row.pos \in Nat /\ other.pos \in Nat
  BY DEF TableInv, ReadAll
<1>2. Between(after, other.pos) \subseteq Between(after, row.pos)
  BY <1>1 DEF Between, TableInv
<1>3. IsFiniteSet(Between(after, row.pos))
  BY FS_Subset DEF Between, TableInv
<1>4. /\ Cardinality(Between(after, other.pos)) \in Nat
      /\ Cardinality(Between(after, row.pos)) \in Nat
      /\ Cardinality(Between(after, other.pos)) <= Cardinality(Between(after, row.pos))
  BY <1>2, <1>3, FS_Subset, FS_CardinalityType
<1> QED
  BY <1>4, ReaderAssumption DEF ReadAll

-----------------------------------------------------------------------------

LEMMA InitEstablishes == Init => IInv
<1> SUFFICES ASSUME Init PROVE IInv
  OBVIOUS
<1>1. TableInv
  BY FS_EmptySet DEF Init, PgInit, TableInv, Distinct, NoTx
<1>2. st \in [Reader -> Runs]
  BY DEF Init, PgInit, Off, Runs
<1>3. ReaderInv
  BY <1>2 DEF Init, PgInit, Off, ReaderInv, Reached, Positions
<1> QED
  BY <1>1, <1>3 DEF IInv

\* A writer's step that leaves the table alone.
LEMMA WriterPreserves ==
    ASSUME TableInv, NEW w \in Writer,
           (\E b \in Batch : Begin(w, b)) \/ Insert(w) \/ Abort(w)
    PROVE  TableInv' /\ UNCHANGED table
<1>1. CASE \E b \in Batch : Begin(w, b)
  <2> PICK b \in Batch : Begin(w, b)
    BY <1>1
  <2> QED BY BatchAssumption DEF Begin, TableInv, Distinct
<1>2. CASE Abort(w)
  BY <1>2, BatchAssumption DEF Abort, Release, NoTx, TableInv, Distinct
<1>3. CASE Insert(w)
  <2> DEFINE b == tx[w].batch
  <2>1. b \in Batch /\ Len(b.events) \in Nat \ {0} /\ lock = w
    BY <1>3, BatchAssumption DEF Insert, TableInv
  <2>2. CASE tx' = [tx EXCEPT ![w] = NoTx] /\ seq' \in Nat /\ seq <= seq'
    <3>1. UNCHANGED table
      BY <1>3 DEF Insert
    <3>2. \A v \in Writer : tx'[v].pc # "idle" => v # w /\ tx'[v] = tx[v]
      BY <2>2 DEF NoTx, TableInv
    <3>3. \A v \in Writer : tx'[v].pc = "idle"
      BY <2>1, <3>2 DEF TableInv
    <3>4. \A row \in table : row.pos \in 1 .. seq'
      BY <2>2 DEF TableInv
    <3>5. tx' = [v \in Writer |-> tx'[v]]
      BY <2>2 DEF TableInv
    <3> QED BY <3>1, <3>3, <3>4, <3>5, <2>2 DEF TableInv, Distinct
  <2>3. CASE tx' = [tx EXCEPT ![w] = [pc |-> "inserted", rows |-> Inserted(b)]]
              /\ seq' = seq + Len(b.events)
    <3>1. UNCHANGED table /\ UNCHANGED lock
      BY <1>3, <2>3 DEF Insert, Release, NoTx, TableInv
    <3>2. /\ tx' = [v \in Writer |-> tx'[v]]
          /\ tx'[w] = [pc |-> "inserted", rows |-> Inserted(b)]
          /\ \A v \in Writer \ {w} : tx'[v] = tx[v] /\ tx[v].pc = "idle"
      BY <2>1, <2>3 DEF TableInv
    <3>3. seq' \in Nat /\ seq <= seq'
      BY <2>1, <2>3 DEF TableInv
    <3>4. \A row \in table : row.pos \in 1 .. seq'
      BY <3>3 DEF TableInv
    <3>5. /\ IsFiniteSet(Inserted(b)) /\ Distinct(Inserted(b))
          /\ \A row \in Inserted(b) : row.pos \in seq + 1 .. seq + Len(b.events)
      BY <2>1, InsertedRows DEF TableInv
    <3>6. \A row \in Inserted(b) :
             row.pos \in 1 .. seq' /\ \A old \in table : old.pos < row.pos
      BY <2>1, <2>3, <3>5 DEF TableInv
    <3>7. \A v \in Writer : tx'[v].pc = "inserted" => v = w
      BY <3>2
    <3> HIDE DEF b
    <3> QED BY <2>1, <3>1, <3>2, <3>3, <3>4, <3>5, <3>6, <3>7 DEF TableInv, Distinct
  <2> QED BY <1>3, <2>1, <2>2, <2>3 DEF Insert, Release, TableInv
<1> QED BY <1>1, <1>2, <1>3

\* A commit: every new row lies above all the old ones.
LEMMA CommitPreserves ==
    ASSUME TableInv, NEW w \in Writer, Commit(w)
    PROVE  /\ TableInv'
           /\ table \subseteq table'
           /\ \A row \in table' \ table :
                 row.pos \in Nat \ {0} /\ \A old \in table : old.pos < row.pos
<1> DEFINE new == tx[w].rows
<1>1. /\ table' = table \cup new
      /\ tx' = [tx EXCEPT ![w] = NoTx]
      /\ tx[w].pc = "inserted" /\ lock = w /\ seq' = seq
  BY DEF Commit, Release, TableInv
<1>2. /\ IsFiniteSet(new) /\ Distinct(new)
      /\ \A row \in new : row.pos \in 1 .. seq /\ \A old \in table : old.pos < row.pos
  BY <1>1 DEF TableInv
<1>3. IsFiniteSet(table')
  BY <1>1, <1>2, FS_Union DEF TableInv
<1>4. \A row \in table' : row.pos \in 1 .. seq'
  BY <1>1, <1>2 DEF TableInv
<1>5. Distinct(table')
  <2> SUFFICES ASSUME NEW x \in table', NEW y \in table', x.pos = y.pos PROVE x = y
    BY DEF Distinct
  <2>1. x.pos \in Nat /\ y.pos \in Nat
    BY <1>1, <1>2 DEF TableInv
  <2> QED BY <1>1, <1>2, <2>1 DEF TableInv, Distinct
<1>6. \A v \in Writer : tx'[v].pc = "idle"
  BY <1>1 DEF TableInv, NoTx
<1>7. tx' = [v \in Writer |-> tx'[v]]
  BY <1>1 DEF TableInv
<1> HIDE DEF new
<1>8. TableInv'
  BY <1>1, <1>3, <1>4, <1>5, <1>6, <1>7 DEF TableInv
<1> QED
  BY <1>1, <1>2, <1>8 DEF TableInv

-----------------------------------------------------------------------------

\* The readers do not mind a step that leaves them, and the table, alone.
LEMMA ReadersAlone ==
    ASSUME ReaderInv, UNCHANGED table, UNCHANGED replayVars
    PROVE  ReaderInv'
BY DEF ReaderInv, replayVars, Runs, Reached, Positions

\* Nor a commit: the new rows lie above every position they have reached.
LEMMA ReadersSurviveCommit ==
    ASSUME TableInv, ReaderInv, table \subseteq table',
           \A row \in table' \ table :
               row.pos \in Nat \ {0} /\ \A old \in table : old.pos < row.pos,
           UNCHANGED <<active, staged, st, handed>>
    PROVE  ReaderInv'
<1>1. \A row \in table : row.pos \in Nat
  BY DEF TableInv
<1>2. \A x \in Reached, row \in table' \ table : x < row.pos
  BY <1>1 DEF Reached, Positions
<1>3. Reached \subseteq Reached'
  BY DEF Reached, Positions
<1>4. \A x \in Reached :
         (\A p \in Positions \ handed : x < p) => (\A p \in Positions' \ handed : x < p)
  BY <1>2 DEF Positions
<1>5. st \in [Reader -> Runs']
  BY DEF ReaderInv, Runs
<1>6. ASSUME NEW s \in Reader, NEW row \in st[s].batch, NEW other \in table',
             st[s].at < other.pos, other.pos < row.pos
      PROVE  other \in st[s].batch
  <2>1. row \in table
    BY <1>6 DEF ReaderInv, Runs
  <2>2. CASE other \in table
    BY <1>6, <2>1, <2>2 DEF ReaderInv
  <2>3. CASE other \notin table
    BY <1>1, <1>6, <2>1, <2>3
  <2> QED BY <2>2, <2>3
<1> QED
  BY <1>3, <1>4, <1>5, <1>6 DEF ReaderInv

\* A reader's step: what its new run has to satisfy.
LEMMA RunReplaced ==
    ASSUME ReaderInv, NEW s \in Reader, NEW run \in Runs, st' = [st EXCEPT ![s] = run],
           UNCHANGED table, handed \subseteq handed',
           active' \in Reached, \A p \in Positions \ handed' : active' < p,
           run.at \in Reached, \A p \in Positions \ handed' : run.at < p,
           \A row \in run.batch :
               /\ run.at < row.pos
               /\ \A other \in table :
                     run.at < other.pos /\ other.pos < row.pos => other \in run.batch,
           run.pc = "promote" => s \in Replayer /\ staged' \in {NoPosition, run.at},
           run.pc = "finish" => s \in Replayer,
           \/ UNCHANGED staged
           \/ s \in Replayer
    PROVE  ReaderInv'
<1>1. /\ st'[s] = run
      /\ \A r \in Reader \ {s} : st'[r] = st[r]
  BY DEF ReaderInv
<1>2. Reached' = Reached /\ Positions' = Positions /\ Runs' = Runs
  BY DEF Reached, Positions, Runs
<1>3. st' \in [Reader -> Runs']
  BY <1>2 DEF ReaderInv
<1>4. ASSUME NEW r \in Reader
      PROVE  /\ st'[r].at \in Reached
             /\ \A p \in Positions \ handed' : st'[r].at < p
             /\ st'[r].pc = "promote" => r \in Replayer /\ staged' \in {NoPosition, st'[r].at}
             /\ st'[r].pc = "finish" => r \in Replayer
             /\ \A row \in st'[r].batch :
                   /\ st'[r].at < row.pos
                   /\ \A other \in table :
                         st'[r].at < other.pos /\ other.pos < row.pos => other \in st'[r].batch
  <2>1. CASE r = s
    BY <1>1, <2>1
  <2>2. CASE r # s
    <3>1. st'[r] = st[r]
      BY <1>1, <2>2
    <3>2. st[r].pc = "promote" => UNCHANGED staged
      BY <2>2, OneReplay DEF ReaderInv
    <3> QED BY <3>1, <3>2 DEF ReaderInv
  <2> QED BY <2>1, <2>2
<1> QED
  BY <1>2, <1>3, <1>4 DEF ReaderInv

LEMMA OpenPreserves ==
    ASSUME IInv, NEW s \in Reader, Open(s)
    PROVE  ReaderInv'
<1>1. UNCHANGED <<table, active, handed>>
  BY DEF Open, pgVars
<1>2. PICK from \in {0, active} : st' = [st EXCEPT ![s] = Run(from)]
  BY DEF Open
<1>3. /\ from \in Nat /\ from \in Reached /\ \A p \in Positions \ handed : from < p
      /\ active \in Reached /\ \A p \in Positions \ handed : active < p
  BY <1>2 DEF IInv, TableInv, ReaderInv, Reached, Positions
<1> DEFINE run == Run(from)
<1>4. run = [pc |-> "read", at |-> from, batch |-> {}, count |-> 0, tailing |-> FALSE]
  BY DEF Run
<1>5. run \in Runs /\ run.at = from /\ run.batch = {} /\ run.pc = "read"
  <2> HIDE DEF run
  <2> QED BY <1>3, <1>4 DEF Runs
<1>6. UNCHANGED staged \/ s \in Replayer
  BY DEF Open, Reader
<1>7. st' = [st EXCEPT ![s] = run]
  BY <1>2
<1>8. active' \in Reached /\ \A p \in Positions \ handed' : active' < p
  BY <1>1, <1>3
<1> HIDE DEF run
<1> QED
  BY <1>1, <1>3, <1>5, <1>6, <1>7, <1>8, RunReplaced DEF IInv

LEMMA ReadPreserves ==
    ASSUME IInv, NEW s \in Reader, Read(s)
    PROVE  ReaderInv'
<1> DEFINE got == ReadAll(st[s].at, Limit)
           run == [st[s] EXCEPT !.batch = got,
                                !.pc = IF got # {} THEN "apply"
                                       ELSE IF s \in Live THEN "wait" ELSE "finish",
                                !.tailing = @ \/ got = {}]
<1>1. st[s] \in Runs /\ st[s].at \in Nat
  BY DEF IInv, ReaderInv, Runs
<1>2. st' = [st EXCEPT ![s] = run] /\ UNCHANGED <<table, handed, active, staged>>
  BY <1>1 DEF Read, pgVars, IInv, ReaderInv, Runs
<1>3. got \subseteq table
  BY DEF ReadAll
<1>4. /\ run \in Runs /\ run.at = st[s].at /\ run.batch = got
      /\ run.pc # "promote" /\ (run.pc = "finish" => s \in Replayer)
  BY <1>1, <1>3 DEF Runs, Reader
<1>5. ASSUME NEW row \in got
      PROVE  /\ st[s].at < row.pos
             /\ \A other \in table :
                   st[s].at < other.pos /\ other.pos < row.pos => other \in got
  BY <1>1, ReadIsContiguous DEF ReadAll, IInv
<1> HIDE DEF got, run
<1> QED
  BY <1>2, <1>4, <1>5, RunReplaced DEF IInv, ReaderInv

\* Apply passes no row: the lowest of a contiguous batch is the next one.
LEMMA ApplyPreserves ==
    ASSUME IInv, NEW s \in Reader, Apply(s)
    PROVE  ReaderInv'
<1>1. PICK row \in st[s].batch :
         /\ st[s].pc = "apply"
         /\ Lowest(row, st[s].batch)
         /\ handed' = handed \cup {row.pos}
         /\ st' = Advanced(s, row)
         /\ staged' = IF s \in Replayer /\ (st[s].count + 1) % Interval = 0
                      THEN row.pos ELSE staged
         /\ UNCHANGED <<table, active>>
  BY DEF Apply, pgVars
<1> DEFINE rest == st[s].batch \ {row}
           run == [st[s] EXCEPT !.at = row.pos, !.count = (@ + 1) % Interval, !.batch = rest,
                                !.pc = IF rest # {} THEN "apply"
                                       ELSE IF s \in Live THEN "save" ELSE "read"]
<1>2. st[s] \in Runs /\ st[s].count \in Nat /\ st[s].batch \subseteq table /\ row \in table
  BY <1>1 DEF IInv, ReaderInv, Runs
<1>3. \A other \in table : other.pos \in Nat
  BY DEF IInv, TableInv
<1>4. st' = [st EXCEPT ![s] = run]
  BY <1>1, <1>2 DEF Advanced, IInv, ReaderInv, Runs
<1>5. (st[s].count + 1) % Interval \in Nat
  BY <1>2, ReaderAssumption
<1>6. /\ run \in Runs /\ run.at = row.pos /\ run.batch = rest
      /\ run.pc \notin {"promote", "finish"}
  BY <1>2, <1>3, <1>5 DEF Runs
<1>7. row.pos \in Reached
  BY <1>2 DEF Reached, Positions
<1>8. ASSUME NEW other \in table, other.pos \notin handed' PROVE row.pos < other.pos
  <2>1. other.pos \notin handed /\ other.pos # row.pos
    BY <1>1, <1>8
  <2>2. st[s].at < other.pos
    BY <2>1 DEF IInv, ReaderInv, Positions
  <2>3. ~(other.pos < row.pos)
    BY <1>1, <1>2, <1>3, <2>2 DEF Lowest, IInv, ReaderInv
  <2> QED BY <1>2, <1>3, <2>1, <2>3
<1>9. ASSUME NEW x \in rest
      PROVE  /\ row.pos < x.pos
             /\ \A other \in table : row.pos < other.pos /\ other.pos < x.pos => other \in rest
  <2>1. x # row /\ x \in table /\ x.pos # row.pos
    BY <1>2 DEF IInv, TableInv, Distinct
  <2>2. row.pos < x.pos
    BY <1>1, <1>2, <1>3, <2>1 DEF Lowest
  <2>3. ASSUME NEW other \in table, row.pos < other.pos, other.pos < x.pos PROVE other \in rest
    <3>1. st[s].at < row.pos /\ st[s].at \in Nat
      BY <1>1, <1>2 DEF IInv, ReaderInv, Runs
    <3>2. st[s].at < other.pos
      BY <1>2, <1>3, <2>3, <3>1
    <3>3. other \in st[s].batch
      BY <2>3, <3>2 DEF IInv, ReaderInv
    <3> QED BY <1>2, <1>3, <2>3, <3>3
  <2> QED BY <2>2, <2>3
<1>10. active \in Reached /\ \A p \in Positions \ handed' : active < p
  BY <1>1 DEF IInv, ReaderInv
<1>11. \A p \in Positions \ handed' : row.pos < p
  BY <1>8 DEF Positions
<1> HIDE DEF rest, run
<1> QED
  BY <1>1, <1>4, <1>6, <1>7, <1>9, <1>10, <1>11, RunReplaced DEF IInv

\* The steps that keep the batch and the position of the run.
LEMMA RunKept ==
    ASSUME IInv, NEW s \in Reader,
           NEW pc \in {"read", "apply", "save", "wait", "finish", "promote"},
           st' = [st EXCEPT ![s].pc = pc], UNCHANGED <<table, handed>>,
           active' \in {active, st[s].at},
           pc \in {"finish", "promote"} => s \in Replayer,
           pc = "promote" => staged' = st[s].at,
           UNCHANGED staged \/ s \in Replayer
    PROVE  ReaderInv'
<1> DEFINE run == [st[s] EXCEPT !.pc = pc]
<1>1. st[s] \in Runs
  BY DEF IInv, ReaderInv
<1>2. /\ run \in Runs /\ run.pc = pc /\ run.at = st[s].at /\ run.batch = st[s].batch
  BY <1>1 DEF Runs
<1>3. st' = [st EXCEPT ![s] = run]
  BY <1>1 DEF Runs, IInv, ReaderInv
<1>4. active' \in Reached /\ \A p \in Positions \ handed' : active' < p
  BY DEF IInv, ReaderInv
<1> HIDE DEF run
<1> QED
  BY <1>2, <1>3, <1>4, RunReplaced DEF IInv, ReaderInv

\* A run that ends leaves nothing behind but, after a promotion, the pointer.
LEMMA RunEnded ==
    ASSUME IInv, NEW s \in Reader, st' = [st EXCEPT ![s] = Off],
           UNCHANGED <<table, handed>>, active' \in {active, st[s].at},
           UNCHANGED staged \/ s \in Replayer
    PROVE  ReaderInv'
<1>1. Off \in Runs /\ Off.pc = "off" /\ Off.at = 0 /\ Off.batch = {}
  BY DEF Off, Runs
<1>2. 0 \in Reached /\ \A p \in Positions : 0 < p
  BY DEF Reached, Positions, IInv, TableInv
<1>3. active' \in Reached /\ \A p \in Positions \ handed' : active' < p
  BY DEF IInv, ReaderInv
<1> QED
  BY <1>1, <1>2, <1>3, RunReplaced DEF IInv

LEMMA ReaderPreserves ==
    ASSUME IInv, NEW s \in Reader,
           \/ Open(s) \/ Read(s) \/ Apply(s) \/ Save(s) \/ Wake(s)
           \/ Finish(s) \/ Promote(s) \/ Stops(s)
    PROVE  ReaderInv' /\ UNCHANGED pgVars
<1>1. CASE Open(s)
  BY <1>1, OpenPreserves DEF Open
<1>2. CASE Read(s)
  BY <1>2, ReadPreserves DEF Read
<1>3. CASE Apply(s)
  BY <1>3, ApplyPreserves DEF Apply
<1>4. CASE Save(s)
  <2>1. UNCHANGED pgVars /\ UNCHANGED <<table, handed, staged>> /\ active' = st[s].at
    BY <1>4 DEF Save, pgVars
  <2>2. PICK pc \in {"wait", "read"} : st' = [st EXCEPT ![s].pc = pc]
    BY <1>4 DEF Save
  <2> QED BY <2>1, <2>2, RunKept
<1>5. CASE Wake(s)
  <2>1. /\ UNCHANGED pgVars /\ UNCHANGED <<table, handed, staged, active>>
        /\ st' = [st EXCEPT ![s].pc = "read"]
    BY <1>5 DEF Wake, pgVars
  <2> QED BY <2>1, RunKept
<1>6. CASE Finish(s)
  <2>1. /\ UNCHANGED pgVars /\ UNCHANGED <<table, handed, active>>
        /\ st' = [st EXCEPT ![s].pc = "promote"] /\ staged' = st[s].at
        /\ s \in Replayer
    BY <1>6 DEF Finish, pgVars, IInv, ReaderInv
  <2> QED BY <2>1, RunKept
<1>7. CASE Promote(s)
  <2>1. /\ UNCHANGED pgVars /\ UNCHANGED <<table, handed>>
        /\ st' = [st EXCEPT ![s] = Off]
        /\ s \in Replayer /\ staged \in {NoPosition, st[s].at}
    BY <1>7 DEF Promote, pgVars, IInv, ReaderInv
  <2>2. active' \in {active, st[s].at}
    BY <1>7, <2>1 DEF Promote
  <2> QED BY <2>1, <2>2, RunEnded
<1>8. CASE Stops(s)
  <2>1. /\ UNCHANGED pgVars /\ UNCHANGED <<table, handed, staged, active>>
        /\ st' = [st EXCEPT ![s] = Off]
    BY <1>8 DEF Stops, pgVars
  <2> QED BY <2>1, RunEnded
<1> QED
  BY <1>1, <1>2, <1>3, <1>4, <1>5, <1>6, <1>7, <1>8

LEMMA NextPreserves == IInv /\ [Next]_vars => IInv'
<1> SUFFICES ASSUME IInv, [Next]_vars PROVE IInv'
  OBVIOUS
<1>1. CASE \E s \in Reader : \/ Open(s) \/ Read(s) \/ Apply(s) \/ Save(s) \/ Wake(s)
                             \/ Finish(s) \/ Promote(s) \/ Stops(s)
  <2>1. ReaderInv' /\ UNCHANGED pgVars
    BY <1>1, ReaderPreserves
  <2>2. TableInv'
    BY <2>1 DEF IInv, TableInv, pgVars, Distinct
  <2> QED BY <2>1, <2>2 DEF IInv
<1>2. ASSUME NEW w \in Writer, UNCHANGED replayVars,
             (\E b \in Batch : Begin(w, b)) \/ Insert(w) \/ Abort(w)
      PROVE  IInv'
  BY <1>2, WriterPreserves, ReadersAlone DEF IInv
<1>3. ASSUME NEW w \in Writer, Commit(w), UNCHANGED <<active, staged, st, handed>>
      PROVE  IInv'
  BY <1>3, CommitPreserves, ReadersSurviveCommit DEF IInv
<1>4. CASE UNCHANGED vars
  <2>1. UNCHANGED pgVars /\ UNCHANGED replayVars
    BY <1>4 DEF vars
  <2>2. TableInv'
    BY <2>1 DEF IInv, TableInv, pgVars, Distinct
  <2>3. ReaderInv'
    BY <2>1, ReadersAlone DEF IInv, pgVars
  <2> QED BY <2>2, <2>3 DEF IInv
<1> QED
  BY <1>1, <1>2, <1>3, <1>4 DEF Next

\* A row that commits is never behind a reader or the promoted position, unless
\* it was applied: the advisory lock is what makes position > cursor a safe way
\* to tail, and the pointer is written only after apply.
THEOREM NothingPassedHolds == Spec => []NothingPassed
<1>1. Init => IInv
  BY InitEstablishes
<1>2. IInv /\ [Next]_vars => IInv'
  BY NextPreserves
<1>3. IInv => NothingPassed
  BY DEF IInv, ReaderInv, NothingPassed
<1> QED
  BY <1>1, <1>2, <1>3, PTL DEF Spec

-----------------------------------------------------------------------------
(* The refinement of EventLog.                                              *)

Numbered(rows) ==
    IsFiniteSet(rows) /\ Distinct(rows) /\ \A row \in rows : row.pos \in Nat

\* A row has fewer rows below it than there are, and no other has as many.
LEMMA RankIsOwn ==
    ASSUME NEW T, Numbered(T), NEW x \in T
    PROVE  /\ Cardinality(Below(T, x)) \in Nat
           /\ Cardinality(Below(T, x)) < Cardinality(T)
           /\ \A y \in T : x.pos < y.pos =>
                 Cardinality(Below(T, x)) < Cardinality(Below(T, y))
<1>1. /\ IsFiniteSet(T) /\ Cardinality(T) \in Nat
      /\ \A y \in T : IsFiniteSet(Below(T, y)) /\ Cardinality(Below(T, y)) \in Nat
  BY FS_Subset, FS_CardinalityType DEF Numbered, Below
<1>2. x.pos \in Nat /\ x \notin Below(T, x)
  BY DEF Numbered, Below
<1> DEFINE more == Below(T, x) \cup {x}
<1>3. IsFiniteSet(more) /\ Cardinality(more) = Cardinality(Below(T, x)) + 1
  BY <1>1, <1>2, FS_AddElement
<1>4. more \subseteq T
  BY DEF Below
<1>5. Cardinality(Below(T, x)) < Cardinality(T)
  <2>1. Cardinality(more) <= Cardinality(T)
    BY <1>1, <1>4, FS_Subset
  <2> QED BY <1>1, <1>3, <2>1
<1>6. ASSUME NEW y \in T, x.pos < y.pos
      PROVE  Cardinality(Below(T, x)) < Cardinality(Below(T, y))
  <2>1. more \subseteq Below(T, y)
    BY <1>2, <1>6 DEF Below, Numbered
  <2>2. Cardinality(more) <= Cardinality(Below(T, y))
    BY <1>1, <2>1, FS_Subset
  <2> QED BY <1>1, <1>3, <2>2
<1> QED
  BY <1>1, <1>5, <1>6

LEMMA RankTells ==
    ASSUME NEW T, Numbered(T), NEW x \in T, NEW y \in T,
           Cardinality(Below(T, x)) = Cardinality(Below(T, y))
    PROVE  x = y
<1>1. /\ Cardinality(Below(T, x)) \in Nat
      /\ ~(x.pos < y.pos) /\ ~(y.pos < x.pos)
  BY RankIsOwn
<1> QED
  BY <1>1 DEF Numbered, Distinct

\* A read in position order returns every row once, in its place.
LEMMA InOrderIsAll ==
    ASSUME NEW T, Numbered(T)
    PROVE  /\ Cardinality(T) \in Nat
           /\ DOMAIN InOrder(T) = 1 .. Cardinality(T)
           /\ \A i \in 1 .. Cardinality(T) :
                 InOrder(T)[i] \in T /\ Cardinality(Below(T, InOrder(T)[i])) = i - 1
<1> DEFINE n == Cardinality(T)
           rank == [x \in T |-> Cardinality(Below(T, x)) + 1]
<1>1. n \in Nat /\ IsFiniteSet(T) /\ IsFiniteSet(1 .. n) /\ Cardinality(1 .. n) = n
  BY FS_CardinalityType, FS_Interval DEF Numbered
<1>2. \A x \in T : Cardinality(Below(T, x)) \in Nat /\ Cardinality(Below(T, x)) < n
  BY RankIsOwn
<1>3. \A x \in T : rank[x] \in 1 .. n
  BY <1>1, <1>2
<1>4. \A x, y \in T : rank[x] = rank[y] => x = y
  <2> SUFFICES ASSUME NEW x \in T, NEW y \in T, rank[x] = rank[y] PROVE x = y
    OBVIOUS
  <2>1. Cardinality(Below(T, x)) = Cardinality(Below(T, y))
    BY <1>2
  <2> QED BY <2>1, RankTells
<1> HIDE DEF n
<1>5. rank \in Injection(T, 1 .. n)
  BY <1>3, <1>4 DEF Injection, IsInjective
<1>6. Cardinality(T) = Cardinality(1 .. n)
  BY <1>1 DEF n
<1>7. rank \in Surjection(T, 1 .. n)
  BY <1>1, <1>5, <1>6, FS_Injection
<1>8. \A i \in 1 .. n : \E x \in T : rank[x] = i
  BY <1>7 DEF Surjection
<1>9. ASSUME NEW i \in 1 .. n PROVE \E x \in T : Cardinality(Below(T, x)) = i - 1
  <2>1. PICK x \in T : rank[x] = i
    BY <1>8
  <2>2. Cardinality(Below(T, x)) + 1 = i
    BY <2>1
  <2> QED BY <1>2, <2>2
<1> HIDE DEF rank
<1>10. DOMAIN InOrder(T) = 1 .. n
  BY DEF InOrder, n
<1>11. ASSUME NEW i \in 1 .. n
       PROVE  InOrder(T)[i] \in T /\ Cardinality(Below(T, InOrder(T)[i])) = i - 1
  <2>1. InOrder(T)[i] = CHOOSE x \in T : Cardinality(Below(T, x)) = i - 1
    BY DEF InOrder, n
  <2> QED BY <1>9, <2>1
<1> QED
  BY <1>1, <1>10, <1>11 DEF n

\* A row is found at the place its rank says.
LEMMA PlaceOf ==
    ASSUME NEW T, Numbered(T), NEW x \in T
    PROVE  /\ Cardinality(Below(T, x)) + 1 \in 1 .. Cardinality(T)
           /\ InOrder(T)[Cardinality(Below(T, x)) + 1] = x
<1> DEFINE i == Cardinality(Below(T, x)) + 1
<1>1. Cardinality(Below(T, x)) \in Nat /\ Cardinality(T) \in Nat
      /\ Cardinality(Below(T, x)) < Cardinality(T)
  BY RankIsOwn, FS_CardinalityType DEF Numbered
<1>2. i \in 1 .. Cardinality(T) /\ i - 1 = Cardinality(Below(T, x))
  BY <1>1
<1>3. InOrder(T)[i] \in T /\ Cardinality(Below(T, InOrder(T)[i])) = i - 1
  BY <1>2, InOrderIsAll
<1>4. InOrder(T)[i] = x
  BY <1>2, <1>3, RankTells
<1> QED
  BY <1>2, <1>4

\* How many rows a batch has, whatever its rows are.
LEMMA ImageCount ==
    ASSUME NEW f, NEW k \in Nat, DOMAIN f = 1 .. k,
           \A i, j \in 1 .. k : f[i] = f[j] => i = j,
           NEW S, \A i \in 1 .. k : f[i] \in S, \A x \in S : \E i \in 1 .. k : x = f[i]
    PROVE  IsFiniteSet(S) /\ Cardinality(S) = k
<1> DEFINE g == [i \in 1 .. k |-> f[i]]
<1>1. IsFiniteSet(1 .. k) /\ Cardinality(1 .. k) = k
  BY FS_Interval
<1>2. \A i \in 1 .. k : g[i] = f[i]
  OBVIOUS
<1>3. g \in [1 .. k -> S] /\ \A y \in S : \E i \in 1 .. k : g[i] = y
  OBVIOUS
<1>4. \A i, j \in 1 .. k : g[i] = g[j] => i = j
  BY <1>2
<1> HIDE DEF g
<1>5. g \in Bijection(1 .. k, S)
  BY <1>3, <1>4 DEF Bijection, Injection, Surjection, IsInjective
<1>6. ExistsBijection(1 .. k, S)
  BY <1>5 DEF ExistsBijection
<1>7. IsFiniteSet(S) /\ Cardinality(S) = k
  BY <1>1, <1>6, FS_Bijection
<1> QED
  BY <1>7

\* The rows f[1], ..., f[m] lie above those of T, at the positions after base.
OnTop(f, m, base, T, all) ==
    /\ m \in Nat \ {0} /\ base \in Nat /\ DOMAIN f = 1 .. m
    /\ \A i \in 1 .. m : f[i].pos = base + i
    /\ \A i \in 1 .. m, old \in T : old.pos < f[i].pos
    /\ T \subseteq all /\ \A i \in 1 .. m : f[i] \in all
    /\ \A x \in all \ T : \E i \in 1 .. m : x = f[i]

\* Rows that come to lie above all others are read after them, in their order.
LEMMA OrderGrows ==
    ASSUME NEW T, Numbered(T), NEW f, NEW m, NEW base, NEW all, OnTop(f, m, base, T, all),
           NEW n, n = Cardinality(T)
    PROVE  /\ Numbered(all)
           /\ Cardinality(all) = n + m
           /\ \A i \in 1 .. n : InOrder(all)[i] = InOrder(T)[i]
           /\ \A i \in 1 .. m : InOrder(all)[n + i] = f[i]
<1> USE DEF OnTop
<1> DEFINE N == {f[i] : i \in 1 .. m}
<1>0. all = T \cup N
  OBVIOUS
<1>1. n \in Nat /\ IsFiniteSet(T) /\ \A row \in T : row.pos \in Nat
  BY FS_CardinalityType DEF Numbered
<1>2. \A i, j \in 1 .. m : f[i] = f[j] => i = j
  <2> SUFFICES ASSUME NEW i \in 1 .. m, NEW j \in 1 .. m, f[i] = f[j] PROVE i = j
    OBVIOUS
  <2>1. base + i = base + j
    OBVIOUS
  <2> QED BY <2>1
<1>3. IsFiniteSet(N) /\ Cardinality(N) = m
  <2>1. m \in Nat
    OBVIOUS
  <2>2. (\A i \in 1 .. m : f[i] \in N) /\ \A x \in N : \E i \in 1 .. m : x = f[i]
    OBVIOUS
  <2> HIDE DEF N
  <2> QED BY <1>2, <2>1, <2>2, ImageCount
<1>4. T \cap N = {}
  <2> SUFFICES ASSUME NEW i \in 1 .. m, f[i] \in T PROVE FALSE
    OBVIOUS
  <2>1. f[i].pos < f[i].pos /\ f[i].pos \in Nat
    BY <1>1
  <2> QED BY <2>1
<1>5. IsFiniteSet(all) /\ Cardinality(all) = n + m
  <2>1. Cardinality(T \cap N) = 0
    BY <1>4, FS_EmptySet
  <2>2. IsFiniteSet(T \cup N) /\ Cardinality(T \cup N) = n + m - Cardinality(T \cap N)
    BY <1>1, <1>3, FS_Union
  <2> QED BY <1>0, <1>1, <2>1, <2>2
<1>6. \A row \in N : row.pos \in Nat /\ \A old \in T : old.pos < row.pos
  OBVIOUS
<1>7. Distinct(all)
  <2> SUFFICES ASSUME NEW x \in all, NEW y \in all, x.pos = y.pos PROVE x = y
    BY DEF Distinct
  <2>1. CASE x \in T /\ y \in T
    BY <2>1 DEF Numbered, Distinct
  <2>2. CASE x \in N /\ y \in N
    <3>1. PICK i \in 1 .. m, j \in 1 .. m : x = f[i] /\ y = f[j]
      BY <2>2
    <3>2. base + i = base + j
      BY <3>1
    <3>3. i = j
      BY <3>2
    <3> QED BY <3>1, <3>3
  <2> HIDE DEF N
  <2>3. CASE (x \in T /\ y \in N) \/ (x \in N /\ y \in T)
    BY <1>1, <1>6, <2>3
  <2> QED BY <1>0, <2>1, <2>2, <2>3
<1>8. Numbered(all)
  BY <1>0, <1>1, <1>5, <1>6, <1>7 DEF Numbered
<1> HIDE DEF N
<1>9. ASSUME NEW i \in 1 .. n PROVE InOrder(all)[i] = InOrder(T)[i]
  <2>1. PICK x : x = InOrder(T)[i]
    OBVIOUS
  <2>2. x \in T /\ Cardinality(Below(T, x)) = i - 1
    BY <2>1, InOrderIsAll
  <2>3. Below(all, x) = Below(T, x)
    <3>1. \A row \in N : ~(row.pos < x.pos)
      BY <1>1, <1>6, <2>2
    <3> QED BY <1>0, <3>1 DEF Below
  <2>4. InOrder(all)[Cardinality(Below(all, x)) + 1] = x
    BY <1>0, <1>8, <2>2, PlaceOf
  <2>5. i - 1 + 1 = i
    BY <1>1
  <2> QED BY <2>1, <2>2, <2>3, <2>4, <2>5
<1>10. ASSUME NEW i \in 1 .. m PROVE InOrder(all)[n + i] = f[i]
  <2> DEFINE L == {f[j] : j \in 1 .. i - 1}
             h == [j \in 1 .. i - 1 |-> f[j]]
  <2>1. i - 1 \in Nat /\ 1 .. i - 1 \subseteq 1 .. m
    OBVIOUS
  <2>2. IsFiniteSet(L) /\ Cardinality(L) = i - 1
    <3>1. PICK k \in Nat : k = i - 1
      BY <2>1
    <3>2. /\ DOMAIN h = 1 .. k
          /\ \A j \in 1 .. k : h[j] \in L
          /\ \A x \in L : \E j \in 1 .. k : x = h[j]
      BY <3>1
    <3>3. \A j, l \in 1 .. k : h[j] = h[l] => j = l
      BY <1>2, <2>1, <3>1
    <3> HIDE DEF h, L
    <3>4. IsFiniteSet(L) /\ Cardinality(L) = k
      <4>1. k \in Nat
        BY <3>1
      <4>2. \A x, y \in 1 .. k : h[x] = h[y] => x = y
        BY <3>3
      <4>3. ASSUME NEW S, \A j \in 1 .. k : h[j] \in S, \A x \in S : \E j \in 1 .. k : x = h[j]
            PROVE IsFiniteSet(S) /\ Cardinality(S) = k
        BY <3>2, <4>1, <4>2, <4>3, ImageCount
      <4> QED BY <3>2, <4>3
    <3> QED BY <3>1, <3>4
  <2>3. Below(all, f[i]) = T \cup L
    <3>1. \A row \in T : row.pos < f[i].pos
      OBVIOUS
    <3>2. \A j \in 1 .. m : f[j].pos < f[i].pos <=> j \in 1 .. i - 1
      <4> SUFFICES ASSUME NEW j \in 1 .. m PROVE f[j].pos < f[i].pos <=> j \in 1 .. i - 1
        OBVIOUS
      <4>1. f[j].pos = base + j /\ f[i].pos = base + i
        OBVIOUS
      <4> QED BY <4>1
    <3>3. \A row \in all : row \in T \/ \E j \in 1 .. m : row = f[j]
      OBVIOUS
    <3>4. ASSUME NEW row \in Below(all, f[i]) PROVE row \in T \cup L
      BY <3>2, <3>3, <3>4 DEF Below
    <3>5. T \subseteq Below(all, f[i])
      BY <3>1 DEF Below
    <3>6. \A j \in 1 .. i - 1 : f[j] \in all /\ f[j].pos < f[i].pos
      BY <2>1, <3>2
    <3>7. L \subseteq Below(all, f[i])
      BY <3>6 DEF Below
    <3> QED BY <3>4, <3>5, <3>7
  <2>4. T \cap L = {}
    BY <1>4, <2>1 DEF N
  <2> HIDE DEF L, h
  <2>5. Cardinality(T \cup L) = n + (i - 1)
    <3>1. Cardinality(T \cap L) = 0
      BY <2>4, FS_EmptySet
    <3>2. Cardinality(T \cup L) = n + (i - 1) - Cardinality(T \cap L)
      BY <1>1, <2>2, FS_Union
    <3>3. n \in Nat /\ i \in Nat
      BY <1>1
    <3> HIDE DEF OnTop
    <3> QED BY <3>1, <3>2, <3>3
  <2>6. f[i] \in all
    BY <1>0 DEF N
  <2>7. InOrder(all)[Cardinality(Below(all, f[i])) + 1] = f[i]
    BY <1>8, <2>6, PlaceOf
  <2>8. n + (i - 1) + 1 = n + i
    BY <1>1
  <2> QED BY <2>3, <2>5, <2>7, <2>8
<1> QED
  BY <1>5, <1>8, <1>9, <1>10

-----------------------------------------------------------------------------

\* The rows a batch becomes above a position, at the stream's next revisions.
RowAt(b, base, i) ==
    [pos |-> base + i, id |-> b.events[i].id, body |-> b.events[i].body,
     stream |-> b.stream, rev |-> NextRevision(b.stream) + i - 1]

RowsAt(b, base) == [i \in 1 .. Len(b.events) |-> RowAt(b, base, i)]

Batched(rows) ==
    \E b \in Batch, base \in Nat :
        rows = {RowsAt(b, base)[i] : i \in 1 .. Len(b.events)}

\* A stream that has a row has its revision 0, which is what an append that
\* expects no stream collides with.
Begun ==
    \A row \in table : \E first \in table : first.stream = row.stream /\ first.rev = 0

WritesInv ==
    \A w \in Writer : tx[w].pc = "inserted" =>
        Batched(tx[w].rows) /\ Unique(table \cup tx[w].rows)

PgInv == Begun /\ WritesInv

\* The contract counts as this module does.
LEMMA SameCount ==
    ASSUME NEW S
    PROVE  Contract!Cardinality(S) = Cardinality(S)
BY Zenon DEF Contract!Cardinality, Cardinality

LEMMA TableIsNumbered ==
    ASSUME TableInv
    PROVE  Numbered(table)
BY DEF TableInv, Numbered

LEMMA NewStream ==
    ASSUME TableInv, NEW s, \A row \in table : row.stream # s
    PROVE  NextRevision(s) = 0
<1> DEFINE old == InOrder(table)
<1>1. DOMAIN old = 1 .. Cardinality(table) /\ \A i \in 1 .. Cardinality(table) : old[i] \in table
  BY TableIsNumbered, InOrderIsAll
<1> HIDE DEF old
<1>2. Contract!PositionsOf(old, s) = {}
  BY <1>1 DEF Contract!PositionsOf
<1>3. Contract!NextRev(old, s) = 0
  BY <1>2, FS_EmptySet, SameCount DEF Contract!NextRev
<1> QED
  BY <1>3 DEF NextRevision, old

\* The INSERT numbers the rows from the stream's next revision, whether it
\* looked at the head or relied on the unique index.
LEMMA InsertsABatch ==
    ASSUME TableInv, Begun, NEW b \in Batch, Unique(table \cup Inserted(b))
    PROVE  Batched(Inserted(b))
<1> DEFINE m == Len(b.events)
           F(i) == [pos |-> seq + i, id |-> b.events[i].id, body |-> b.events[i].body,
                    stream |-> b.stream, rev |-> BaseRevision(b) + i - 1]
<1>1. m \in Nat \ {0} /\ DOMAIN b.events = 1 .. m /\ seq \in Nat
  BY BatchAssumption DEF TableInv
<1>2. Inserted(b) = {F(i) : i \in 1 .. m}
  BY <1>1 DEF Inserted
<1>3. BaseRevision(b) = NextRevision(b.stream)
  <2>1. CASE b.expected.kind # "no_stream"
    BY <2>1 DEF BaseRevision
  <2>2. CASE b.expected.kind = "no_stream"
    <3>1. BaseRevision(b) = 0
      BY <2>2 DEF BaseRevision
    <3>2. ASSUME NEW row \in table, row.stream = b.stream PROVE FALSE
      <4>1. PICK first \in table : first.stream = b.stream /\ first.rev = 0
        BY <3>2 DEF Begun
      <4>2. 1 \in 1 .. m
        BY <1>1
      <4>3. F(1) \in Inserted(b) /\ F(1).stream = b.stream /\ F(1).pos = seq + 1
        BY <1>2, <4>2
      <4>4. F(1).rev = 0
        BY <3>1
      <4> HIDE DEF F
      <4>5. first # F(1)
        BY <1>1, <4>1, <4>3 DEF TableInv
      <4> QED BY <4>1, <4>3, <4>4, <4>5 DEF Unique
    <3>3. NextRevision(b.stream) = 0
      BY <3>2, NewStream
    <3> QED BY <3>1, <3>3
  <2> QED BY <2>1, <2>2
<1>4. \A i \in 1 .. m : RowsAt(b, seq)[i] = F(i)
  BY <1>3 DEF RowsAt, RowAt
<1> HIDE DEF F
<1>5. Inserted(b) = {RowsAt(b, seq)[i] : i \in 1 .. m}
  BY <1>2, <1>4
<1> QED
  BY <1>1, <1>5 DEF Batched

\* What a batch becomes depends on the table only.
LEMMA BatchedStays ==
    ASSUME UNCHANGED table
    PROVE  \A rows : Batched(rows) => Batched(rows)'
<1>1. \A s : NextRevision(s)' = NextRevision(s)
  BY DEF NextRevision
<1>2. \A b, base, i : RowAt(b, base, i)' = RowAt(b, base, i)
  BY <1>1 DEF RowAt
<1>3. \A b, base : RowsAt(b, base)' = RowsAt(b, base)
  BY <1>2 DEF RowsAt
<1> QED
  BY <1>3 DEF Batched

\* A step of a writer that leaves the table alone.
LEMMA WriterKeepsWrites ==
    ASSUME TableInv, PgInv, NEW w \in Writer,
           (\E b \in Batch : Begin(w, b)) \/ Insert(w) \/ Abort(w)
    PROVE  PgInv' /\ UNCHANGED table
<1>1. UNCHANGED table
  BY DEF Begin, Insert, Abort
<1>2. Begun'
  BY <1>1 DEF PgInv, Begun
<1>3. ASSUME NEW v \in Writer \ {w} PROVE tx'[v] = tx[v]
  BY <1>3 DEF Begin, Insert, Abort, Release, TableInv
<1>4. ASSUME tx'[w].pc = "inserted"
      PROVE  Batched(tx'[w].rows) /\ Unique(table \cup tx'[w].rows)
  <2> DEFINE b == tx[w].batch
  <2>1. Insert(w) /\ Unique(table \cup Inserted(b))
        /\ tx'[w] = [pc |-> "inserted", rows |-> Inserted(b)]
    BY <1>4 DEF Begin, Insert, Abort, Release, NoTx, TableInv
  <2>2. b \in Batch
    BY <2>1 DEF Insert, TableInv
  <2>3. Batched(Inserted(b))
    BY <2>1, <2>2, InsertsABatch DEF PgInv
  <2> QED BY <2>1, <2>3
<1>5. \A rows : Batched(rows) => Batched(rows)'
  BY <1>1, BatchedStays
<1>6. ASSUME NEW v \in Writer, tx'[v].pc = "inserted"
      PROVE  Batched(tx'[v].rows) /\ Unique(table \cup tx'[v].rows)
  BY <1>3, <1>4, <1>6 DEF PgInv, WritesInv
<1>7. ASSUME NEW v \in Writer, tx'[v].pc = "inserted"
      PROVE  Batched(tx[v].rows)' /\ Unique(table' \cup tx'[v].rows)
  <2>1. PICK rows : rows = tx'[v].rows
    OBVIOUS
  <2>2. Batched(rows)'
    BY <1>5, <1>6, <1>7, <2>1
  <2> QED BY <1>1, <1>6, <1>7, <2>1, <2>2
<1>8. WritesInv'
  BY <1>7 DEF WritesInv
<1> QED
  BY <1>1, <1>2, <1>8 DEF PgInv

\* A commit is one append the contract allows.
LEMMA CommitIsContract ==
    ASSUME TableInv, PgInv, NEW w \in Writer, Commit(w)
    PROVE  PgInv' /\ Contract!Next
<1>1. /\ tx[w].pc = "inserted" /\ table' = table \cup tx[w].rows
      /\ lock = w /\ tx' = [tx EXCEPT ![w] = NoTx]
  BY DEF Commit, Release, TableInv
<1>2. PICK b \in Batch, base \in Nat :
        tx[w].rows = {RowsAt(b, base)[i] : i \in 1 .. Len(b.events)}
  BY <1>1 DEF PgInv, WritesInv, Batched
<1>3. PICK m \in Nat \ {0} : m = Len(b.events)
  BY BatchAssumption
<1>4. PICK f : f = RowsAt(b, base)
  OBVIOUS
<1>5. DOMAIN f = 1 .. m /\ tx[w].rows = {f[i] : i \in 1 .. m}
  BY <1>2, <1>3, <1>4 DEF RowsAt
<1>6. ASSUME NEW i \in 1 .. m
      PROVE  /\ f[i] \in tx[w].rows /\ f[i].pos = base + i /\ f[i].stream = b.stream
             /\ f[i].rev = NextRevision(b.stream) + i - 1
  <2>1. f[i] = RowAt(b, base, i)
    BY <1>3, <1>4 DEF RowsAt
  <2> QED BY <1>5, <2>1 DEF RowAt
<1>7. \A i \in 1 .. m, old \in table : old.pos < f[i].pos
  BY <1>1, <1>6 DEF TableInv
<1>n. PICK n : n = Cardinality(table)
  OBVIOUS
<1>8. /\ Numbered(table')
      /\ Cardinality(table') = n + m
      /\ \A i \in 1 .. n : InOrder(table')[i] = InOrder(table)[i]
      /\ \A i \in 1 .. m : InOrder(table')[n + i] = f[i]
  <2>1. \A i \in 1 .. m : f[i].pos = base + i
    BY <1>6
  <2>3. Numbered(table)
    BY TableIsNumbered
  <2>4. /\ table \subseteq table' /\ \A i \in 1 .. m : f[i] \in table'
        /\ \A x \in table' \ table : \E i \in 1 .. m : x = f[i]
    BY <1>1, <1>5
  <2>5. OnTop(f, m, base, table, table')
    BY <1>2, <1>3, <1>5, <1>7, <2>1, <2>4 DEF OnTop
  <2> QED BY <1>n, <2>3, <2>5, OrderGrows
<1>9. PICK old, new : old = InOrder(table) /\ new = InOrder(table')
  OBVIOUS
<1>10. /\ n \in Nat
       /\ DOMAIN old = 1 .. n /\ old = [i \in 1 .. n |-> old[i]]
       /\ \A i \in 1 .. n : old[i] \in table
  BY <1>9, <1>n, TableIsNumbered, InOrderIsAll DEF InOrder
<1>11. DOMAIN new = 1 .. n + m /\ new = [i \in 1 .. n + m |-> new[i]]
  BY <1>8, <1>9, InOrderIsAll DEF InOrder
<1>12. Len(old) = n /\ Len(new) = n + m
  BY <1>10, <1>11
<1>13. Contract!Grows(old, new)
  <2>1. new \in Seq({new[i] : i \in 1 .. n + m})
    <3> DEFINE Y == {new[i] : i \in 1 .. n + m}
    <3>1. n + m \in Nat /\ new \in [1 .. n + m -> Y]
      BY <1>3, <1>10, <1>11
    <3> HIDE DEF Y
    <3>2. new \in Seq(Y)
      BY <3>1
    <3> QED BY <3>2 DEF Y
  <2>2. n + m > n /\ \A i \in 1 .. n : new[i] = old[i]
    BY <1>8, <1>9, <1>10
  <2> QED BY <1>10, <1>11, <1>12, <2>1, <2>2 DEF Contract!Grows, Contract!IsLog
<1>14. ASSUME NEW i \in Contract!Fresh(old, new)
       PROVE  i - n \in 1 .. m /\ i \in Nat /\ new[i] = f[i - n]
  <2>1. i \in n + 1 .. n + m
    BY <1>12, <1>14 DEF Contract!Fresh
  <2>2. i - n \in 1 .. m /\ n + (i - n) = i /\ i \in Nat
    BY <1>10, <2>1
  <2>3. new[n + (i - n)] = f[i - n]
    BY <1>8, <1>9, <2>2
  <2> QED BY <2>2, <2>3
<1>15. Unique(table \cup tx[w].rows)
  BY <1>1 DEF PgInv, WritesInv
<1>16. \A i, j \in 1 .. m : f[i].id = f[j].id => i = j
  <2> SUFFICES ASSUME NEW i \in 1 .. m, NEW j \in 1 .. m, f[i].id = f[j].id PROVE i = j
    OBVIOUS
  <2>1. f[i] = f[j]
    BY <1>6, <1>15 DEF Unique
  <2>2. base + i = base + j
    BY <1>6, <2>1
  <2> QED BY <2>2
<1>17. \A i \in 1 .. m, row \in table : f[i].id # row.id
  <2> SUFFICES ASSUME NEW i \in 1 .. m, NEW row \in table PROVE f[i].id # row.id
    OBVIOUS
  <2>1. row.pos < f[i].pos /\ row.pos \in Nat
    BY <1>7 DEF TableInv
  <2>2. row # f[i]
    BY <2>1
  <2> QED BY <1>6, <1>15, <2>2 DEF Unique
<1>18. Contract!NextRev(old, b.stream) = NextRevision(b.stream)
  BY <1>9 DEF NextRevision
<1>19. Contract!NextBatch(old, new, b.stream)
  <2>1. ASSUME NEW i \in Contract!Fresh(old, new)
        PROVE  /\ new[i].stream = b.stream
               /\ new[i].rev = Contract!NextRev(old, b.stream) + (i - Len(old)) - 1
               /\ new[i].id \notin Contract!IdsOf(old)
    <3>1. i - n \in 1 .. m /\ i \in Nat /\ new[i] = f[i - n]
      BY <1>14, <2>1
    <3>2. f[i - n].stream = b.stream /\ f[i - n].rev = NextRevision(b.stream) + (i - n) - 1
      BY <1>6, <3>1
    <3>3. \A row \in table : f[i - n].id # row.id
      BY <1>17, <3>1
    <3>4. new[i].id \notin Contract!IdsOf(old)
      BY <1>10, <3>1, <3>3 DEF Contract!IdsOf
    <3> QED BY <1>12, <1>18, <3>1, <3>2, <3>4
  <2>2. ASSUME NEW i \in Contract!Fresh(old, new), NEW j \in Contract!Fresh(old, new),
               new[i].id = new[j].id
        PROVE  i = j
    <3>1. i - n = j - n /\ i \in Nat /\ j \in Nat
      BY <1>14, <1>16, <2>2
    <3> QED BY <1>10, <3>1
  <2> QED BY <1>13, <2>1, <2>2 DEF Contract!NextBatch
<1>20. Contract!Next
  <2>1. b.stream \in Stream
    BY BatchAssumption
  <2> QED BY <1>9, <1>19, <2>1 DEF Contract!Next
<1>21. Begun'
  <2> SUFFICES ASSUME NEW row \in table'
               PROVE  \E first \in table' : first.stream = row.stream /\ first.rev = 0
    BY DEF Begun
  <2>1. CASE \E old1 \in table : old1.stream = row.stream
    BY <1>1, <2>1 DEF PgInv, Begun
  <2>2. CASE \A old1 \in table : old1.stream # row.stream
    <3>1. row \in tx[w].rows
      BY <1>1, <2>2
    <3>2. row.stream = b.stream
      <4>1. PICK i \in 1 .. m : row = f[i]
        BY <1>5, <3>1
      <4> QED BY <1>6, <4>1
    <3>3. NextRevision(b.stream) = 0
      BY <2>2, <3>2, NewStream
    <3>4. 1 \in 1 .. m
      OBVIOUS
    <3>5. f[1] \in table' /\ f[1].stream = row.stream /\ f[1].rev = 0
      BY <1>1, <1>6, <3>2, <3>3, <3>4
    <3> QED BY <3>5
  <2> QED BY <2>1, <2>2
<1>22. WritesInv'
  <2>1. \A v \in Writer : tx'[v].pc = "idle"
    BY <1>1 DEF TableInv, NoTx
  <2> QED BY <2>1 DEF WritesInv
<1> QED
  BY <1>20, <1>21, <1>22 DEF PgInv

\* A step is a commit, which is an append, or leaves the log as it is.
LEMMA StepIsContract ==
    ASSUME IInv, PgInv, [Next]_vars
    PROVE  PgInv' /\ [Contract!Next]_(InOrder(table))
<1>1. ASSUME UNCHANGED pgVars PROVE PgInv' /\ UNCHANGED InOrder(table)
  <2>1. PgInv'
    <3>1. table' = table /\ tx' = tx
      BY <1>1 DEF pgVars
    <3>2. ASSUME NEW w \in Writer, tx'[w].pc = "inserted"
          PROVE  Batched(tx[w].rows)' /\ Unique(table' \cup tx'[w].rows)
      <4>1. PICK rows : rows = tx'[w].rows
        OBVIOUS
      <4>2. Batched(rows) /\ Unique(table \cup rows)
        BY <3>1, <3>2, <4>1 DEF PgInv, WritesInv
      <4>3. Batched(rows)'
        BY <3>1, <4>2, BatchedStays
      <4> QED BY <3>1, <4>1, <4>2, <4>3
    <3> QED BY <3>1, <3>2 DEF PgInv, Begun, WritesInv
  <2> QED BY <1>1, <2>1 DEF pgVars
<1>2. CASE \E s \in Reader : \/ Open(s) \/ Read(s) \/ Apply(s) \/ Save(s) \/ Wake(s)
                             \/ Finish(s) \/ Promote(s) \/ Stops(s)
  <2>1. UNCHANGED pgVars
    BY <1>2, ReaderPreserves
  <2> QED BY <1>1, <2>1
<1>3. ASSUME NEW w \in Writer, (\E b \in Batch : Begin(w, b)) \/ Insert(w) \/ Abort(w)
      PROVE  PgInv' /\ UNCHANGED InOrder(table)
  <2>1. PgInv' /\ UNCHANGED table
    BY <1>3, WriterKeepsWrites DEF IInv
  <2> QED BY <2>1
<1>4. ASSUME NEW w \in Writer, Commit(w)
      PROVE  PgInv' /\ Contract!Next
  BY <1>4, CommitIsContract DEF IInv
<1>5. CASE UNCHANGED vars
  BY <1>1, <1>5 DEF vars
<1> QED
  BY <1>2, <1>3, <1>4, <1>5 DEF Next

\* The Postgres log, read in position order, implements the contract: whatever
\* writers overlap, abort or are refused, it grows at its end only, by whole
\* batches of new ids at their stream's next revisions (append_to_stream under
\* pg_advisory_xact_lock and the unique indexes).
THEOREM PgKeepsTheContract == Spec => PgImplementsEventLog
<1>1. Init => IInv /\ PgInv /\ Contract!Init
  <2> SUFFICES ASSUME Init PROVE PgInv /\ Contract!Init
    BY InitEstablishes
  <2>1. table = {} /\ \A w \in Writer : tx[w].pc = "idle"
    BY DEF Init, PgInit, NoTx
  <2>2. PgInv
    BY <2>1 DEF PgInv, Begun, WritesInv
  <2>3. InOrder(table) = <<>>
    <3>1. Cardinality(table) = 0
      BY <2>1, FS_EmptySet
    <3>2. 1 .. Cardinality(table) = {}
      BY <3>1
    <3> QED BY <3>2 DEF InOrder
  <2> QED BY <2>2, <2>3 DEF Contract!Init
<1>2. IInv /\ PgInv /\ [Next]_vars => IInv' /\ PgInv' /\ [Contract!Next]_(InOrder(table))
  BY NextPreserves, StepIsContract
<1> QED
  BY <1>1, <1>2, PTL DEF Spec, PgImplementsEventLog, Contract!Spec

\* What is proved of the contract, said of the Postgres log.
Promised == INSTANCE EventLogProofs WITH log <- InOrder(table)

\* Whatever writers overlap, abort or are refused: no id is in causal_log twice,
\* and the revisions of a stream, read in position order, are 0, 1, 2, ...
COROLLARY PgIdsAndRevisions == Spec => [](Contract!UniqueIds /\ Contract!DenseRevisions)
<1>1. Contract!Init => Promised!Init
  BY DEF Contract!Init, Promised!Init
<1>2. Contract!Next => Promised!Next
  BY Zenon DEF Contract!Next, Contract!NextBatch, Contract!Grows, Contract!IsLog, Contract!Fresh,
     Contract!NextRev, Contract!PositionsOf, Contract!IdsOf, Contract!Cardinality,
     Promised!Next, Promised!NextBatch, Promised!Grows, Promised!IsLog, Promised!Fresh,
     Promised!NextRev, Promised!PositionsOf, Promised!IdsOf, Promised!Cardinality
<1>3. Promised!UniqueIds /\ Promised!DenseRevisions => Contract!UniqueIds /\ Contract!DenseRevisions
  BY Zenon DEF Contract!UniqueIds, Contract!DenseRevisions, Contract!Cardinality,
     Promised!UniqueIds, Promised!DenseRevisions, Promised!Cardinality
<1>4. Promised!Spec => [](Promised!UniqueIds /\ Promised!DenseRevisions)
  BY Promised!ContractHolds
<1> QED
  BY <1>1, <1>2, <1>3, <1>4, PgKeepsTheContract,
     PTL DEF PgImplementsEventLog, Contract!Spec, Promised!Spec
=============================================================================
