------------------------ MODULE ReactorDecisionProofs ------------------------
(***************************************************************************)
(* Proofs about ReactorDecision, for every number of runners and triggers, *)
(* every set of batches and every bound.                                   *)
(***************************************************************************)
EXTENDS ReactorDecision, SequenceTheorems, TLAPS

\* A job that is about to write has a record to write from.
HasRecord ==
    \A r \in Runner, t \in Trigger :
        job[r][t].pc \in {"seal", "append", "reseal"} => job[r][t].rec \in Record

TypeInv == TypeOK /\ HasRecord

(***************************************************************************)
(* The inductive invariant.  It says, besides the properties themselves,   *)
(* what keeps them true: no two rows of a batch share an identity; a       *)
(* missing record whose decision was made means nobody can deliver the     *)
(* trigger any more; and a running append has put a prefix of the decided  *)
(* batch into the log.                                                     *)
(***************************************************************************)
Distinct(rec) ==
    \A i, j \in DOMAIN rec.outs : rec.outs[i].key = rec.outs[j].key => i = j

DistinctInv ==
    /\ \A t \in Trigger : decided[t] # NoRecord => Distinct(decided[t])
    /\ \A r \in Runner, t \in Trigger : At(r, t, "seal") => Distinct(job[r][t].rec)

StoreInv ==
    \A t \in Trigger :
        /\ sealed[t] \in {NoRecord, decided[t]}
        /\ decided[t] # NoRecord /\ sealed[t] = NoRecord
              => t <= checkpoint /\ Aged(t)

AppendOk(j, rows) ==
    /\ j.pc # "reseal"
    /\ j.pc \in {"gate", "missed", "body", "seal"} => j.next = 1
    /\ j.pc = "append" =>
          /\ j.next <= Len(j.rec.outs) + 1
          /\ \A i \in 1 .. j.next - 1 : j.rec.outs[i] \in rows

AppendInv == \A r \in Runner, t \in Trigger : AppendOk(job[r][t], logged[t])

OnceInv ==
    TypeInv /\ DistinctInv /\ StoreInv /\ AppendInv /\ NoChimera /\ AppendsOnlySealed

-----------------------------------------------------------------------------
\* Replacing one job by a well-typed job that has a record when it needs one
\* keeps the jobs well typed.
LEMMA JobReplaced ==
    ASSUME TypeInv, NEW r \in Runner, NEW t \in Trigger, NEW j \in Job,
           j.pc \in {"seal", "append", "reseal"} => j.rec \in Record,
           Becomes(r, t, j)
    PROVE  /\ job' \in [Runner -> [Trigger -> Job]]
           /\ HasRecord'
  BY DEF TypeInv, TypeOK, HasRecord, Becomes

\* A fresh job is a job.
LEMMA FreshJobType == \A p \in PC : FreshJob(p) \in Job /\ FreshJob(p).pc = p
  BY ConstantsAssumption DEF FreshJob, Job

\* The rows of a batch, stamped with the runner that decided them.
LEMMA StampType ==
    ASSUME NEW r \in Runner, NEW b \in Seq(Key \cup {ParkKey})
    PROVE  /\ Stamp(r, b) \in Seq(Row)
           /\ Len(Stamp(r, b)) = Len(b)
  <1>1. b \in [1 .. Len(b) -> Key \cup {ParkKey}] /\ Len(b) \in Nat
    BY LenProperties
  <1>2. Stamp(r, b) \in [1 .. Len(b) -> Row]
    BY <1>1 DEF Stamp, Row
  <1>3. Stamp(r, b) \in Seq(Row)
    BY <1>1, <1>2, SeqDef
  <1>4. Len(Stamp(r, b)) = Len(b)
    BY <1>1, <1>2, <1>3, LenProperties
  <1> QED BY <1>3, <1>4

\* Bodies and parks produce records.
LEMMA RecordTypes ==
    ASSUME NEW r \in Runner, NEW t \in Trigger
    PROVE  /\ ParkRecord(r, t) \in Record
           /\ \A b \in Batches \cup {<<>>} :
                  [outs |-> Stamp(r, b), parked |-> FALSE] \in Record
  <1>1. <<ParkKey>> \in Seq(Key \cup {ParkKey}) /\ <<>> \in Seq(Row)
    OBVIOUS
  <1>2. ParkRecord(r, t) \in Record
    BY <1>1, StampType DEF ParkRecord, Record
  <1>3. ASSUME NEW b \in Batches \cup {<<>>}
        PROVE  Stamp(r, b) \in Seq(Row)
    <2>1. b \in Seq(Key)
      <3>1. CASE b \in Batches  BY <3>1, ConstantsAssumption
      <3>2. CASE b = <<>>       BY <3>2
      <3> QED BY <3>1, <3>2
    <2>2. b \in Seq(Key \cup {ParkKey})
      BY <2>1, SeqMonotonic
    <2> QED BY <2>2, StampType
  <1> QED BY <1>2, <1>3 DEF Record

\* What a seal writes, and what it hands back.
LEMMA SealTypes ==
    ASSUME TypeOK, NEW t \in Trigger, NEW rec \in Record
    PROVE  /\ Canon(t, rec) \in Record
           /\ SealWrites(t, rec) =>
                 /\ sealed' \in [Trigger -> Record \cup {NoRecord}]
                 /\ decided' \in [Trigger -> Record \cup {NoRecord}]
                 /\ preCancel' \subseteq Trigger
  BY DEF TypeOK, Canon, SealWrites

\* The row an appending job is at is a row.
LEMMA PendingType ==
    ASSUME TypeInv, NEW r \in Runner, NEW t \in Trigger,
           At(r, t, "append"), job[r][t].next <= Len(job[r][t].rec.outs)
    PROVE  /\ job[r][t].rec \in Record
           /\ job[r][t].next \in 1 .. Len(job[r][t].rec.outs)
           /\ Pending(r, t) \in Row
  <1>1. job[r][t].rec \in Record /\ job[r][t] \in Job
    BY DEF TypeInv, TypeOK, HasRecord, At
  <1>2. job[r][t].rec.outs \in Seq(Row) /\ job[r][t].next \in Nat \ {0}
    BY <1>1 DEF Record, Job
  <1>3. job[r][t].next \in 1 .. Len(job[r][t].rec.outs)
    BY <1>2, LenProperties
  <1>4. Pending(r, t) \in Row
    BY <1>2, <1>3, ElementOfSeq DEF Pending
  <1> QED BY <1>1, <1>3, <1>4

-----------------------------------------------------------------------------
\* Retry and Park keep the jobs well typed.
LEMMA RetryType ==
    ASSUME TypeInv, NEW r \in Runner, NEW t \in Trigger, Retry(r, t)
    PROVE  job' \in [Runner -> [Trigger -> Job]] /\ HasRecord'
  <1> DEFINE j == [FreshJob("gate") EXCEPT !.fenced = job[r][t].fenced,
                                           !.waited = job[r][t].waited]
  <1>1. j \in Job /\ j.pc = "gate"
    <2>1. FreshJob("gate") \in Job /\ FreshJob("gate").pc = "gate"
      BY FreshJobType DEF PC
    <2>2. job[r][t] \in Job
      BY DEF TypeInv, TypeOK
    <2> QED BY <2>1, <2>2 DEF Job
  <1>2. Becomes(r, t, j)
    BY DEF Retry
  <1> HIDE DEF j
  <1> QED BY <1>1, <1>2, JobReplaced

LEMMA ParkType ==
    ASSUME TypeInv, NEW r \in Runner, NEW t \in Trigger, Park(r, t)
    PROVE  job' \in [Runner -> [Trigger -> Job]] /\ HasRecord'
  <1> DEFINE j == [job[r][t] EXCEPT !.pc = "seal", !.parking = TRUE,
                                    !.rec = ParkRecord(r, t)]
  <1>1. j \in Job /\ j.rec \in Record
    <2>1. job[r][t] \in Job
      BY DEF TypeInv, TypeOK
    <2>2. ParkRecord(r, t) \in Record
      BY RecordTypes
    <2> QED BY <2>1, <2>2 DEF Job, PC
  <1>2. Becomes(r, t, j)
    BY DEF Park
  <1> HIDE DEF j
  <1> QED BY <1>1, <1>2, JobReplaced

LEMMA AckType ==
    ASSUME TypeInv, NEW r \in Runner, NEW t \in Trigger, Becomes(r, t, FreshJob("acked"))
    PROVE  job' \in [Runner -> [Trigger -> Job]] /\ HasRecord'
  <1>1. FreshJob("acked") \in Job /\ FreshJob("acked").pc = "acked"
    BY FreshJobType DEF PC
  <1> QED BY <1>1, JobReplaced

\* The durable attempt counter saturates at max_attempts (record_reactor_attempt).
LEMMA OneMoreType == \A n \in 0 .. MaxAttempts : OneMore(n) \in 0 .. MaxAttempts
  BY ConstantsAssumption DEF OneMore

-----------------------------------------------------------------------------
\* What a worker does keeps the types.
LEMMA WorkType ==
    ASSUME TypeInv, NEW r \in Runner, NEW t \in Trigger, Work(r, t)
    PROVE  TypeInv'
  <1>j. job[r][t] \in Job /\ (job[r][t].pc \in {"seal", "append", "reseal"} => job[r][t].rec \in Record)
    BY DEF TypeInv, TypeOK, HasRecord
  <1>t. TypeOK
    BY DEF TypeInv
  <1>k. MaxAttempts \in Nat /\ MaxWaits \in Nat
    BY ConstantsAssumption
  <1>1. CASE Dequeue(r, t)
    <2> DEFINE j == [FreshJob("gate") EXCEPT !.fenced = fence[r] /\ t \in Doomed]
    <2>1. j \in Job /\ j.pc = "gate"
      <3>1. FreshJob("gate") \in Job /\ FreshJob("gate").pc = "gate"
        BY FreshJobType DEF PC
      <3> QED BY <3>1 DEF Job
    <2>2. Becomes(r, t, j)
      BY <1>1 DEF Dequeue
    <2> HIDE DEF j
    <2>3. job' \in [Runner -> [Trigger -> Job]] /\ HasRecord'
      BY <2>1, <2>2, JobReplaced
    <2> QED BY <1>1, <1>t, <2>3 DEF Dequeue, TypeInv, TypeOK, durable, ghost, budgets
  <1>2. CASE Replay(r, t)
    <2> DEFINE j == [job[r][t] EXCEPT !.pc = "append", !.rec = sealed[t], !.seq = 0]
    <2>1. j \in Job /\ j.rec \in Record
      <3>1. sealed[t] \in Record /\ 0 \in 0 .. MaxAttempts
        BY <1>2, <1>t, <1>k DEF Replay, TypeOK
      <3> QED BY <3>1, <1>j DEF Job, PC
    <2>2. Becomes(r, t, j)
      BY <1>2 DEF Replay
    <2> HIDE DEF j
    <2>3. job' \in [Runner -> [Trigger -> Job]] /\ HasRecord'
      BY <2>1, <2>2, JobReplaced
    <2> QED BY <1>2, <1>t, <2>3 DEF Replay, TypeInv, TypeOK, durable, ghost, budgets
  <1>3. CASE FenceAck(r, t)
    <2>1. job' \in [Runner -> [Trigger -> Job]] /\ HasRecord'
      BY <1>3, AckType DEF FenceAck
    <2> QED BY <1>3, <1>t, <2>1 DEF FenceAck, TypeInv, TypeOK, durable, ghost, budgets
  <1>4. CASE BeginAttempt(r, t)
    <2> DEFINE j == [job[r][t] EXCEPT !.pc = "body", !.seq = OneMore(attempts[t])]
    <2>1. OneMore(attempts[t]) \in 0 .. MaxAttempts
      BY <1>t, OneMoreType DEF TypeOK
    <2>2. j \in Job /\ j.pc = "body"
      BY <1>j, <2>1 DEF Job, PC
    <2>3. Becomes(r, t, j)
      BY <1>4 DEF BeginAttempt
    <2> HIDE DEF j
    <2>4. job' \in [Runner -> [Trigger -> Job]] /\ HasRecord'
      BY <2>2, <2>3, JobReplaced
    <2>5. attempts' \in [Trigger -> 0 .. MaxAttempts]
      BY <1>4, <1>t, <2>1 DEF BeginAttempt, TypeOK
    <2> QED BY <1>4, <1>t, <2>4, <2>5 DEF BeginAttempt, TypeInv, TypeOK, ghost, budgets
  <1>17. CASE LookupMiss(r, t)
    <2> DEFINE j == [job[r][t] EXCEPT !.pc = "missed"]
    <2>1. j \in Job /\ j.pc = "missed"
      BY <1>j DEF Job, PC
    <2>2. Becomes(r, t, j)
      BY <1>17 DEF LookupMiss
    <2> HIDE DEF j
    <2>3. job' \in [Runner -> [Trigger -> Job]] /\ HasRecord'
      BY <2>1, <2>2, JobReplaced
    <2> QED BY <1>17, <1>t, <2>3 DEF LookupMiss, TypeInv, TypeOK, durable, ghost, budgets
  <1>5. CASE BodyDecides(r, t)
    <2>0. \A consulted \in BOOLEAN : BodyReturns(t, consulted) \subseteq Batches \cup {<<>>}
      BY DEF BodyReturns
    <2>1. PICK b \in Batches \cup {<<>>} :
             Becomes(r, t, [job[r][t] EXCEPT !.pc = "seal",
                                !.rec = [outs |-> Stamp(r, b), parked |-> FALSE]])
      BY <1>5, <2>0 DEF BodyDecides
    <2> DEFINE j == [job[r][t] EXCEPT !.pc = "seal",
                                !.rec = [outs |-> Stamp(r, b), parked |-> FALSE]]
    <2>3. [outs |-> Stamp(r, b), parked |-> FALSE] \in Record
      BY RecordTypes
    <2>4. j \in Job /\ j.rec \in Record
      BY <1>j, <2>3 DEF Job, PC
    <2>5. Becomes(r, t, j)
      BY <2>1
    <2> HIDE DEF j
    <2>6. job' \in [Runner -> [Trigger -> Job]] /\ HasRecord'
      BY <2>4, <2>5, JobReplaced
    <2>7. attempts' \in [Trigger -> 0 .. MaxAttempts]
      BY <1>5, <1>t, <1>k DEF BodyDecides, TypeOK
    <2> QED BY <1>5, <1>t, <2>6, <2>7 DEF BodyDecides, TypeInv, TypeOK, ghost, budgets
  <1>6. CASE BodyElides(r, t)
    <2>1. job' \in [Runner -> [Trigger -> Job]] /\ HasRecord'
      BY <1>6, AckType DEF BodyElides
    <2>2. attempts' \in [Trigger -> 0 .. MaxAttempts]
      BY <1>6, <1>t, <1>k DEF BodyElides, TypeOK
    <2> QED BY <1>6, <1>t, <2>1, <2>2 DEF BodyElides, TypeInv, TypeOK, ghost, budgets
  <1>7. CASE BodyRejected(r, t)
    <2>1. job' \in [Runner -> [Trigger -> Job]] /\ HasRecord'
      BY <1>7, ParkType DEF BodyRejected
    <2>2. attempts' \in [Trigger -> 0 .. MaxAttempts]
      BY <1>7, <1>t, <1>k DEF BodyRejected, TypeOK
    <2> QED BY <1>7, <1>t, <2>1, <2>2 DEF BodyRejected, TypeInv, TypeOK, ghost, budgets
  <1>8. CASE BodyPoison(r, t)
    <2>1. job' \in [Runner -> [Trigger -> Job]] /\ HasRecord'
      BY <1>8, ParkType DEF BodyPoison
    <2> QED BY <1>8, <1>t, <2>1 DEF BodyPoison, TypeInv, TypeOK, durable, ghost, budgets
  <1>9. CASE BodyFails(r, t)
    <2>1. job' \in [Runner -> [Trigger -> Job]] /\ HasRecord'
      BY <1>9, ParkType, RetryType DEF BodyFails
    <2> QED BY <1>9, <1>t, <2>1 DEF BodyFails, TypeInv, TypeOK, durable, ghost, budgets
  <1>10. CASE BodyTransient(r, t)
    <2>1. job' \in [Runner -> [Trigger -> Job]] /\ HasRecord'
      <3>1. CASE Park(r, t)
        BY <3>1, ParkType
      <3>2. CASE /\ job[r][t].waited < MaxWaits
                 /\ Becomes(r, t, [FreshJob("gate") EXCEPT !.fenced = job[r][t].fenced,
                                                           !.waited = job[r][t].waited + 1])
        <4> DEFINE j == [FreshJob("gate") EXCEPT !.fenced = job[r][t].fenced,
                                                 !.waited = job[r][t].waited + 1]
        <4>1. FreshJob("gate") \in Job /\ FreshJob("gate").pc = "gate"
          BY FreshJobType DEF PC
        <4>2. job[r][t].waited + 1 \in 0 .. MaxWaits
          BY <3>2, <1>j, <1>k DEF Job
        <4>3. j \in Job /\ j.pc = "gate"
          BY <4>1, <4>2, <1>j DEF Job
        <4>4. Becomes(r, t, j)
          BY <3>2
        <4> HIDE DEF j
        <4> QED BY <4>3, <4>4, JobReplaced
      <3> QED BY <1>10, <3>1, <3>2 DEF BodyTransient
    <2> QED BY <1>10, <1>t, <2>1 DEF BodyTransient, TypeInv, TypeOK, durable, ghost, budgets
  <1>11. CASE Seal(r, t)
    <2> DEFINE c == Canon(t, job[r][t].rec)
               w == job[r][t].parking /\ Canon(t, job[r][t].rec) = job[r][t].rec
               j == [job[r][t] EXCEPT !.pc = "append", !.rec = c, !.won = w]
    <2>1. job[r][t].rec \in Record
      BY <1>11, <1>j DEF Seal, At
    <2>2. c \in Record
      BY <1>t, <2>1, SealTypes
    <2>3. w \in BOOLEAN
      BY <1>j DEF Job
    <2>5. Becomes(r, t, j)
      BY <1>11 DEF Seal
    <2> HIDE DEF c, w
    <2>4. j \in Job /\ j.rec \in Record
      BY <1>j, <2>2, <2>3 DEF Job, PC
    <2> HIDE DEF j
    <2>6. job' \in [Runner -> [Trigger -> Job]] /\ HasRecord'
      BY <2>4, <2>5, JobReplaced
    <2>7. /\ sealed' \in [Trigger -> Record \cup {NoRecord}]
          /\ decided' \in [Trigger -> Record \cup {NoRecord}]
          /\ preCancel' \subseteq Trigger
      BY <1>11, <1>t, <2>1, SealTypes DEF Seal
    <2> QED BY <1>11, <1>t, <2>6, <2>7 DEF Seal, TypeInv, TypeOK, budgets
  <1>12. CASE AppendRow(r, t)
    <2> DEFINE j == [job[r][t] EXCEPT !.next = @ + 1]
    <2>1. Pending(r, t) \in Row /\ job[r][t].rec \in Record
      BY <1>12, PendingType DEF AppendRow
    <2>2. j \in Job /\ j.rec \in Record
      BY <1>j, <2>1 DEF Job
    <2>3. Becomes(r, t, j)
      BY <1>12 DEF AppendRow
    <2> HIDE DEF j
    <2>4. job' \in [Runner -> [Trigger -> Job]] /\ HasRecord'
      BY <2>2, <2>3, JobReplaced
    <2>5. logged' \in [Trigger -> SUBSET Row]
      BY <1>12, <1>t, <2>1 DEF AppendRow, TypeOK
    <2> QED BY <1>12, <1>t, <2>4, <2>5 DEF AppendRow, TypeInv, TypeOK, ghost, budgets
  <1>13. CASE Diverge(r, t)
    <2>1. /\ job[r][t].rec \in Record
          /\ job[r][t].next \in 1 .. Len(job[r][t].rec.outs)
      BY <1>13, PendingType DEF Diverge
    <2>2. job[r][t].rec.outs \in Seq(Row)
      BY <2>1 DEF Record
    <2>3. PICK x \in Existing(t, Pending(r, t).key) :
             IF Canonical
               THEN Becomes(r, t, [job[r][t] EXCEPT
                        !.pc = "reseal",
                        !.rec = Amended(job[r][t].rec, job[r][t].next, x)])
               ELSE Becomes(r, t, [job[r][t] EXCEPT !.next = Len(job[r][t].rec.outs) + 1])
      BY <1>13 DEF Diverge
    <2>4. x \in Row
      BY <1>t DEF Existing, TypeOK
    <2>5. job' \in [Runner -> [Trigger -> Job]] /\ HasRecord'
      <3>1. CASE Canonical
        <4> DEFINE c == Amended(job[r][t].rec, job[r][t].next, x)
                   j == [job[r][t] EXCEPT !.pc = "reseal", !.rec = c]
        <4>1. [job[r][t].rec.outs EXCEPT ![job[r][t].next] = x] \in Seq(Row)
          BY <2>1, <2>2, <2>4, ExceptSeq
        <4>2. c \in Record
          BY <2>1, <4>1 DEF Record, Amended
        <4>4. Becomes(r, t, j)
          BY <2>3, <3>1
        <4> HIDE DEF c
        <4>3. j \in Job /\ j.rec \in Record
          BY <1>j, <4>2 DEF Job, PC
        <4> HIDE DEF j
        <4> QED BY <4>3, <4>4, JobReplaced
      <3>2. CASE ~Canonical
        <4> DEFINE n == Len(job[r][t].rec.outs) + 1
                   j == [job[r][t] EXCEPT !.next = n]
        <4>1. n \in Nat \ {0}
          BY <2>2, LenProperties
        <4>3. Becomes(r, t, j)
          BY <2>3, <3>2
        <4> HIDE DEF n
        <4>2. j \in Job /\ j.rec \in Record
          BY <1>j, <2>1, <4>1 DEF Job
        <4> HIDE DEF j
        <4> QED BY <4>2, <4>3, JobReplaced
      <3> QED BY <3>1, <3>2
    <2>6. sealed' \in [Trigger -> Record \cup {NoRecord}]
      BY <1>13, <1>t DEF Diverge, TypeOK
    <2> QED BY <1>13, <1>t, <2>5, <2>6 DEF Diverge, TypeInv, TypeOK, ghost, budgets
  <1>14. CASE Reseal(r, t)
    <2> DEFINE c == Canon(t, job[r][t].rec)
               j == [job[r][t] EXCEPT !.pc = "append", !.rec = c, !.next = 1]
    <2>1. job[r][t].rec \in Record
      BY <1>14, <1>j DEF Reseal, At
    <2>2. c \in Record
      BY <1>t, <2>1, SealTypes
    <2>3. Becomes(r, t, j)
      BY <1>14 DEF Reseal
    <2> HIDE DEF c
    <2>4. j \in Job /\ j.rec \in Record
      <3>1. 1 \in Nat \ {0}
        OBVIOUS
      <3> QED BY <1>j, <2>2, <3>1 DEF Job, PC
    <2> HIDE DEF j
    <2>5. job' \in [Runner -> [Trigger -> Job]] /\ HasRecord'
      BY <2>3, <2>4, JobReplaced
    <2>6. /\ sealed' \in [Trigger -> Record \cup {NoRecord}]
          /\ decided' \in [Trigger -> Record \cup {NoRecord}]
          /\ preCancel' \subseteq Trigger
      BY <1>14, <1>t, <2>1, SealTypes DEF Reseal
    <2> QED BY <1>14, <1>t, <2>5, <2>6 DEF Reseal, TypeInv, TypeOK, budgets
  <1>15. CASE Complete(r, t)
    <2>1. job' \in [Runner -> [Trigger -> Job]] /\ HasRecord'
      BY <1>15, AckType DEF Complete
    <2>2. attempts' \in [Trigger -> 0 .. MaxAttempts]
      BY <1>15, <1>t, <1>k DEF Complete, TypeOK
    <2> QED BY <1>15, <1>t, <2>1, <2>2 DEF Complete, TypeInv, TypeOK, ghost, budgets
  <1>16. CASE CompletePark(r, t)
    <2>1. job' \in [Runner -> [Trigger -> Job]] /\ HasRecord'
      BY <1>16, AckType DEF CompletePark
    <2>2. attempts' \in [Trigger -> 0 .. MaxAttempts]
      BY <1>16, <1>t, <1>k DEF CompletePark, TypeOK
    <2>3. dlq' \in [Trigger -> Nat]
      BY <1>16, <1>t DEF CompletePark, FireDlq, TypeOK
    <2> QED BY <1>16, <1>t, <2>1, <2>2, <2>3 DEF CompletePark, TypeInv, TypeOK, ghost, budgets
  <1> QED
    BY <1>1, <1>2, <1>3, <1>4, <1>5, <1>6, <1>7, <1>8, <1>9, <1>10, <1>11, <1>12, <1>13,
       <1>14, <1>15, <1>16, <1>17 DEF Work

\* So does every infrastructure error.
LEMMA InfraType ==
    ASSUME TypeInv, NEW r \in Runner, NEW t \in Trigger, Infra(r, t)
    PROVE  TypeInv'
  <1>t. TypeOK
    BY DEF TypeInv
  <1>j. job[r][t].pc \in {"seal", "append", "reseal"} => job[r][t].rec \in Record
    BY DEF TypeInv, HasRecord
  <1>k. MaxFaults \in Nat /\ 0 \in 0 .. MaxAttempts
    BY ConstantsAssumption
  <1>1. Retry(r, t) /\ Fault
    BY DEF Infra, IoError, CounterReplyLost, SealReplyLost, AppendReplyLost, ParkClearError
  <1>2. job' \in [Runner -> [Trigger -> Job]] /\ HasRecord'
    BY <1>1, RetryType
  <1>3. /\ faults' \in 0 .. MaxFaults
        /\ UNCHANGED <<checkpoint, cancelled, up, fence, crashes, rewinds>>
    BY <1>1, <1>t, <1>k DEF Fault, TypeOK
  <1>4. CASE IoError(r, t)
    BY <1>2, <1>3, <1>4, <1>t DEF IoError, TypeInv, TypeOK, ghost
  <1>5. CASE CounterReplyLost(r, t)
    <2>1. attempts' \in [Trigger -> 0 .. MaxAttempts]
      BY <1>5, <1>t, <1>k, OneMoreType DEF CounterReplyLost, TypeOK
    <2> QED BY <1>2, <1>3, <1>5, <1>t, <2>1 DEF CounterReplyLost, TypeInv, TypeOK, ghost
  <1>6. CASE SealReplyLost(r, t)
    <2>1. /\ sealed' \in [Trigger -> Record \cup {NoRecord}]
          /\ decided' \in [Trigger -> Record \cup {NoRecord}]
          /\ preCancel' \subseteq Trigger
      BY <1>6, <1>t, <1>j, SealTypes DEF SealReplyLost
    <2> QED BY <1>2, <1>3, <1>6, <1>t, <2>1 DEF SealReplyLost, TypeInv, TypeOK
  <1>7. CASE AppendReplyLost(r, t)
    <2>1. Pending(r, t) \in Row
      BY <1>7, PendingType DEF AppendReplyLost
    <2>2. logged' \in [Trigger -> SUBSET Row]
      BY <1>7, <1>t, <2>1 DEF AppendReplyLost, TypeOK
    <2> QED BY <1>2, <1>3, <1>7, <1>t, <2>2 DEF AppendReplyLost, TypeInv, TypeOK, ghost
  <1>8. CASE ParkClearError(r, t)
    <2>1. dlq' \in [Trigger -> Nat]
      BY <1>8, <1>t DEF ParkClearError, FireDlq, TypeOK
    <2> QED BY <1>2, <1>3, <1>8, <1>t, <2>1 DEF ParkClearError, TypeInv, TypeOK, ghost
  <1> QED
    BY <1>4, <1>5, <1>6, <1>7, <1>8 DEF Infra

\* And what happens around the deliveries.
LEMMA ProcessType ==
    ASSUME TypeInv,
           \/ \E r \in Runner : Start(r) \/ Persist(r) \/ Crash(r) \/ LearnCancel(r)
           \/ \E t \in Trigger : Sweep(t)
           \/ Cancel
           \/ Rewind
    PROVE  TypeInv'
  <1>t. TypeOK /\ HasRecord
    BY DEF TypeInv
  <1>k. NTriggers \in Nat /\ MaxCrashes \in Nat /\ MaxRewinds \in Nat
    BY ConstantsAssumption
  <1>1. ASSUME NEW r \in Runner, Start(r)
        PROVE  TypeInv'
    <2> DEFINE p(t) == IF t <= checkpoint THEN "passed" ELSE "queued"
    <2>1. \A t \in Trigger : FreshJob(p(t)) \in Job /\ FreshJob(p(t)).pc = p(t)
      BY FreshJobType DEF PC
    <2>2. job' = [job EXCEPT ![r] = [t \in Trigger |-> FreshJob(p(t))]]
      BY <1>1 DEF Start
    <2>3. job' \in [Runner -> [Trigger -> Job]] /\ HasRecord'
      BY <1>t, <2>1, <2>2 DEF TypeOK, HasRecord
    <2> QED BY <1>1, <1>t, <2>3 DEF Start, TypeInv, TypeOK, durable, ghost, budgets
  <1>2. ASSUME NEW r \in Runner, Persist(r)
        PROVE  TypeInv'
    BY <1>2, <1>t DEF Persist, TypeInv, TypeOK, HasRecord, Trigger, ghost, budgets
  <1>3. ASSUME NEW r \in Runner, Crash(r)
        PROVE  TypeInv'
    <2>1. FreshJob("down") \in Job /\ FreshJob("down").pc = "down"
      BY FreshJobType DEF PC
    <2>2. job' \in [Runner -> [Trigger -> Job]] /\ HasRecord'
      BY <1>3, <1>t, <2>1 DEF Crash, TypeOK, HasRecord
    <2>3. crashes' \in 0 .. MaxCrashes
      BY <1>3, <1>t, <1>k DEF Crash, TypeOK
    <2>4. attempts' \in [Trigger -> 0 .. MaxAttempts]
      <3>1. 0 \in 0 .. MaxAttempts  BY ConstantsAssumption
      <3>2. [t \in Trigger |-> 0] \in [Trigger -> 0 .. MaxAttempts]  BY <3>1
      <3> QED BY <1>3, <1>t, <3>2 DEF Crash, TypeInv, TypeOK
    <2> QED BY <1>3, <1>t, <2>2, <2>3, <2>4 DEF Crash, TypeInv, TypeOK, durable, ghost
  <1>4. ASSUME NEW r \in Runner, LearnCancel(r)
        PROVE  TypeInv'
    BY <1>4, <1>t DEF LearnCancel, TypeInv, TypeOK, HasRecord, durable, ghost, budgets
  <1>5. ASSUME NEW t \in Trigger, Sweep(t)
        PROVE  TypeInv'
    BY <1>5, <1>t DEF Sweep, TypeInv, TypeOK, HasRecord, ghost, budgets
  <1>6. CASE Cancel
    BY <1>6, <1>t DEF Cancel, TypeInv, TypeOK, HasRecord, ghost, budgets
  <1>7. CASE Rewind
    BY <1>7, <1>t, <1>k DEF Rewind, TypeInv, TypeOK, HasRecord, ghost
  <1> QED
    BY <1>1, <1>2, <1>3, <1>4, <1>5, <1>6, <1>7

LEMMA TypeInit == Init => TypeInv
  <1> SUFFICES ASSUME Init PROVE TypeInv
    OBVIOUS
  <1>1. FreshJob("down") \in Job /\ FreshJob("down").pc = "down"
    BY FreshJobType DEF PC
  <1>2. job \in [Runner -> [Trigger -> Job]] /\ HasRecord
    BY <1>1 DEF Init, HasRecord
  <1>3. /\ 0 \in 0 .. MaxAttempts /\ 0 \in 0 .. NTriggers
        /\ 0 \in 0 .. MaxFaults /\ 0 \in 0 .. MaxCrashes /\ 0 \in 0 .. MaxRewinds
    BY ConstantsAssumption
  <1> QED BY <1>2, <1>3 DEF Init, TypeInv, TypeOK

LEMMA TypeStep == TypeInv /\ [Next]_vars => TypeInv'
  <1> SUFFICES ASSUME TypeInv, [Next]_vars PROVE TypeInv'
    OBVIOUS
  <1>1. CASE \E r \in Runner, t \in Trigger : Work(r, t) \/ Infra(r, t)
    BY <1>1, WorkType, InfraType
  <1>2. CASE UNCHANGED vars
    BY <1>2 DEF TypeInv, TypeOK, HasRecord, vars, durable, ghost, budgets
  <1> QED
    BY <1>1, <1>2, ProcessType DEF Next

\* Type correctness: in every behaviour each variable keeps its kind, and a
\* job about to write to the decision store or the log holds a record.
THEOREM TypeCorrect == Spec => []TypeOK
  <1>1. TypeInv => TypeOK
    BY DEF TypeInv
  <1> QED
    BY <1>1, TypeInit, TypeStep, PTL DEF Spec

-----------------------------------------------------------------------------
\* A stamped batch has no two rows of one identity.
LEMMA StampDistinct ==
    ASSUME NEW r \in Runner, NEW b \in Batches \cup {<<>>}
    PROVE  Distinct([outs |-> Stamp(r, b), parked |-> FALSE])
  <1>1. \A i, j \in DOMAIN b : b[i] = b[j] => i = j
    <2>1. CASE b \in Batches  BY <2>1, ConstantsAssumption
    <2>2. CASE b = <<>>       BY <2>2
    <2> QED BY <2>1, <2>2
  <1>2. DOMAIN Stamp(r, b) = DOMAIN b /\ \A i \in DOMAIN b : Stamp(r, b)[i].key = b[i]
    BY DEF Stamp
  <1> QED BY <1>1, <1>2 DEF Distinct

LEMMA ParkDistinct ==
    ASSUME NEW r \in Runner, NEW t \in Trigger
    PROVE  Distinct(ParkRecord(r, t))
  <1>1. \A i \in DOMAIN ParkRecord(r, t).outs : i = 1
    BY DEF ParkRecord, Stamp
  <1> QED BY <1>1 DEF Distinct

\* What is known of a record that was decided.
LEMMA DecidedFacts ==
    ASSUME TypeOK, NEW t \in Trigger, decided[t] # NoRecord
    PROVE  /\ decided[t] \in Record
           /\ decided[t].outs \in Seq(Row)
           /\ Len(decided[t].outs) \in Nat
           /\ DOMAIN decided[t].outs = 1 .. Len(decided[t].outs)
  <1>1. decided[t] \in Record
    BY DEF TypeOK
  <1>2. decided[t].outs \in Seq(Row)
    BY <1>1 DEF Record
  <1> QED BY <1>1, <1>2, LenProperties

Idle == {"down", "passed", "acked"}

\* A step that moves one job and leaves the stores alone keeps OnceInv when
\* the job neither starts appending nor becomes deliverable again.
LEMMA QuietStep ==
    ASSUME OnceInv, TypeInv', NEW r \in Runner, NEW t \in Trigger, NEW j, Becomes(r, t, j),
           j.pc \notin {"append", "reseal"},
           j.pc \in {"gate", "missed", "body", "seal"} => j.next = 1,
           j.pc = "seal" => Distinct(j.rec),
           job[r][t].pc \in Idle => j.pc \in Idle,
           UNCHANGED <<logged, sealed, decided, checkpoint>>
    PROVE  OnceInv'
  <1> USE DEF OnceInv, TypeInv, Becomes
  <1>1. job \in [Runner -> [Trigger -> Job]]
    BY DEF TypeOK
  <1>2. \A q \in Runner, u \in Trigger :
           job'[q][u] = IF q = r /\ u = t THEN j ELSE job[q][u]
    BY <1>1
  <1>3. DistinctInv'
    BY <1>2 DEF DistinctInv, At, Distinct
  <1>4. StoreInv'
    BY <1>2 DEF StoreInv, Aged, Idle
  <1>5. AppendInv'
    <2>1. AppendOk(j, logged[t])
      BY DEF AppendOk
    <2> QED BY <1>2, <2>1 DEF AppendInv
  <1>6. NoChimera'
    BY DEF NoChimera
  <1>7. AppendsOnlySealed'
    BY <1>2 DEF AppendsOnlySealed, At
  <1> QED BY <1>3, <1>4, <1>5, <1>6, <1>7

\* An append in progress diverges from nothing: the only row of the log with
\* the identity of the next output is that output.
LEMMA NoDivergence ==
    ASSUME OnceInv, NEW r \in Runner, NEW t \in Trigger,
           At(r, t, "append"), job[r][t].next <= Len(job[r][t].rec.outs),
           NEW x \in Existing(t, Pending(r, t).key)
    PROVE  x = Pending(r, t)
  <1>1. job[r][t].rec = decided[t] /\ job[r][t].rec \in Record
    BY DEF OnceInv, TypeInv, HasRecord, AppendsOnlySealed, At
  <1>2. decided[t] # NoRecord
    BY <1>1, NoRecordAssumption
  <1>3. PICK n \in 0 .. Len(decided[t].outs) :
           logged[t] = {decided[t].outs[i] : i \in 1 .. n}
    BY <1>2 DEF OnceInv, NoChimera, FirstRows
  <1>4. PICK i \in 1 .. n : x = decided[t].outs[i]
    BY <1>3 DEF Existing
  <1>5. job[r][t].next \in 1 .. Len(decided[t].outs)
    BY <1>1, PendingType DEF OnceInv
  <1>6. i \in DOMAIN decided[t].outs /\ job[r][t].next \in DOMAIN decided[t].outs
    BY <1>2, <1>5, DecidedFacts DEF OnceInv, TypeInv
  <1>7. decided[t].outs[i].key = decided[t].outs[job[r][t].next].key
    BY <1>1, <1>4 DEF Existing, Pending
  <1>8. i = job[r][t].next
    BY <1>2, <1>6, <1>7 DEF OnceInv, DistinctInv, Distinct
  <1> QED BY <1>1, <1>4, <1>8 DEF Pending

\* Appending an output puts the next row of the decided batch into the log, or
\* finds it there.
LEMMA AppendShows ==
    ASSUME OnceInv, NEW r \in Runner, NEW t \in Trigger,
           At(r, t, "append"), job[r][t].next <= Len(job[r][t].rec.outs),
           logged' = [logged EXCEPT ![t] = @ \cup {Pending(r, t)}]
    PROVE  /\ decided[t] # NoRecord
           /\ \/ logged' = logged
              \/ \E n \in 1 .. Len(decided[t].outs) :
                    /\ logged[t] = FirstRows(decided[t], n - 1)
                    /\ logged' = [logged EXCEPT ![t] = FirstRows(decided[t], n)]
  <1> DEFINE k == job[r][t].next
             o == decided[t].outs
  <1>1. job[r][t].rec = decided[t] /\ job[r][t].rec \in Record
    BY DEF OnceInv, TypeInv, HasRecord, AppendsOnlySealed, At
  <1>2. decided[t] # NoRecord
    BY <1>1, NoRecordAssumption
  <1>3. PICK n \in 0 .. Len(o) : logged[t] = {o[i] : i \in 1 .. n}
    BY <1>2 DEF OnceInv, NoChimera, FirstRows
  <1>4. k \in 1 .. Len(o) /\ Len(o) \in Nat /\ DOMAIN o = 1 .. Len(o)
    BY <1>1, <1>2, PendingType, DecidedFacts DEF OnceInv, TypeInv
  <1>5. \A i \in 1 .. k - 1 : o[i] \in logged[t]
    BY <1>1 DEF OnceInv, AppendInv, AppendOk, At
  <1>6. \A i, j \in 1 .. Len(o) : o[i] = o[j] => i = j
    BY <1>2, <1>4 DEF OnceInv, DistinctInv, Distinct
  <1>7. k <= n + 1
    <2> SUFFICES ASSUME k > n + 1 PROVE FALSE
      BY <1>3, <1>4
    <2>1. o[n + 1] \in logged[t]
      BY <1>3, <1>4, <1>5
    <2>2. PICK i \in 1 .. n : o[n + 1] = o[i]
      BY <1>3, <2>1
    <2>3. n + 1 \in 1 .. Len(o) /\ i \in 1 .. Len(o)
      BY <1>3, <1>4
    <2> QED BY <1>3, <1>6, <2>2, <2>3
  <1>8. logged[t] \in SUBSET Row /\ logged \in [Trigger -> SUBSET Row]
    BY DEF OnceInv, TypeInv, TypeOK
  <1>9. logged'[t] = logged[t] \cup {o[k]}
    BY <1>1, <1>8 DEF Pending
  <1>10. CASE k <= n
    <2>1. k \in 1 .. n
      BY <1>3, <1>4, <1>10
    <2>2. o[k] \in logged[t]
      BY <1>3, <2>1
    <2>3. logged' = logged
      BY <1>1, <1>8, <2>2 DEF Pending
    <2> QED BY <1>2, <2>3
  <1>11. CASE k = n + 1
    <2>1. 1 .. k = (1 .. n) \cup {k} /\ n = k - 1
      BY <1>3, <1>4, <1>11
    <2>2. logged'[t] = FirstRows(decided[t], k)
      BY <1>3, <1>9, <2>1 DEF FirstRows
    <2>3. logged[t] = FirstRows(decided[t], k - 1)
      BY <1>3, <2>1 DEF FirstRows
    <2>4. logged' = [logged EXCEPT ![t] = FirstRows(decided[t], k)]
      BY <1>8, <2>2
    <2> QED BY <1>2, <1>4, <2>3, <2>4
  <1>12. k <= n \/ k = n + 1
    <2>1. k \in Nat /\ n \in Nat
      BY <1>3, <1>4
    <2> QED BY <1>7, <2>1
  <1> QED BY <1>10, <1>11, <1>12

\* So the log stays a prefix of the decided batch.
LEMMA AppendKeepsPrefix ==
    ASSUME OnceInv, NEW r \in Runner, NEW t \in Trigger,
           At(r, t, "append"), job[r][t].next <= Len(job[r][t].rec.outs),
           logged' = [logged EXCEPT ![t] = @ \cup {Pending(r, t)}],
           decided' = decided
    PROVE  NoChimera'
  <1>1. /\ decided[t] # NoRecord
        /\ \/ logged' = logged
           \/ \E n \in 1 .. Len(decided[t].outs) :
                 logged' = [logged EXCEPT ![t] = FirstRows(decided[t], n)]
    BY AppendShows
  <1>2. CASE logged' = logged
    BY <1>2 DEF OnceInv, NoChimera
  <1>3. ASSUME NEW n \in 1 .. Len(decided[t].outs),
               logged' = [logged EXCEPT ![t] = FirstRows(decided[t], n)]
        PROVE  NoChimera'
    <2>1. n \in 0 .. Len(decided[t].outs)
      BY <1>1, DecidedFacts DEF OnceInv, TypeInv
    <2>2. \A u \in Trigger : logged'[u] = IF u = t THEN FirstRows(decided[t], n) ELSE logged[u]
      BY <1>3 DEF OnceInv, TypeInv, TypeOK
    <2> QED BY <1>1, <2>1, <2>2 DEF OnceInv, NoChimera
  <1> QED BY <1>1, <1>2, <1>3

\* Sealing: the first seal decides, every later one returns the decision.
LEMMA SealStep ==
    ASSUME OnceInv, TypeInv', NEW r \in Runner, NEW t \in Trigger, At(r, t, "seal"),
           NEW j, Becomes(r, t, j),
           \/ j.pc = "append" /\ j.rec = Canon(t, job[r][t].rec) /\ j.next = 1
           \/ j.pc = "gate" /\ j.next = 1,
           SealWrites(t, job[r][t].rec),
           UNCHANGED <<logged, checkpoint>>
    PROVE  OnceInv'
  <1> DEFINE c == Canon(t, job[r][t].rec)
  <1> USE DEF OnceInv, TypeInv
  <1>1. job[r][t].rec \in Record /\ job[r][t].rec # NoRecord /\ Distinct(job[r][t].rec)
    BY NoRecordAssumption DEF HasRecord, At, DistinctInv
  <1>2. sealed[t] = NoRecord => decided[t] = NoRecord
    BY DEF StoreInv, Aged, At
  <1>3. sealed[t] # NoRecord => sealed[t] = decided[t]
    BY DEF StoreInv
  <1>4. c \in Record /\ c # NoRecord /\ (decided[t] # NoRecord => c = decided[t])
    BY <1>1, <1>2, <1>3, SealTypes, NoRecordAssumption DEF Canon
  <1>5. Distinct(c)
    BY <1>1, <1>2, <1>3 DEF Canon, DistinctInv
  <1>6. /\ decided \in [Trigger -> Record \cup {NoRecord}]
        /\ sealed \in [Trigger -> Record \cup {NoRecord}]
        /\ job \in [Runner -> [Trigger -> Job]]
    BY DEF TypeOK
  <1>7. \A u \in Trigger : /\ decided'[u] = IF u = t THEN c ELSE decided[u]
                           /\ sealed'[u] = IF u = t THEN c ELSE sealed[u]
    BY <1>4, <1>6 DEF SealWrites
  <1>8. \A q \in Runner, u \in Trigger :
           job'[q][u] = IF q = r /\ u = t THEN j ELSE job[q][u]
    BY <1>6 DEF Becomes
  <1>9. \A u \in Trigger : decided[u] # NoRecord => decided'[u] = decided[u]
    BY <1>4, <1>7
  <1> HIDE DEF c, TypeInv
  <1>10. DistinctInv'
    BY <1>5, <1>7, <1>8 DEF DistinctInv, At, Distinct
  <1>11. StoreInv'
    <2> SUFFICES ASSUME NEW u \in Trigger
                 PROVE  /\ sealed'[u] \in {NoRecord, decided'[u]}
                        /\ decided'[u] # NoRecord /\ sealed'[u] = NoRecord
                              => u <= checkpoint' /\ Aged(u)'
      BY DEF StoreInv
    <2>1. CASE u = t
      BY <1>4, <1>7, <2>1
    <2>2. CASE u # t
      BY <1>7, <1>8, <2>2 DEF StoreInv, Aged
    <2> QED BY <2>1, <2>2
  <1>12. AppendInv'
    <2>1. j.pc = "append" => j.next <= Len(j.rec.outs) + 1
      <3>1. c.outs \in Seq(Row)
        BY <1>4 DEF Record
      <3>2. Len(c.outs) \in Nat
        BY <3>1, LenProperties
      <3> QED BY <3>2 DEF c
    <2>2. AppendOk(j, logged[t])
      BY <2>1 DEF AppendOk
    <2> QED BY <1>8, <2>2 DEF AppendInv
  <1>13. NoChimera'
    <2>1. decided[t] = NoRecord => logged[t] = FirstRows(c, 0)
      BY DEF NoChimera, FirstRows
    <2>2. 0 \in 0 .. Len(c.outs)
      <3>1. c.outs \in Seq(Row)
        BY <1>4 DEF Record
      <3> QED BY <3>1, LenProperties
    <2> QED BY <1>4, <1>7, <2>1, <2>2 DEF NoChimera
  <1>14. AppendsOnlySealed'
    <2>1. \A q \in Runner, u \in Trigger : At(q, u, "append") => decided[u] # NoRecord
      BY NoRecordAssumption DEF TypeInv, HasRecord, At, AppendsOnlySealed
    <2> QED BY <1>7, <1>8, <1>9, <2>1 DEF AppendsOnlySealed, At, c
  <1> QED BY <1>10, <1>11, <1>12, <1>13, <1>14

-----------------------------------------------------------------------------
\* What a worker does keeps OnceInv.
LEMMA OnceWork ==
    ASSUME OnceInv, NEW r \in Runner, NEW t \in Trigger, Work(r, t)
    PROVE  OnceInv'
  <1>i. TypeInv'
    BY WorkType DEF OnceInv
  <1>j. job[r][t] \in Job /\ job \in [Runner -> [Trigger -> Job]] /\ TypeInv
    BY DEF OnceInv, TypeInv, TypeOK
  <1>g. /\ FreshJob("gate").pc = "gate" /\ FreshJob("gate").next = 1
        /\ FreshJob("acked").pc = "acked"
    BY DEF FreshJob
  <1>a. ASSUME Becomes(r, t, FreshJob("acked")), UNCHANGED <<logged, sealed, decided, checkpoint>>
        PROVE  OnceInv'
    BY <1>a, <1>i, <1>g, QuietStep DEF Idle
  <1>p. ASSUME Park(r, t), UNCHANGED <<logged, sealed, decided, checkpoint>>, At(r, t, "body")
        PROVE  OnceInv'
    <2> DEFINE j == [job[r][t] EXCEPT !.pc = "seal", !.parking = TRUE,
                                      !.rec = ParkRecord(r, t)]
    <2>1. j.pc = "seal" /\ j.next = 1 /\ Distinct(j.rec)
      BY <1>j, <1>p, ParkDistinct DEF Job, OnceInv, AppendInv, AppendOk, At
    <2>2. Becomes(r, t, j)
      BY <1>p DEF Park
    <2> HIDE DEF j
    <2> QED BY <1>i, <1>p, <2>1, <2>2, QuietStep DEF Idle, At
  <1>r. ASSUME NEW f, NEW w, Becomes(r, t, [FreshJob("gate") EXCEPT !.fenced = f, !.waited = w]),
               UNCHANGED <<logged, sealed, decided, checkpoint>>, ~(job[r][t].pc \in Idle)
        PROVE  OnceInv'
    <2> DEFINE j == [FreshJob("gate") EXCEPT !.fenced = f, !.waited = w]
    <2>1. j.pc = "gate" /\ j.next = 1
      BY DEF FreshJob
    <2>2. Becomes(r, t, j)
      BY <1>r
    <2> HIDE DEF j
    <2> QED BY <1>i, <1>r, <2>1, <2>2, QuietStep
  <1>1. CASE Dequeue(r, t)
    <2> DEFINE j == [FreshJob("gate") EXCEPT !.fenced = fence[r] /\ t \in Doomed]
    <2>1. j.pc = "gate" /\ j.next = 1
      BY DEF FreshJob
    <2>2. Becomes(r, t, j)
      BY <1>1 DEF Dequeue
    <2> HIDE DEF j
    <2> QED BY <1>i, <1>1, <2>1, <2>2, QuietStep DEF Dequeue, durable, ghost, Idle, At
  <1>2. CASE Replay(r, t)
    <2> DEFINE j == [job[r][t] EXCEPT !.pc = "append", !.rec = sealed[t], !.seq = 0]
    <2>1. Becomes(r, t, j) /\ UNCHANGED <<logged, sealed, decided, checkpoint>>
      BY <1>2 DEF Replay, durable, ghost
    <2>2. j.pc = "append" /\ j.rec = decided[t] /\ j.next = 1
      BY <1>2, <1>j DEF Job, OnceInv, AppendInv, AppendOk, StoreInv, Replay, At
    <2>3. decided[t] # NoRecord
      BY <1>2 DEF Replay, OnceInv, StoreInv
    <2> HIDE DEF j
    <2>4. \A q \in Runner, u \in Trigger :
             job'[q][u] = IF q = r /\ u = t THEN j ELSE job[q][u]
      BY <1>j, <2>1 DEF Becomes
    <2>5. DistinctInv'
      BY <2>1, <2>2, <2>4 DEF OnceInv, DistinctInv, At, Distinct
    <2>6. StoreInv'
      BY <1>2, <2>1, <2>2, <2>3, <2>4 DEF OnceInv, StoreInv, Aged, Replay
    <2>7. AppendInv'
      <3>1. Len(j.rec.outs) \in Nat
        BY <1>j, <2>2, <2>3, DecidedFacts DEF TypeInv
      <3>2. AppendOk(j, logged[t])
        BY <2>2, <3>1 DEF AppendOk
      <3> QED BY <2>1, <2>4, <3>2 DEF OnceInv, AppendInv
    <2>8. NoChimera'
      BY <2>1 DEF OnceInv, NoChimera
    <2>9. AppendsOnlySealed'
      BY <2>1, <2>2, <2>4 DEF OnceInv, AppendsOnlySealed, At
    <2> QED BY <1>i, <2>5, <2>6, <2>7, <2>8, <2>9 DEF OnceInv
  <1>3. CASE FenceAck(r, t)
    BY <1>3, <1>a DEF FenceAck, durable, ghost
  <1>4. CASE BeginAttempt(r, t)
    <2> DEFINE j == [job[r][t] EXCEPT !.pc = "body", !.seq = OneMore(attempts[t])]
    <2>1. j.pc = "body" /\ j.next = 1
      BY <1>4, <1>j DEF Job, BeginAttempt, OnceInv, AppendInv, AppendOk, At
    <2>2. Becomes(r, t, j)
      BY <1>4 DEF BeginAttempt
    <2> HIDE DEF j
    <2> QED BY <1>i, <1>4, <2>1, <2>2, QuietStep DEF BeginAttempt, ghost, Idle, At
  <1>17. CASE LookupMiss(r, t)
    <2> DEFINE j == [job[r][t] EXCEPT !.pc = "missed"]
    <2>1. j.pc = "missed" /\ j.next = 1
      BY <1>17, <1>j DEF Job, LookupMiss, OnceInv, AppendInv, AppendOk, At
    <2>2. Becomes(r, t, j)
      BY <1>17 DEF LookupMiss
    <2> HIDE DEF j
    <2> QED BY <1>i, <1>17, <2>1, <2>2, QuietStep DEF LookupMiss, durable, ghost, Idle, At
  <1>5. CASE BodyDecides(r, t)
    <2>0. \A consulted \in BOOLEAN : BodyReturns(t, consulted) \subseteq Batches \cup {<<>>}
      BY DEF BodyReturns
    <2>1. PICK b \in Batches \cup {<<>>} :
             Becomes(r, t, [job[r][t] EXCEPT !.pc = "seal",
                                !.rec = [outs |-> Stamp(r, b), parked |-> FALSE]])
      BY <1>5, <2>0 DEF BodyDecides
    <2> DEFINE c == [outs |-> Stamp(r, b), parked |-> FALSE]
               j == [job[r][t] EXCEPT !.pc = "seal", !.rec = c]
    <2>2. Distinct(c)
      BY StampDistinct
    <2>4. Becomes(r, t, j)
      BY <2>1
    <2> HIDE DEF c
    <2>3. j.pc = "seal" /\ j.next = 1 /\ j.rec = c
      BY <1>5, <1>j DEF Job, BodyDecides, OnceInv, AppendInv, AppendOk, At
    <2> HIDE DEF j
    <2> QED BY <1>i, <1>5, <2>2, <2>3, <2>4, QuietStep DEF BodyDecides, ghost, Idle, At
  <1>6. CASE BodyElides(r, t)
    BY <1>6, <1>a DEF BodyElides, ghost
  <1>7. CASE BodyRejected(r, t)
    BY <1>7, <1>p DEF BodyRejected, ghost
  <1>8. CASE BodyPoison(r, t)
    BY <1>8, <1>p DEF BodyPoison, durable, ghost
  <1>9. CASE BodyFails(r, t)
    <2>1. UNCHANGED <<logged, sealed, decided, checkpoint>> /\ At(r, t, "body")
      BY <1>9 DEF BodyFails, durable, ghost
    <2>2. CASE Park(r, t)
      BY <1>p, <2>1, <2>2
    <2>3. CASE Retry(r, t)
      BY <1>r, <2>1, <2>3 DEF Retry, At, Idle
    <2> QED BY <1>9, <2>2, <2>3 DEF BodyFails
  <1>10. CASE BodyTransient(r, t)
    <2>1. UNCHANGED <<logged, sealed, decided, checkpoint>> /\ At(r, t, "body")
      BY <1>10 DEF BodyTransient, durable, ghost
    <2>2. CASE Park(r, t)
      BY <1>p, <2>1, <2>2
    <2>3. CASE Becomes(r, t, [FreshJob("gate") EXCEPT !.fenced = job[r][t].fenced,
                                                      !.waited = job[r][t].waited + 1])
      BY <1>r, <2>1, <2>3 DEF At, Idle
    <2> QED BY <1>10, <2>2, <2>3 DEF BodyTransient
  <1>11. CASE Seal(r, t)
    <2> DEFINE c == Canon(t, job[r][t].rec)
               w == job[r][t].parking /\ Canon(t, job[r][t].rec) = job[r][t].rec
               j == [job[r][t] EXCEPT !.pc = "append", !.rec = c, !.won = w]
    <2>1. Becomes(r, t, j)
      BY <1>11 DEF Seal
    <2>2. j.pc = "append" /\ j.rec = Canon(t, job[r][t].rec) /\ j.next = 1
      BY <1>11, <1>j DEF Job, Seal, OnceInv, AppendInv, AppendOk, At
    <2> HIDE DEF j
    <2> QED BY <1>i, <1>11, <2>1, <2>2, SealStep DEF Seal
  <1>12. CASE AppendRow(r, t)
    <2> DEFINE j == [job[r][t] EXCEPT !.next = @ + 1]
    <2>1. Becomes(r, t, j) /\ UNCHANGED <<sealed, decided, checkpoint>>
      BY <1>12 DEF AppendRow, ghost
    <2>2. /\ j.pc = "append" /\ j.rec = job[r][t].rec /\ j.next = job[r][t].next + 1
          /\ job[r][t].pc = "append"
      BY <1>12, <1>j DEF Job, AppendRow, At
    <2> HIDE DEF j
    <2>3. \A q \in Runner, u \in Trigger :
             job'[q][u] = IF q = r /\ u = t THEN j ELSE job[q][u]
      BY <1>j, <2>1 DEF Becomes
    <2>4. NoChimera'
      BY <1>12, <2>1, AppendKeepsPrefix DEF AppendRow
    <2>5. AppendInv'
      <3>1. \A u \in Trigger : logged[u] \subseteq logged'[u]
        BY <1>12, <1>j DEF AppendRow, TypeInv, TypeOK
      <3>2. Pending(r, t) \in logged'[t]
        BY <1>12, <1>j DEF AppendRow, TypeInv, TypeOK
      <3>3. job[r][t].next \in 1 .. Len(job[r][t].rec.outs) /\ Len(job[r][t].rec.outs) \in Nat
        <4>1. job[r][t].rec \in Record /\ job[r][t].next \in 1 .. Len(job[r][t].rec.outs)
          BY <1>12, <1>j, PendingType DEF AppendRow
        <4>2. job[r][t].rec.outs \in Seq(Row)
          BY <4>1 DEF Record
        <4> QED BY <4>1, <4>2, LenProperties
      <3>4. j.next <= Len(j.rec.outs) + 1
        BY <2>2, <3>3
      <3>5. \A i \in 1 .. j.next - 1 : j.rec.outs[i] \in logged'[t]
        <4> SUFFICES ASSUME NEW i \in 1 .. j.next - 1
                     PROVE  job[r][t].rec.outs[i] \in logged'[t]
          BY <2>2
        <4>1. CASE i = job[r][t].next
          BY <3>2, <4>1 DEF Pending
        <4>2. CASE i # job[r][t].next
          <5>1. i \in 1 .. job[r][t].next - 1
            BY <2>2, <3>3, <4>2
          <5> QED BY <2>2, <3>1, <5>1 DEF OnceInv, AppendInv, AppendOk
        <4> QED BY <4>1, <4>2
      <3>6. AppendOk(j, logged'[t])
        BY <2>2, <3>4, <3>5 DEF AppendOk
      <3>7. \A q \in Runner, u \in Trigger : AppendOk(job[q][u], logged'[u])
        BY <3>1 DEF OnceInv, AppendInv, AppendOk
      <3> QED BY <2>3, <3>6, <3>7 DEF AppendInv
    <2>6. DistinctInv'
      BY <2>1, <2>2, <2>3 DEF OnceInv, DistinctInv, At, Distinct
    <2>7. StoreInv'
      BY <2>1, <2>2, <2>3 DEF OnceInv, StoreInv, Aged
    <2>8. AppendsOnlySealed'
      BY <2>1, <2>2, <2>3 DEF OnceInv, AppendsOnlySealed, At
    <2> QED BY <1>i, <2>4, <2>5, <2>6, <2>7, <2>8 DEF OnceInv
  <1>13. CASE Diverge(r, t)
    BY <1>13, NoDivergence DEF Diverge
  <1>14. CASE Reseal(r, t)
    BY <1>14 DEF Reseal, OnceInv, AppendInv, AppendOk, At
  <1>15. CASE Complete(r, t)
    BY <1>15, <1>a DEF Complete, ghost
  <1>16. CASE CompletePark(r, t)
    BY <1>16, <1>a DEF CompletePark, ghost
  <1> QED
    BY <1>1, <1>2, <1>3, <1>4, <1>5, <1>6, <1>7, <1>8, <1>9, <1>10, <1>11, <1>12, <1>13,
       <1>14, <1>15, <1>16, <1>17 DEF Work

\* An infrastructure error sends the job back to the gate, from which a landed
\* seal is found again and a landed row is recognised.
LEMMA OnceInfra ==
    ASSUME OnceInv, NEW r \in Runner, NEW t \in Trigger, Infra(r, t)
    PROVE  OnceInv'
  <1> DEFINE j == [FreshJob("gate") EXCEPT !.fenced = job[r][t].fenced,
                                           !.waited = job[r][t].waited]
  <1>i. TypeInv'
    BY InfraType DEF OnceInv
  <1>j. job[r][t] \in Job /\ job \in [Runner -> [Trigger -> Job]] /\ TypeInv
    BY DEF OnceInv, TypeInv, TypeOK
  <1>1. Retry(r, t) /\ UNCHANGED checkpoint
    BY DEF Infra, IoError, CounterReplyLost, SealReplyLost, AppendReplyLost, ParkClearError, Fault
  <1>2. Becomes(r, t, j)
    BY <1>1 DEF Retry
  <1>3. j.pc = "gate" /\ j.next = 1
    BY DEF FreshJob
  <1>4. ~(job[r][t].pc \in Idle)
    BY DEF Infra, IoError, CounterReplyLost, SealReplyLost, AppendReplyLost, ParkClearError,
           Appended, At, Idle
  <1> HIDE DEF j
  <1>5. CASE IoError(r, t) \/ CounterReplyLost(r, t) \/ ParkClearError(r, t)
    <2>1. UNCHANGED <<logged, sealed, decided, checkpoint>>
      BY <1>1, <1>5 DEF IoError, CounterReplyLost, ParkClearError, ghost
    <2> QED BY <1>i, <1>2, <1>3, <1>4, <2>1, QuietStep
  <1>6. CASE SealReplyLost(r, t)
    <2>1. At(r, t, "seal")
      BY <1>6 DEF SealReplyLost, OnceInv, AppendInv, AppendOk, At
    <2> QED BY <1>i, <1>1, <1>2, <1>3, <1>6, <2>1, SealStep DEF SealReplyLost
  <1>7. CASE AppendReplyLost(r, t)
    <2>1. UNCHANGED <<sealed, decided, checkpoint>>
      BY <1>1, <1>7 DEF AppendReplyLost, ghost
    <2>2. NoChimera'
      BY <1>7, <2>1, AppendKeepsPrefix DEF AppendReplyLost
    <2>3. \A q \in Runner, u \in Trigger :
             job'[q][u] = IF q = r /\ u = t THEN j ELSE job[q][u]
      BY <1>j, <1>2 DEF Becomes
    <2>4. AppendInv'
      <3>1. \A u \in Trigger : logged[u] \subseteq logged'[u]
        BY <1>7, <1>j DEF AppendReplyLost, TypeInv, TypeOK
      <3>2. AppendOk(j, logged'[t])
        BY <1>3 DEF AppendOk
      <3>3. \A q \in Runner, u \in Trigger : AppendOk(job[q][u], logged'[u])
        BY <3>1 DEF OnceInv, AppendInv, AppendOk
      <3> QED BY <2>3, <3>2, <3>3 DEF AppendInv
    <2>5. DistinctInv'
      BY <1>3, <2>1, <2>3 DEF OnceInv, DistinctInv, At, Distinct
    <2>6. StoreInv'
      BY <1>3, <1>4, <2>1, <2>3 DEF OnceInv, StoreInv, Aged, Idle
    <2>7. AppendsOnlySealed'
      BY <1>3, <2>1, <2>3 DEF OnceInv, AppendsOnlySealed, At
    <2> QED BY <1>i, <2>2, <2>4, <2>5, <2>6, <2>7 DEF OnceInv
  <1> QED
    BY <1>5, <1>6, <1>7 DEF Infra

\* Crashes, restarts, the moving checkpoint and the sweep keep OnceInv.
LEMMA OnceProcess ==
    ASSUME OnceInv, TypeInv', MaxRewinds = 0,
           \/ \E r \in Runner : Start(r) \/ Persist(r) \/ Crash(r) \/ LearnCancel(r)
           \/ \E t \in Trigger : Sweep(t)
           \/ Cancel
           \/ Rewind
    PROVE  OnceInv'
  <1>t. TypeInv /\ TypeOK /\ job \in [Runner -> [Trigger -> Job]]
    BY DEF OnceInv, TypeInv, TypeOK
  <1>f. \A p \in PC : FreshJob(p).pc = p /\ FreshJob(p).next = 1
    BY DEF FreshJob
  <1>1. ASSUME NEW r \in Runner, NEW p \in [Trigger -> {"down", "passed", "queued"}],
               \A t \in Trigger : t <= checkpoint => p[t] # "queued",
               job' = [job EXCEPT ![r] = [t \in Trigger |-> FreshJob(p[t])]],
               UNCHANGED <<logged, sealed, decided, checkpoint>>
        PROVE  OnceInv'
    <2>1. \A q \in Runner, u \in Trigger :
             job'[q][u] = IF q = r THEN FreshJob(p[u]) ELSE job[q][u]
      BY <1>t, <1>1
    <2>2. \A u \in Trigger : /\ FreshJob(p[u]).pc = p[u]
                             /\ p[u] \in {"down", "passed", "queued"}
                             /\ u <= checkpoint => p[u] # "queued"
      BY <1>1, <1>f DEF PC
    <2>3. DistinctInv'
      BY <1>1, <2>1, <2>2 DEF OnceInv, DistinctInv, At, Distinct
    <2>4. StoreInv'
      BY <1>1, <2>1, <2>2 DEF OnceInv, StoreInv, Aged
    <2>5. AppendInv'
      <3>1. \A u \in Trigger : AppendOk(FreshJob(p[u]), logged[u])
        BY <2>2 DEF AppendOk
      <3> QED BY <1>1, <2>1, <3>1 DEF OnceInv, AppendInv
    <2>6. NoChimera'
      BY <1>1 DEF OnceInv, NoChimera
    <2>7. AppendsOnlySealed'
      BY <1>1, <2>1, <2>2 DEF OnceInv, AppendsOnlySealed, At
    <2> QED BY <2>3, <2>4, <2>5, <2>6, <2>7 DEF OnceInv
  <1>2. ASSUME NEW r \in Runner, Start(r)
        PROVE  OnceInv'
    <2> DEFINE p == [t \in Trigger |-> IF t <= checkpoint THEN "passed" ELSE "queued"]
    <2>1. job' = [job EXCEPT ![r] = [t \in Trigger |-> FreshJob(p[t])]]
      BY <1>2 DEF Start
    <2>2. UNCHANGED <<logged, sealed, decided, checkpoint>>
      BY <1>2 DEF Start, durable, ghost
    <2>3. /\ p \in [Trigger -> {"down", "passed", "queued"}]
          /\ \A t \in Trigger : t <= checkpoint => p[t] # "queued"
      OBVIOUS
    <2> HIDE DEF p
    <2> QED BY <1>1, <2>1, <2>2, <2>3
  <1>3. ASSUME NEW r \in Runner, Persist(r)
        PROVE  OnceInv'
    <2>1. UNCHANGED <<logged, sealed, decided, job>>
      BY <1>3 DEF Persist, ghost
    <2>2. checkpoint' >= checkpoint /\ checkpoint \in Nat /\ checkpoint' \in Nat
      BY <1>3, <1>t, ConstantsAssumption DEF Persist, TypeOK, Trigger
    <2>3. StoreInv'
      <3>1. \A u \in Trigger : u <= checkpoint => u <= checkpoint'
        BY <2>2, ConstantsAssumption DEF Trigger
      <3> QED BY <2>1, <3>1 DEF OnceInv, StoreInv, Aged
    <2> QED
      BY <2>1, <2>3 DEF OnceInv, DistinctInv, At, AppendInv, NoChimera, AppendsOnlySealed
  <1>4. ASSUME NEW r \in Runner, Crash(r)
        PROVE  OnceInv'
    <2> DEFINE p == [t \in Trigger |-> "down"]
    <2>1. job' = [job EXCEPT ![r] = [t \in Trigger |-> FreshJob(p[t])]]
      BY <1>4 DEF Crash
    <2>2. UNCHANGED <<logged, sealed, decided, checkpoint>>
      BY <1>4 DEF Crash, durable, ghost
    <2>3. /\ p \in [Trigger -> {"down", "passed", "queued"}]
          /\ \A t \in Trigger : t <= checkpoint => p[t] # "queued"
      OBVIOUS
    <2> HIDE DEF p
    <2> QED BY <1>1, <2>1, <2>2, <2>3
  <1>5. ASSUME NEW r \in Runner, LearnCancel(r)
        PROVE  OnceInv'
    BY <1>5 DEF LearnCancel, OnceInv, DistinctInv, StoreInv, Aged, At, AppendInv, NoChimera,
                AppendsOnlySealed, durable, ghost
  <1>6. ASSUME NEW t \in Trigger, Sweep(t)
        PROVE  OnceInv'
    <2>1. UNCHANGED <<logged, decided, job, checkpoint>>
      BY <1>6 DEF Sweep, ghost
    <2>2. \A u \in Trigger : sealed'[u] = IF u = t THEN NoRecord ELSE sealed[u]
      BY <1>6, <1>t DEF Sweep, TypeOK
    <2>3. StoreInv'
      BY <1>6, <2>1, <2>2 DEF Sweep, Reclaimable, OnceInv, StoreInv, Aged
    <2> QED
      BY <2>1, <2>3 DEF OnceInv, DistinctInv, At, AppendInv, NoChimera, AppendsOnlySealed
  <1>7. CASE Cancel
    BY <1>7 DEF Cancel, OnceInv, DistinctInv, StoreInv, Aged, At, AppendInv, NoChimera,
                AppendsOnlySealed, ghost
  <1>8. CASE Rewind
    BY <1>8, <1>t DEF Rewind, TypeOK
  <1> QED
    BY <1>2, <1>3, <1>4, <1>5, <1>6, <1>7, <1>8

LEMMA OnceInit == Init => OnceInv
  <1> SUFFICES ASSUME Init PROVE OnceInv
    OBVIOUS
  <1>1. TypeInv
    BY TypeInit
  <1>2. \A r \in Runner, t \in Trigger : job[r][t].pc = "down"
    BY DEF Init, FreshJob
  <1>3. AppendInv
    BY <1>2 DEF AppendInv, AppendOk
  <1> QED
    BY <1>1, <1>2, <1>3 DEF Init, OnceInv, DistinctInv, StoreInv, NoChimera,
                            AppendsOnlySealed, At

LEMMA OnceStep == MaxRewinds = 0 /\ OnceInv /\ [Next]_vars => OnceInv'
  <1> SUFFICES ASSUME MaxRewinds = 0, OnceInv, [Next]_vars PROVE OnceInv'
    OBVIOUS
  <1>0. TypeInv'
    BY TypeStep DEF OnceInv
  <1>1. CASE \E r \in Runner, t \in Trigger : Work(r, t) \/ Infra(r, t)
    BY <1>1, OnceWork, OnceInfra
  <1>2. CASE UNCHANGED vars
    BY <1>0, <1>2 DEF OnceInv, DistinctInv, StoreInv, Aged, At, AppendInv, NoChimera,
                      AppendsOnlySealed, vars, durable, ghost
  <1> QED
    BY <1>0, <1>1, <1>2, OnceProcess DEF Next

\* One decision: unless the durable checkpoint is restored from a backup, the
\* rows of a trigger in the log are a prefix of the batch sealed first, however
\* many executions of the consumer overlap, crash or retry.
THEOREM OneDecision == MaxRewinds = 0 => (Spec => []NoChimera)
  <1> SUFFICES ASSUME MaxRewinds = 0 PROVE Spec => []NoChimera
    OBVIOUS
  <1>1. OnceInv => NoChimera
    BY DEF OnceInv
  <1>2. OnceInv /\ [Next]_vars => OnceInv'
    BY OnceStep
  <1> QED
    BY <1>1, <1>2, OnceInit, PTL DEF Spec

\* One batch: under the same condition, what any execution appends is the batch
\* sealed first, even after it lost the race to seal or the record was swept
\* (replay_decision, append_decision).
THEOREM OneBatch == MaxRewinds = 0 => (Spec => []AppendsOnlySealed)
  <1> SUFFICES ASSUME MaxRewinds = 0 PROVE Spec => []AppendsOnlySealed
    OBVIOUS
  <1>1. OnceInv => AppendsOnlySealed
    BY DEF OnceInv
  <1>2. OnceInv /\ [Next]_vars => OnceInv'
    BY OnceStep
  <1> QED
    BY <1>1, <1>2, OnceInit, PTL DEF Spec

-----------------------------------------------------------------------------
(***************************************************************************)
(* What the durable cursor, the dead-letter hook and the sweep may rely    *)
(* on, proved from OnceInv; and that ReactorDecision implements            *)
(* DecideOnce.  The checkpoint is not restored from a backup               *)
(* (MaxRewinds = 0).                                                       *)
(***************************************************************************)
\* Some runner, or the durable cursor, is past the trigger.
Past(t) == t <= checkpoint \/ \E r \in Runner : job[r][t].pc \in {"passed", "acked"}

(***************************************************************************)
(* The strengthening the cursor needs: a fence tells the truth, and a      *)
(* trigger somebody is past either has no decision because its workflow is *)
(* cancelled, or has every promised row in the log.                        *)
(***************************************************************************)
FenceInv ==
    /\ \A r \in Runner : fence[r] => cancelled
    /\ \A r \in Runner, t \in Trigger : job[r][t].fenced => cancelled

PromiseInv == \A t \in preCancel : decided[t] # NoRecord

PastInv ==
    \A t \in Trigger : Past(t) =>
        /\ decided[t] = NoRecord => cancelled
        /\ t \in preCancel => Whole(t)

CursorInv == OnceInv /\ FenceInv /\ PromiseInv /\ PastInv

DeadLetterInv == OnceInv /\ DeadLetterIsParked

-----------------------------------------------------------------------------
\* Where a replaced job ends up.
LEMMA JobAt ==
    ASSUME TypeInv, NEW r \in Runner, NEW t \in Trigger, NEW j, Becomes(r, t, j)
    PROVE  \A q \in Runner, u \in Trigger :
              job'[q][u] = IF q = r /\ u = t THEN j ELSE job[q][u]
  BY DEF TypeInv, TypeOK, Becomes

\* How a worker's step moves its job: the trigger is acked for one of three
\* reasons, and a fence comes from the runner's.
AckReason(r, t) ==
    \/ At(r, t, "gate") /\ job[r][t].fenced /\ sealed[t] = NoRecord
    \/ ~SealEmpty
    \/ Appended(r, t)

Moves(r, t, j) ==
    /\ j.pc # "passed"
    /\ j.pc = "acked" => AckReason(r, t) /\ UNCHANGED <<logged, decided, preCancel>>
    /\ j.fenced => job[r][t].fenced \/ fence[r]

LEMMA WorkMoves ==
    ASSUME TypeInv, NEW r \in Runner, NEW t \in Trigger, Work(r, t)
    PROVE  \E j : Becomes(r, t, j) /\ Moves(r, t, j)
  <1>j. job[r][t] \in Job
    BY DEF TypeInv, TypeOK
  <1>p. ASSUME Park(r, t)
        PROVE  \E j : Becomes(r, t, j) /\ Moves(r, t, j)
    <2> DEFINE j == [job[r][t] EXCEPT !.pc = "seal", !.parking = TRUE,
                                      !.rec = ParkRecord(r, t)]
    <2>1. j.pc = "seal" /\ j.fenced = job[r][t].fenced
      BY <1>j DEF Job
    <2>2. Becomes(r, t, j)
      BY <1>p DEF Park
    <2> HIDE DEF j
    <2> QED BY <2>1, <2>2 DEF Moves
  <1>r. ASSUME Retry(r, t)
        PROVE  \E j : Becomes(r, t, j) /\ Moves(r, t, j)
    <2> DEFINE j == [FreshJob("gate") EXCEPT !.fenced = job[r][t].fenced,
                                             !.waited = job[r][t].waited]
    <2>1. j.pc = "gate" /\ j.fenced = job[r][t].fenced
      BY DEF FreshJob
    <2>2. Becomes(r, t, j)
      BY <1>r DEF Retry
    <2> HIDE DEF j
    <2> QED BY <2>1, <2>2 DEF Moves
  <1>a. ASSUME Becomes(r, t, FreshJob("acked")), AckReason(r, t),
               UNCHANGED <<logged, decided, preCancel>>
        PROVE  \E j : Becomes(r, t, j) /\ Moves(r, t, j)
    <2>1. FreshJob("acked").pc = "acked" /\ ~FreshJob("acked").fenced
      BY DEF FreshJob
    <2> QED BY <1>a, <2>1 DEF Moves
  <1>1. CASE Dequeue(r, t)
    <2> DEFINE j == [FreshJob("gate") EXCEPT !.fenced = fence[r] /\ t \in Doomed]
    <2>1. j.pc = "gate" /\ (j.fenced => fence[r])
      BY DEF FreshJob
    <2>2. Becomes(r, t, j)
      BY <1>1 DEF Dequeue
    <2> HIDE DEF j
    <2> QED BY <2>1, <2>2 DEF Moves
  <1>2. CASE Replay(r, t)
    <2> DEFINE j == [job[r][t] EXCEPT !.pc = "append", !.rec = sealed[t], !.seq = 0]
    <2>1. j.pc = "append" /\ j.fenced = job[r][t].fenced
      BY <1>j DEF Job
    <2>2. Becomes(r, t, j)
      BY <1>2 DEF Replay
    <2> HIDE DEF j
    <2> QED BY <2>1, <2>2 DEF Moves
  <1>3. CASE FenceAck(r, t)
    <2>1. AckReason(r, t) /\ UNCHANGED <<logged, decided, preCancel>>
      BY <1>3 DEF FenceAck, AckReason, durable, ghost
    <2> QED BY <1>3, <1>a, <2>1 DEF FenceAck
  <1>4. CASE BeginAttempt(r, t)
    <2> DEFINE j == [job[r][t] EXCEPT !.pc = "body", !.seq = OneMore(attempts[t])]
    <2>1. j.pc = "body" /\ j.fenced = job[r][t].fenced
      BY <1>j DEF Job
    <2>2. Becomes(r, t, j)
      BY <1>4 DEF BeginAttempt
    <2> HIDE DEF j
    <2> QED BY <2>1, <2>2 DEF Moves
  <1>17. CASE LookupMiss(r, t)
    <2> DEFINE j == [job[r][t] EXCEPT !.pc = "missed"]
    <2>1. j.pc = "missed" /\ j.fenced = job[r][t].fenced
      BY <1>j DEF Job
    <2>2. Becomes(r, t, j)
      BY <1>17 DEF LookupMiss
    <2> HIDE DEF j
    <2> QED BY <2>1, <2>2 DEF Moves
  <1>5. CASE BodyDecides(r, t)
    <2>1. PICK b : Becomes(r, t, [job[r][t] EXCEPT !.pc = "seal",
                                !.rec = [outs |-> Stamp(r, b), parked |-> FALSE]])
      BY <1>5 DEF BodyDecides
    <2> DEFINE j == [job[r][t] EXCEPT !.pc = "seal",
                                !.rec = [outs |-> Stamp(r, b), parked |-> FALSE]]
    <2>2. j.pc = "seal" /\ j.fenced = job[r][t].fenced
      BY <1>j DEF Job
    <2>3. Becomes(r, t, j)
      BY <2>1
    <2> HIDE DEF j
    <2> QED BY <2>2, <2>3 DEF Moves
  <1>6. CASE BodyElides(r, t)
    <2>1. AckReason(r, t) /\ UNCHANGED <<logged, decided, preCancel>>
      BY <1>6 DEF BodyElides, AckReason, ghost
    <2> QED BY <1>6, <1>a, <2>1 DEF BodyElides
  <1>7. CASE BodyRejected(r, t)
    BY <1>7, <1>p DEF BodyRejected
  <1>8. CASE BodyPoison(r, t)
    BY <1>8, <1>p DEF BodyPoison
  <1>9. CASE BodyFails(r, t)
    BY <1>9, <1>p, <1>r DEF BodyFails
  <1>10. CASE BodyTransient(r, t)
    <2> DEFINE j == [FreshJob("gate") EXCEPT !.fenced = job[r][t].fenced,
                                             !.waited = job[r][t].waited + 1]
    <2>1. j.pc = "gate" /\ j.fenced = job[r][t].fenced
      BY DEF FreshJob
    <2>2. Park(r, t) \/ Becomes(r, t, j)
      BY <1>10 DEF BodyTransient
    <2> HIDE DEF j
    <2> QED BY <1>p, <2>1, <2>2 DEF Moves
  <1>11. CASE Seal(r, t)
    <2> DEFINE c == Canon(t, job[r][t].rec)
               w == job[r][t].parking /\ Canon(t, job[r][t].rec) = job[r][t].rec
               j == [job[r][t] EXCEPT !.pc = "append", !.rec = c, !.won = w]
    <2>1. Becomes(r, t, j)
      BY <1>11 DEF Seal
    <2> HIDE DEF c, w
    <2>2. j.pc = "append" /\ j.fenced = job[r][t].fenced
      BY <1>j DEF Job
    <2> HIDE DEF j
    <2> QED BY <2>1, <2>2 DEF Moves
  <1>12. CASE AppendRow(r, t)
    <2> DEFINE j == [job[r][t] EXCEPT !.next = @ + 1]
    <2>1. Becomes(r, t, j) /\ At(r, t, "append")
      BY <1>12 DEF AppendRow
    <2>2. j.pc = "append" /\ j.fenced = job[r][t].fenced
      BY <1>j, <2>1 DEF Job, At
    <2> HIDE DEF j
    <2> QED BY <2>1, <2>2 DEF Moves
  <1>13. CASE Diverge(r, t)
    <2>1. PICK x : IF Canonical
               THEN Becomes(r, t, [job[r][t] EXCEPT
                        !.pc = "reseal",
                        !.rec = Amended(job[r][t].rec, job[r][t].next, x)])
               ELSE Becomes(r, t, [job[r][t] EXCEPT !.next = Len(job[r][t].rec.outs) + 1])
      BY <1>13 DEF Diverge
    <2> DEFINE c == Amended(job[r][t].rec, job[r][t].next, x)
               n == Len(job[r][t].rec.outs) + 1
               j == IF Canonical THEN [job[r][t] EXCEPT !.pc = "reseal", !.rec = c]
                                 ELSE [job[r][t] EXCEPT !.next = n]
    <2>2. Becomes(r, t, j)
      BY <2>1
    <2> HIDE DEF c, n
    <2>3. j.pc \in {"reseal", "append"} /\ j.fenced = job[r][t].fenced
      BY <1>13, <1>j DEF Diverge, Job, At
    <2> HIDE DEF j
    <2> QED BY <2>2, <2>3 DEF Moves
  <1>14. CASE Reseal(r, t)
    <2> DEFINE c == Canon(t, job[r][t].rec)
               j == [job[r][t] EXCEPT !.pc = "append", !.rec = c, !.next = 1]
    <2>1. Becomes(r, t, j)
      BY <1>14 DEF Reseal
    <2> HIDE DEF c
    <2>2. j.pc = "append" /\ j.fenced = job[r][t].fenced
      BY <1>j DEF Job
    <2> HIDE DEF j
    <2> QED BY <2>1, <2>2 DEF Moves
  <1>15. CASE Complete(r, t)
    <2>1. AckReason(r, t) /\ UNCHANGED <<logged, decided, preCancel>>
      BY <1>15 DEF Complete, AckReason, ghost
    <2> QED BY <1>15, <1>a, <2>1 DEF Complete
  <1>16. CASE CompletePark(r, t)
    <2>1. AckReason(r, t) /\ UNCHANGED <<logged, decided, preCancel>>
      BY <1>16 DEF CompletePark, AckReason, ghost
    <2> QED BY <1>16, <1>a, <2>1 DEF CompletePark
  <1> QED
    BY <1>1, <1>2, <1>3, <1>4, <1>5, <1>6, <1>7, <1>8, <1>9, <1>10, <1>11, <1>12, <1>13,
       <1>14, <1>15, <1>16, <1>17 DEF Work

\* An infrastructure error only sends the job back to the gate.
LEMMA InfraMoves ==
    ASSUME TypeInv, NEW r \in Runner, NEW t \in Trigger, Infra(r, t)
    PROVE  \E j : Becomes(r, t, j) /\ Moves(r, t, j)
  <1> DEFINE j == [FreshJob("gate") EXCEPT !.fenced = job[r][t].fenced,
                                           !.waited = job[r][t].waited]
  <1>1. Retry(r, t)
    BY DEF Infra, IoError, CounterReplyLost, SealReplyLost, AppendReplyLost, ParkClearError
  <1>2. j.pc = "gate" /\ j.fenced = job[r][t].fenced
    BY DEF FreshJob
  <1>3. Becomes(r, t, j)
    BY <1>1 DEF Retry
  <1> HIDE DEF j
  <1> QED BY <1>2, <1>3 DEF Moves

-----------------------------------------------------------------------------
\* What no step takes back: a row, a decision, a cancel; and a decision is
\* promised only when it is made before the cancel.
Grows ==
    \A t \in Trigger :
        /\ logged[t] \subseteq logged'[t]
        /\ decided[t] # NoRecord => decided'[t] = decided[t]
        /\ t \in preCancel' =>
              \/ t \in preCancel
              \/ decided[t] = NoRecord /\ ~cancelled /\ decided'[t] # NoRecord

LEMMA SealGrows ==
    ASSUME TypeInv, NEW t \in Trigger, NEW rec \in Record, SealWrites(t, rec),
           UNCHANGED logged
    PROVE  Grows
  <1>1. Canon(t, rec) # NoRecord
    BY NoRecordAssumption DEF Canon
  <1> DEFINE c == Canon(t, rec)
  <1>2. \A u \in Trigger : decided'[u] = IF u = t /\ decided[u] = NoRecord THEN c ELSE decided[u]
    BY DEF SealWrites, TypeInv, TypeOK
  <1>3. \A u \in preCancel' : u \in preCancel \/ (u = t /\ decided[u] = NoRecord /\ ~cancelled)
    BY DEF SealWrites
  <1> HIDE DEF c
  <1> QED BY <1>1, <1>2, <1>3 DEF Grows, c

LEMMA StepGrows ==
    ASSUME TypeInv, [Next]_vars
    PROVE  Grows
  <1>t. TypeOK
    BY DEF TypeInv
  <1>q. ASSUME UNCHANGED <<decided, preCancel>>, \A t \in Trigger : logged[t] \subseteq logged'[t]
        PROVE  Grows
    BY <1>q DEF Grows
  <1>1. ASSUME NEW r \in Runner, NEW t \in Trigger, Work(r, t) \/ Infra(r, t)
        PROVE  Grows
    <2>1. CASE Seal(r, t) \/ Reseal(r, t) \/ SealReplyLost(r, t)
      <3>1. job[r][t].rec \in Record
        BY <2>1 DEF TypeInv, HasRecord, Seal, Reseal, SealReplyLost, At
      <3>2. SealWrites(t, job[r][t].rec) /\ UNCHANGED logged
        BY <2>1 DEF Seal, Reseal, SealReplyLost
      <3> QED BY <3>1, <3>2, SealGrows
    <2>2. CASE AppendRow(r, t) \/ AppendReplyLost(r, t)
      <3>1. /\ logged' = [logged EXCEPT ![t] = @ \cup {Pending(r, t)}]
            /\ UNCHANGED <<decided, preCancel>>
        BY <2>2 DEF AppendRow, AppendReplyLost, ghost
      <3> QED BY <1>q, <1>t, <3>1 DEF TypeOK
    <2>3. CASE ~(Seal(r, t) \/ Reseal(r, t) \/ SealReplyLost(r, t)
                 \/ AppendRow(r, t) \/ AppendReplyLost(r, t))
      <3>1. UNCHANGED <<logged, decided, preCancel>>
        BY <1>1, <2>3 DEF Work, Dequeue, Replay, FenceAck, LookupMiss, BeginAttempt, BodyDecides, BodyElides,
             BodyRejected, BodyPoison, BodyFails, BodyTransient, Diverge, Complete, CompletePark,
             Infra, IoError, CounterReplyLost, ParkClearError, durable, ghost
      <3> QED BY <1>q, <3>1
    <2> QED BY <2>1, <2>2, <2>3
  <1>2. CASE \/ \E r \in Runner : Start(r) \/ Persist(r) \/ Crash(r) \/ LearnCancel(r)
             \/ \E t \in Trigger : Sweep(t)
             \/ Cancel \/ Rewind \/ UNCHANGED vars
    <2>1. UNCHANGED <<logged, decided, preCancel>>
      BY <1>2 DEF Start, Persist, Crash, LearnCancel, Sweep, Cancel, Rewind, vars, durable, ghost
    <2> QED BY <1>q, <2>1
  <1> QED BY <1>1, <1>2 DEF Next

\* A cancel is not taken back either.
LEMMA CancelStays == [Next]_vars /\ cancelled => cancelled'
  <1> SUFFICES ASSUME [Next]_vars, cancelled PROVE cancelled'
    OBVIOUS
  <1>1. ASSUME NEW r \in Runner, NEW t \in Trigger, Work(r, t) \/ Infra(r, t)
        PROVE  cancelled'
    BY <1>1 DEF Work, Dequeue, Replay, FenceAck, LookupMiss, BeginAttempt, BodyDecides, BodyElides,
         BodyRejected, BodyPoison, BodyFails, BodyTransient, Seal, AppendRow, Diverge, Reseal,
         Complete, CompletePark, Infra, IoError, CounterReplyLost, SealReplyLost,
         AppendReplyLost, ParkClearError, Fault, durable
  <1> QED
    BY <1>1 DEF Next, Start, Persist, Crash, LearnCancel, Sweep, Cancel, Rewind, vars, durable

\* A batch that is whole stays whole.
LEMMA WholeStays ==
    ASSUME OnceInv, OnceInv', [Next]_vars, NEW t \in Trigger,
           decided[t] # NoRecord, Whole(t)
    PROVE  Whole(t)'
  <1>1. logged[t] \subseteq logged'[t] /\ decided'[t] = decided[t]
    BY StepGrows DEF OnceInv, Grows
  <1>2. /\ DOMAIN decided[t].outs = 1 .. Len(decided[t].outs)
        /\ Len(decided[t].outs) \in Nat
    BY DecidedFacts DEF OnceInv, TypeInv
  <1>3. PICK n \in 0 .. Len(decided[t].outs) : logged'[t] = {decided[t].outs[i] : i \in 1 .. n}
    <2>1. decided'[t] # NoRecord
      BY <1>1
    <2>2. \E n \in 0 .. Len(decided'[t].outs) : logged'[t] = {decided'[t].outs[i] : i \in 1 .. n}
      BY <2>1 DEF OnceInv, NoChimera, FirstRows
    <2> QED BY <1>1, <2>2
  <1>4. 1 .. n \subseteq DOMAIN decided[t].outs
    BY <1>2, <1>3
  <1>5. logged'[t] \subseteq Rows(decided[t])
    BY <1>3, <1>4 DEF Rows
  <1> QED BY <1>1, <1>5 DEF Whole

\* When an execution has appended its whole record, the decision is whole.
LEMMA AppendedWhole ==
    ASSUME OnceInv, NEW r \in Runner, NEW t \in Trigger, Appended(r, t)
    PROVE  decided[t] # NoRecord /\ decided[t] = job[r][t].rec /\ Whole(t)
  <1>1. job[r][t].rec = decided[t] /\ job[r][t].rec \in Record
    BY DEF Appended, At, OnceInv, AppendsOnlySealed, TypeInv, HasRecord
  <1>2. decided[t] # NoRecord
    BY <1>1, NoRecordAssumption
  <1>3. /\ DOMAIN decided[t].outs = 1 .. Len(decided[t].outs)
        /\ Len(decided[t].outs) \in Nat
    BY <1>2, DecidedFacts DEF OnceInv, TypeInv
  <1>4. PICK n \in 0 .. Len(decided[t].outs) : logged[t] = {decided[t].outs[i] : i \in 1 .. n}
    BY <1>2 DEF OnceInv, NoChimera, FirstRows
  <1>5. logged[t] \subseteq Rows(decided[t])
    <2>1. 1 .. n \subseteq DOMAIN decided[t].outs
      BY <1>3, <1>4
    <2> QED BY <1>2, <1>4, <2>1 DEF Rows
  <1>6. AppendOk(job[r][t], logged[t]) /\ job[r][t] \in Job
    BY DEF OnceInv, AppendInv, TypeInv, TypeOK
  <1>7. job[r][t].next = Len(decided[t].outs) + 1
    <2>1. /\ job[r][t].next \in Nat
          /\ job[r][t].next > Len(decided[t].outs)
          /\ job[r][t].next <= Len(decided[t].outs) + 1
      BY <1>1, <1>6 DEF AppendOk, Appended, At, Job
    <2> QED BY <1>3, <2>1
  <1>8. \A i \in DOMAIN decided[t].outs : decided[t].outs[i] \in logged[t]
    BY <1>1, <1>3, <1>6, <1>7 DEF AppendOk, Appended, At
  <1>9. Rows(decided[t]) \subseteq logged[t]
    BY <1>2, <1>8 DEF Rows
  <1> QED BY <1>1, <1>2, <1>5, <1>9 DEF Whole

-----------------------------------------------------------------------------
\* How somebody gets past a trigger: it is fenced and undecided, or the
\* decision is whole.  Neither a crash nor a restart passes anything.
LEMMA PastOrigin ==
    ASSUME OnceInv, FenceInv, SealEmpty, MaxRewinds = 0, [Next]_vars,
           NEW t \in Trigger, Past(t)'
    PROVE  \/ Past(t)
           \/ decided[t] = NoRecord /\ cancelled
           \/ decided[t] # NoRecord /\ Whole(t)
  <1>t. TypeInv /\ TypeOK
    BY DEF OnceInv, TypeInv
  <1>f. \A p \in PC : FreshJob(p).pc = p
    BY DEF FreshJob
  <1>1. ASSUME NEW r \in Runner, NEW u \in Trigger, Work(r, u) \/ Infra(r, u)
        PROVE  \/ Past(t)
               \/ decided[t] = NoRecord /\ cancelled
               \/ decided[t] # NoRecord /\ Whole(t)
    <2>1. PICK j : Becomes(r, u, j) /\ Moves(r, u, j)
      BY <1>1, <1>t, WorkMoves, InfraMoves
    <2>2. \A q \in Runner, v \in Trigger :
             job'[q][v] = IF q = r /\ v = u THEN j ELSE job[q][v]
      BY <1>t, <2>1, JobAt
    <2>3. UNCHANGED checkpoint
      BY <1>1 DEF Work, Dequeue, Replay, FenceAck, LookupMiss, BeginAttempt, BodyDecides, BodyElides,
           BodyRejected, BodyPoison, BodyFails, BodyTransient, Seal, AppendRow, Diverge, Reseal,
           Complete, CompletePark, Infra, IoError, CounterReplyLost, SealReplyLost,
           AppendReplyLost, ParkClearError, Fault, durable
    <2>4. CASE Past(t)
      BY <2>4
    <2>5. CASE ~Past(t)
      <3>1. t = u /\ j.pc = "acked"
        BY <2>1, <2>2, <2>3, <2>5 DEF Past, Moves
      <3>2. \/ At(r, t, "gate") /\ job[r][t].fenced /\ sealed[t] = NoRecord
            \/ Appended(r, t)
        BY <2>1, <3>1 DEF Moves, AckReason
      <3>3. CASE Appended(r, t)
        BY <3>3, AppendedWhole
      <3>4. CASE At(r, t, "gate") /\ job[r][t].fenced /\ sealed[t] = NoRecord
        <4>1. cancelled
          BY <3>4 DEF FenceInv
        <4>2. decided[t] = NoRecord
          BY <3>4 DEF OnceInv, StoreInv, Aged, At
        <4> QED BY <4>1, <4>2
      <3> QED BY <3>2, <3>3, <3>4
    <2> QED BY <2>4, <2>5
  <1>2. ASSUME NEW r \in Runner, Start(r)
        PROVE  Past(t)
    <2>1. \A q \in Runner :
             job'[q][t] = IF q = r THEN FreshJob(IF t <= checkpoint THEN "passed" ELSE "queued")
                                   ELSE job[q][t]
      BY <1>2, <1>t DEF Start, TypeOK
    <2>2. FreshJob("queued").pc = "queued"
      BY <1>f DEF PC
    <2>3. UNCHANGED checkpoint
      BY <1>2 DEF Start, durable
    <2> QED BY <2>1, <2>2, <2>3 DEF Past
  <1>3. ASSUME NEW r \in Runner, Persist(r)
        PROVE  Past(t)
    <2>1. PICK n \in Trigger :
             /\ \A v \in 1 .. n : job[r][v].pc \in {"passed", "acked"}
             /\ checkpoint' = n
      BY <1>3 DEF Persist
    <2>2. UNCHANGED job
      BY <1>3 DEF Persist
    <2>3. CASE t <= n
      <3>1. t \in 1 .. n
        BY <2>3, ConstantsAssumption DEF Trigger
      <3> QED BY <2>1, <3>1 DEF Past
    <2>4. CASE ~(t <= n)
      BY <2>1, <2>2, <2>4 DEF Past
    <2> QED BY <2>3, <2>4
  <1>4. ASSUME NEW r \in Runner, Crash(r)
        PROVE  Past(t)
    <2>1. \A q \in Runner : job'[q][t] = IF q = r THEN FreshJob("down") ELSE job[q][t]
      BY <1>4, <1>t DEF Crash, TypeOK
    <2>2. FreshJob("down").pc = "down"
      BY <1>f DEF PC
    <2>3. UNCHANGED checkpoint
      BY <1>4 DEF Crash
    <2> QED BY <2>1, <2>2, <2>3 DEF Past
  <1>5. CASE \/ \E r \in Runner : LearnCancel(r)
             \/ \E u \in Trigger : Sweep(u)
             \/ Cancel
             \/ UNCHANGED vars
    <2>1. UNCHANGED <<checkpoint, job>>
      BY <1>5 DEF LearnCancel, Sweep, Cancel, vars, durable
    <2> QED BY <2>1 DEF Past
  <1>6. CASE Rewind
    BY <1>6, <1>t DEF Rewind, TypeOK
  <1> QED BY <1>1, <1>2, <1>3, <1>4, <1>5, <1>6 DEF Next

\* A fence is set only once the durable marker exists.
LEMMA FenceStep ==
    ASSUME TypeInv, FenceInv, [Next]_vars
    PROVE  FenceInv'
  <1>t. TypeOK
    BY DEF TypeInv
  <1>c. cancelled => cancelled'
    BY CancelStays
  <1>f. \A p \in PC : ~FreshJob(p).fenced
    BY DEF FreshJob
  <1>1. ASSUME NEW r \in Runner, NEW u \in Trigger, Work(r, u) \/ Infra(r, u)
        PROVE  FenceInv'
    <2>1. PICK j : Becomes(r, u, j) /\ Moves(r, u, j)
      BY <1>1, WorkMoves, InfraMoves
    <2>2. \A q \in Runner, v \in Trigger :
             job'[q][v] = IF q = r /\ v = u THEN j ELSE job[q][v]
      BY <2>1, JobAt
    <2>3. UNCHANGED fence
      BY <1>1 DEF Work, Dequeue, Replay, FenceAck, LookupMiss, BeginAttempt, BodyDecides, BodyElides,
           BodyRejected, BodyPoison, BodyFails, BodyTransient, Seal, AppendRow, Diverge, Reseal,
           Complete, CompletePark, Infra, IoError, CounterReplyLost, SealReplyLost,
           AppendReplyLost, ParkClearError, Fault
    <2>4. j.fenced => cancelled
      BY <2>1 DEF Moves, FenceInv
    <2> QED BY <1>c, <2>2, <2>3, <2>4 DEF FenceInv
  <1>2. ASSUME NEW r \in Runner, Start(r)
        PROVE  FenceInv'
    <2>1. \A q \in Runner, v \in Trigger :
             job'[q][v] = IF q = r THEN FreshJob(IF v <= checkpoint THEN "passed" ELSE "queued")
                                   ELSE job[q][v]
      BY <1>2, <1>t DEF Start, TypeOK
    <2>2. ~FreshJob("queued").fenced /\ ~FreshJob("passed").fenced
      BY <1>f DEF PC
    <2>3. \A q \in Runner : fence'[q] => fence[q] \/ cancelled
      BY <1>2, <1>t DEF Start, TypeOK
    <2> QED BY <1>c, <2>1, <2>2, <2>3 DEF FenceInv
  <1>3. ASSUME NEW r \in Runner, Crash(r)
        PROVE  FenceInv'
    <2>1. \A q \in Runner, v \in Trigger :
             job'[q][v] = IF q = r THEN FreshJob("down") ELSE job[q][v]
      BY <1>3, <1>t DEF Crash, TypeOK
    <2>2. ~FreshJob("down").fenced
      BY <1>f DEF PC
    <2>3. \A q \in Runner : fence'[q] => fence[q]
      BY <1>3, <1>t DEF Crash, TypeOK
    <2> QED BY <1>c, <2>1, <2>2, <2>3 DEF FenceInv
  <1>4. ASSUME NEW r \in Runner, LearnCancel(r)
        PROVE  FenceInv'
    <2>1. UNCHANGED job /\ cancelled
      BY <1>4 DEF LearnCancel
    <2> QED BY <1>c, <2>1 DEF FenceInv
  <1>5. CASE \/ \E r \in Runner : Persist(r)
             \/ \E u \in Trigger : Sweep(u)
             \/ Cancel \/ Rewind
             \/ UNCHANGED vars
    <2>1. UNCHANGED <<fence, job>>
      BY <1>5 DEF Persist, Sweep, Cancel, Rewind, vars
    <2> QED BY <1>c, <2>1 DEF FenceInv
  <1> QED BY <1>1, <1>2, <1>3, <1>4, <1>5 DEF Next

LEMMA CursorInit == Init => CursorInv
  <1> SUFFICES ASSUME Init PROVE CursorInv
    OBVIOUS
  <1>1. OnceInv
    BY OnceInit
  <1>2. \A r \in Runner, t \in Trigger : job[r][t].pc = "down" /\ ~job[r][t].fenced
    BY DEF Init, FreshJob
  <1>3. \A t \in Trigger : ~Past(t)
    <2>1. checkpoint = 0
      BY DEF Init
    <2>2. \A t \in Trigger : ~(t <= 0)
      BY ConstantsAssumption DEF Trigger
    <2> QED BY <1>2, <2>1, <2>2 DEF Past
  <1> QED
    BY <1>1, <1>2, <1>3 DEF Init, CursorInv, FenceInv, PromiseInv, PastInv

LEMMA CursorStep == MaxRewinds = 0 /\ SealEmpty /\ CursorInv /\ [Next]_vars => CursorInv'
  <1> SUFFICES ASSUME MaxRewinds = 0, SealEmpty, CursorInv, [Next]_vars
               PROVE  CursorInv'
    OBVIOUS
  <1>1. OnceInv /\ TypeInv /\ FenceInv /\ PromiseInv /\ PastInv
    BY DEF CursorInv, OnceInv
  <1>2. OnceInv'
    BY <1>1, OnceStep
  <1>3. FenceInv'
    BY <1>1, FenceStep
  <1>4. Grows
    BY <1>1, StepGrows
  <1>5. cancelled => cancelled'
    BY CancelStays
  <1>6. PromiseInv'
    BY <1>1, <1>2, <1>4 DEF PromiseInv, Grows, OnceInv, TypeInv, TypeOK
  <1>7. PastInv'
    <2> SUFFICES ASSUME NEW t \in Trigger, Past(t)'
                 PROVE  /\ decided'[t] = NoRecord => cancelled'
                        /\ t \in preCancel' => Whole(t)'
      BY DEF PastInv
    <2>1. CASE decided[t] = NoRecord
      <3>1. cancelled
        BY <1>1, <2>1, PastOrigin DEF PastInv
      <3>2. t \notin preCancel'
        BY <1>1, <1>4, <2>1, <3>1 DEF Grows, PromiseInv
      <3> QED BY <1>5, <3>1, <3>2
    <2>2. CASE decided[t] # NoRecord
      <3>1. decided'[t] # NoRecord
        BY <1>4, <2>2 DEF Grows
      <3>2. ASSUME t \in preCancel' PROVE Whole(t)'
        <4>1. t \in preCancel
          BY <1>4, <2>2, <3>2 DEF Grows
        <4>2. Whole(t)
          BY <1>1, <2>2, <4>1, PastOrigin DEF PastInv
        <4> QED BY <1>1, <1>2, <2>2, <4>2, WholeStays
      <3> QED BY <3>1, <3>2
    <2> QED BY <2>1, <2>2
  <1> QED BY <1>2, <1>3, <1>6, <1>7 DEF CursorInv

\* The durable cursor passes a trigger whose decision was sealed before its
\* workflow was cancelled only when every row of the decision is in the log,
\* whatever executions overlap or crash: worker_loop's fenced mode completes a
\* sealed batch before it acks.
THEOREM CursorPassesWhole == MaxRewinds = 0 /\ SealEmpty => (Spec => []CheckpointImpliesWhole)
  <1> SUFFICES ASSUME MaxRewinds = 0, SealEmpty PROVE Spec => []CheckpointImpliesWhole
    OBVIOUS
  <1>1. CursorInv => CheckpointImpliesWhole
    BY DEF CursorInv, PastInv, Past, CheckpointImpliesWhole
  <1>2. CursorInv /\ [Next]_vars => CursorInv'
    BY CursorStep
  <1> QED
    BY <1>1, <1>2, CursorInit, PTL DEF Spec

-----------------------------------------------------------------------------
\* The retention sweep takes a record only when the durable cursor is past its
\* trigger and, when the decision was promised, the whole batch is in the log;
\* nothing else removes a record (remove_reclaimable).
THEOREM SweepTakesRetired ==
    MaxRewinds = 0 /\ SealEmpty => (Spec => SweptIsRetired)
  <1> DEFINE Swept == \A t \in Trigger :
                         sealed[t] # NoRecord /\ sealed'[t] = NoRecord
                            => t <= checkpoint /\ (t \in preCancel => Whole(t))
  <1> SUFFICES ASSUME MaxRewinds = 0, SealEmpty PROVE Spec => SweptIsRetired
    OBVIOUS
  <1>1. CursorInv /\ [Next]_vars => Swept
    <2> SUFFICES ASSUME CursorInv, [Next]_vars, NEW t \in Trigger,
                        sealed[t] # NoRecord, sealed'[t] = NoRecord
                 PROVE  t <= checkpoint /\ (t \in preCancel => Whole(t))
      OBVIOUS
    <2>1. OnceInv /\ TypeInv /\ TypeOK /\ PastInv
      BY DEF CursorInv, OnceInv, TypeInv
    <2>2. ASSUME NEW u \in Trigger, Sweep(u)
          PROVE  t <= checkpoint /\ (t \in preCancel => Whole(t))
      <3>1. t = u
        BY <2>1, <2>2 DEF Sweep, TypeOK
      <3>2. t <= checkpoint
        BY <2>2, <3>1 DEF Sweep, Reclaimable
      <3> QED BY <2>1, <3>2 DEF PastInv, Past
    <2>3. ASSUME NEW r \in Runner, NEW u \in Trigger, Work(r, u) \/ Infra(r, u)
          PROVE  FALSE
      <3>1. CASE Seal(r, u) \/ Reseal(r, u) \/ SealReplyLost(r, u)
        <4>1. job[r][u].rec \in Record
          BY <2>1, <3>1 DEF TypeInv, HasRecord, Seal, Reseal, SealReplyLost, At
        <4>2. SealWrites(u, job[r][u].rec)
          BY <3>1 DEF Seal, Reseal, SealReplyLost
        <4>3. Canon(u, job[r][u].rec) # NoRecord
          BY <4>1, NoRecordAssumption DEF Canon
        <4> QED BY <2>1, <4>2, <4>3 DEF SealWrites, TypeOK
      <3>2. CASE Diverge(r, u)
        BY <2>1, <3>2, NoDivergence DEF Diverge
      <3>3. CASE ~(Seal(r, u) \/ Reseal(r, u) \/ SealReplyLost(r, u) \/ Diverge(r, u))
        BY <2>3, <3>3 DEF Work, Dequeue, Replay, FenceAck, LookupMiss, BeginAttempt, BodyDecides, BodyElides,
             BodyRejected, BodyPoison, BodyFails, BodyTransient, AppendRow, Complete,
             CompletePark, Infra, IoError, CounterReplyLost, AppendReplyLost, ParkClearError,
             durable
      <3> QED BY <3>1, <3>2, <3>3
    <2>4. CASE \/ \E r \in Runner : Start(r) \/ Persist(r) \/ Crash(r) \/ LearnCancel(r)
               \/ Cancel \/ Rewind \/ UNCHANGED vars
      BY <2>4 DEF Start, Persist, Crash, LearnCancel, Cancel, Rewind, vars, durable
    <2> QED BY <2>2, <2>3, <2>4 DEF Next
  <1>2. CursorInv /\ [Next]_vars => CursorInv'
    BY CursorStep
  <1> QED
    BY <1>1, <1>2, CursorInit, PTL DEF Spec, SweptIsRetired

\* A runner that is not up has nothing in hand.
DownInv == \A r \in Runner : ~up[r] => \A t \in Trigger : At(r, t, "down")

LEMMA DownStep == TypeInv /\ DownInv /\ [Next]_vars => DownInv'
  <1> SUFFICES ASSUME TypeInv, DownInv, [Next]_vars PROVE DownInv'
    OBVIOUS
  <1>t. TypeOK
    BY DEF TypeInv
  <1>1. ASSUME NEW r \in Runner, NEW t \in Trigger, Work(r, t) \/ Infra(r, t)
        PROVE  DownInv'
    <2>1. UNCHANGED up
      BY <1>1 DEF Work, Dequeue, Replay, FenceAck, LookupMiss, BeginAttempt, BodyDecides,
           BodyElides, BodyRejected, BodyPoison, BodyFails, BodyTransient, Seal, AppendRow,
           Diverge, Reseal, Complete, CompletePark, Infra, IoError, CounterReplyLost,
           SealReplyLost, AppendReplyLost, ParkClearError, Fault
    <2>2. ~At(r, t, "down")
      BY <1>1 DEF Work, Dequeue, Replay, FenceAck, LookupMiss, BeginAttempt, BodyDecides,
           BodyElides, BodyRejected, BodyPoison, BodyFails, BodyTransient, Seal, AppendRow,
           Diverge, Reseal, Complete, CompletePark, Appended, Infra, IoError, CounterReplyLost,
           SealReplyLost, AppendReplyLost, ParkClearError, At
    <2>3. \A q \in Runner : q # r => job'[q] = job[q]
      <3>1. PICK j : Becomes(r, t, j)
        BY <1>1, WorkMoves, InfraMoves
      <3> QED BY <1>t, <3>1 DEF Becomes, TypeOK
    <2> QED BY <2>1, <2>2, <2>3 DEF DownInv, At
  <1>2. ASSUME NEW r \in Runner, Start(r) \/ Crash(r)
        PROVE  DownInv'
    <2>1. \A q \in Runner : q # r => job'[q] = job[q] /\ up'[q] = up[q]
      BY <1>2, <1>t DEF Start, Crash, TypeOK
    <2>2. CASE Start(r)
      <3>1. up'[r]
        BY <1>t, <2>2 DEF Start, TypeOK
      <3> QED BY <2>1, <3>1 DEF DownInv, At
    <2>3. CASE Crash(r)
      <3>1. \A t \in Trigger : job'[r][t] = FreshJob("down")
        BY <1>t, <2>3 DEF Crash, TypeOK
      <3>2. FreshJob("down").pc = "down"
        BY DEF FreshJob
      <3> QED BY <2>1, <3>1, <3>2 DEF DownInv, At
    <2> QED BY <1>2, <2>2, <2>3
  <1>3. CASE \/ \E r \in Runner : Persist(r) \/ LearnCancel(r)
             \/ \E u \in Trigger : Sweep(u)
             \/ Cancel \/ Rewind \/ UNCHANGED vars
    BY <1>3 DEF DownInv, At, Persist, LearnCancel, Sweep, Cancel, Rewind, vars
  <1> QED BY <1>1, <1>2, <1>3 DEF Next

\* From the gate, with a record in the store, the only way on is the replay.
LEMMA GateReplays ==
    ASSUME NEW r \in Runner, NEW t \in Trigger, At(r, t, "gate"), sealed[t] # NoRecord,
           Work(r, t) \/ Infra(r, t)
    PROVE  Replay(r, t)
  BY DEF Work, Dequeue, FenceAck, LookupMiss, BeginAttempt, BodyDecides, BodyElides,
     BodyRejected, BodyPoison, BodyFails, BodyTransient, Seal, AppendRow, Diverge, Reseal,
     Complete, CompletePark, Appended, Infra, IoError, CounterReplyLost, SealReplyLost,
     AppendReplyLost, ParkClearError, At

\* Once a decision exists, no delivery that comes to the replay gate gets past
\* it without the decision (attempt_trigger's lookup): the record it needs is
\* in the store, since a record is swept only when no execution can still
\* deliver the trigger (remove_reclaimable).
THEOREM NoGateMissesADecision == MaxRewinds = 0 => (Spec => GateSeesDecision)
  <1> DEFINE Sees ==
        \A r \in Runner, t \in Trigger :
            At(r, t, "gate") /\ decided[t] # NoRecord
               => \/ (At(r, t, "gate"))' \/ (At(r, t, "down"))'
                  \/ (At(r, t, "append"))' /\ job'[r][t].rec = decided[t]
  <1> SUFFICES ASSUME MaxRewinds = 0 PROVE Spec => GateSeesDecision
    OBVIOUS
  <1>1. OnceInv /\ DownInv /\ [Next]_vars => Sees
    <2> SUFFICES ASSUME OnceInv, DownInv, [Next]_vars, NEW q \in Runner, NEW t \in Trigger,
                        At(q, t, "gate"), decided[t] # NoRecord
                 PROVE  \/ (At(q, t, "gate"))' \/ (At(q, t, "down"))'
                        \/ (At(q, t, "append"))' /\ job'[q][t].rec = decided[t]
      OBVIOUS
    <2>1. TypeInv /\ TypeOK
      BY DEF OnceInv, TypeInv
    <2>2. sealed[t] # NoRecord /\ sealed[t] = decided[t]
      BY DEF OnceInv, StoreInv, Aged, At
    <2>3. ASSUME job'[q][t] = job[q][t]
          PROVE  (At(q, t, "gate"))'
      BY <2>3 DEF At
    <2>4. CASE Work(q, t) \/ Infra(q, t)
      <3> DEFINE j == [job[q][t] EXCEPT !.pc = "append", !.rec = sealed[t], !.seq = 0]
      <3>1. Becomes(q, t, j)
        BY <2>2, <2>4, GateReplays DEF Replay
      <3>2. job[q][t] \in Job
        BY <2>1 DEF TypeOK
      <3>3. j.pc = "append" /\ j.rec = sealed[t]
        BY <3>2 DEF Job
      <3> HIDE DEF j
      <3>4. job'[q][t] = j
        BY <2>1, <3>1, JobAt
      <3> QED BY <2>2, <3>3, <3>4 DEF At
    <2>5. ASSUME NEW r \in Runner, NEW u \in Trigger, Work(r, u) \/ Infra(r, u),
                 ~(r = q /\ u = t)
          PROVE  (At(q, t, "gate"))'
      <3>1. PICK j : Becomes(r, u, j)
        BY <2>1, <2>5, WorkMoves, InfraMoves
      <3> QED BY <2>1, <2>3, <2>5, <3>1, JobAt
    <2>6. ASSUME NEW r \in Runner, Start(r)
          PROVE  (At(q, t, "gate"))'
      <3>1. r # q
        BY <2>6 DEF Start, DownInv, At
      <3> QED BY <2>1, <2>3, <2>6, <3>1 DEF Start, TypeOK
    <2>7. ASSUME NEW r \in Runner, Crash(r)
          PROVE  (At(q, t, "gate"))' \/ (At(q, t, "down"))'
      <3>1. CASE r = q
        <4>1. job'[q][t] = FreshJob("down")
          BY <2>1, <2>7, <3>1 DEF Crash, TypeOK
        <4> QED BY <4>1 DEF At, FreshJob
      <3>2. CASE r # q
        BY <2>1, <2>3, <2>7, <3>2 DEF Crash, TypeOK
      <3> QED BY <3>1, <3>2
    <2>8. CASE \/ \E r \in Runner : Persist(r) \/ LearnCancel(r)
               \/ \E u \in Trigger : Sweep(u)
               \/ Cancel \/ Rewind \/ UNCHANGED vars
      BY <2>3, <2>8 DEF Persist, LearnCancel, Sweep, Cancel, Rewind, vars
    <2> QED BY <2>4, <2>5, <2>6, <2>7, <2>8 DEF Next
  <1>2. OnceInv /\ [Next]_vars => OnceInv'
    BY OnceStep
  <1>3. OnceInv /\ DownInv /\ [Next]_vars => DownInv'
    BY DownStep DEF OnceInv
  <1>4. Init => DownInv
    BY DEF Init, DownInv, At, FreshJob
  <1>5. Sees <=> \A r \in Runner, t \in Trigger :
            At(r, t, "gate") /\ decided[t] # NoRecord
               => \/ (At(r, t, "gate"))' \/ (At(r, t, "down"))'
                  \/ (At(r, t, "append"))' /\ job'[r][t].rec = decided[t]
    OBVIOUS
  <1> QED
    BY <1>1, <1>2, <1>3, <1>4, OnceInit, PTL DEF Spec, GateSeesDecision

-----------------------------------------------------------------------------
\* The hook fires for the canonical park, and only when it is in the log.
LEMMA DlqFires ==
    ASSUME OnceInv, NEW r \in Runner, NEW t \in Trigger, Appended(r, t), FireDlq(r, t)
    PROVE  \A u \in Trigger :
              \/ dlq'[u] = dlq[u]
              \/ decided[u] # NoRecord /\ decided[u].parked /\ Whole(u)
  <1>1. decided[t] # NoRecord /\ decided[t] = job[r][t].rec /\ Whole(t)
    BY AppendedWhole
  <1>2. dlq \in [Trigger -> Nat]
    BY DEF OnceInv, TypeInv, TypeOK
  <1>3. CASE job[r][t].won /\ job[r][t].rec.parked
    <2>1. \A u \in Trigger : u # t => dlq'[u] = dlq[u]
      BY <1>2 DEF FireDlq
    <2> QED BY <1>1, <1>3, <2>1
  <1>4. CASE ~(job[r][t].won /\ job[r][t].rec.parked)
    BY <1>2, <1>4 DEF FireDlq
  <1> QED BY <1>3, <1>4

LEMMA DeadLetterStep == MaxRewinds = 0 /\ DeadLetterInv /\ [Next]_vars => DeadLetterInv'
  <1> SUFFICES ASSUME MaxRewinds = 0, DeadLetterInv, [Next]_vars PROVE DeadLetterInv'
    OBVIOUS
  <1>1. OnceInv /\ TypeInv /\ TypeOK /\ DeadLetterIsParked
    BY DEF DeadLetterInv, OnceInv, TypeInv
  <1>2. OnceInv'
    BY <1>1, OnceStep
  <1>3. Grows
    BY <1>1, StepGrows
  <1>4. \A t \in Trigger :
           \/ dlq'[t] = dlq[t]
           \/ decided[t] # NoRecord /\ decided[t].parked /\ Whole(t)
    <2>1. ASSUME NEW r \in Runner, NEW t \in Trigger, CompletePark(r, t) \/ ParkClearError(r, t)
          PROVE  Appended(r, t) /\ FireDlq(r, t)
      BY <2>1 DEF CompletePark, ParkClearError
    <2>2. CASE \E r \in Runner, t \in Trigger : CompletePark(r, t) \/ ParkClearError(r, t)
      BY <1>1, <2>1, <2>2, DlqFires
    <2>3. CASE ~ \E r \in Runner, t \in Trigger : CompletePark(r, t) \/ ParkClearError(r, t)
      <3>1. ASSUME NEW r \in Runner, NEW t \in Trigger, Work(r, t) \/ Infra(r, t)
            PROVE  UNCHANGED dlq
        BY <2>3, <3>1 DEF Work, Dequeue, Replay, FenceAck, LookupMiss, BeginAttempt, BodyDecides,
             BodyElides, BodyRejected, BodyPoison, BodyFails, BodyTransient, Seal, AppendRow,
             Diverge, Reseal, Complete, Infra, IoError, CounterReplyLost, SealReplyLost,
             AppendReplyLost
      <3> QED
        BY <3>1 DEF Next, Start, Persist, Crash, LearnCancel, Sweep, Cancel, Rewind, vars
    <2> QED BY <2>2, <2>3
  <1>5. ASSUME NEW t \in Trigger, dlq'[t] > 0
        PROVE  decided'[t] # NoRecord /\ decided'[t].parked /\ Whole(t)'
    <2>1. decided[t] # NoRecord /\ decided[t].parked /\ Whole(t)
      BY <1>1, <1>4, <1>5 DEF DeadLetterIsParked
    <2> QED BY <1>1, <1>2, <1>3, <2>1, WholeStays DEF Grows
  <1> QED BY <1>2, <1>5 DEF DeadLetterInv, DeadLetterIsParked

LEMMA DeadLetterInit == Init => DeadLetterInv
  <1>1. Init => DeadLetterIsParked
    BY DEF Init, DeadLetterIsParked
  <1> QED BY <1>1, OnceInit DEF DeadLetterInv

\* A trigger reaches the dead-letter hook only when the one decision sealed for
\* it is a park and the park's fact is in the log: never a success as well
\* (park_terminal_failure).
THEOREM DeadLettersAreParked == MaxRewinds = 0 => (Spec => []DeadLetterIsParked)
  <1> SUFFICES ASSUME MaxRewinds = 0 PROVE Spec => []DeadLetterIsParked
    OBVIOUS
  <1>1. DeadLetterInv /\ [Next]_vars => DeadLetterInv'
    BY DeadLetterStep
  <1>2. DeadLetterInv => DeadLetterIsParked
    BY DEF DeadLetterInv
  <1> QED
    BY <1>1, <1>2, DeadLetterInit, PTL DEF Spec

-----------------------------------------------------------------------------
(***************************************************************************)
(* The hook fires once.  A park that appends a fact stamps it with the     *)
(* runner that parked, so at most one execution can find its own record    *)
(* canonical; and a park is never swept, so that runner cannot come back   *)
(* to the body and park again.  Two silent parks are equal records: see    *)
(* the findings.                                                           *)
(***************************************************************************)
HookOk(r, t, j) ==
    /\ j.won => j.pc = "append" /\ decided[t] = ParkRecord(r, t) /\ dlq[t] = 0
    /\ j.pc \in {"gate", "missed", "body"} => ~j.parking
    /\ j.pc \in {"missed", "body", "seal"} => decided[t] # ParkRecord(r, t)
    /\ j.pc = "seal" => \A i \in DOMAIN j.rec.outs : j.rec.outs[i].by = r
    /\ j.pc = "seal" /\ j.parking => j.rec = ParkRecord(r, t)

HookInv ==
    /\ DeadLetterInv
    /\ \A t \in Trigger \ Silent :
          /\ dlq[t] <= 1
          /\ \A r \in Runner : HookOk(r, t, job[r][t])

\* A park with a fact says who parked.
LEMMA ParkStamped ==
    ASSUME NEW r \in Runner, NEW t \in Trigger \ Silent
    PROVE  /\ 1 \in DOMAIN ParkRecord(r, t).outs
           /\ \A i \in DOMAIN ParkRecord(r, t).outs : ParkRecord(r, t).outs[i].by = r
           /\ ParkRecord(r, t).parked
  <1>1. ParkRecord(r, t).outs = [i \in {1} |-> [key |-> <<ParkKey>>[i], by |-> r]]
    <2>1. DOMAIN <<ParkKey>> = {1}
      OBVIOUS
    <2> QED BY <2>1 DEF ParkRecord, Stamp
  <1> QED BY <1>1 DEF ParkRecord

\* A step that seals nothing and fires nothing, and moves one job to a place
\* from which the hook is as safe as before.
LEMMA HookQuiet ==
    ASSUME HookInv, DeadLetterInv', NEW r \in Runner, NEW t \in Trigger, NEW j, Becomes(r, t, j),
           UNCHANGED <<decided, dlq>>,
           HookOk(r, t, j)
    PROVE  HookInv'
  <1>1. \A q \in Runner, u \in Trigger :
           job'[q][u] = IF q = r /\ u = t THEN j ELSE job[q][u]
    BY JobAt DEF HookInv, DeadLetterInv, OnceInv
  <1>2. \A u \in Trigger \ Silent : dlq'[u] <= 1
    BY DEF HookInv
  <1>3. ASSUME NEW q \in Runner, NEW u \in Trigger \ Silent
        PROVE  HookOk(q, u, job'[q][u])
    BY <1>1, <1>3 DEF HookInv
  <1>4. ASSUME NEW q \in Runner, NEW u \in Trigger \ Silent
        PROVE  HookOk(q, u, job[q][u])'
    BY <1>3, <1>4 DEF HookOk
  <1> QED BY <1>2, <1>4 DEF HookInv

\* Silent triggers are none of HookInv's business.
LEMMA HookSilent ==
    ASSUME HookInv, DeadLetterInv', NEW r \in Runner, NEW t \in Trigger, t \in Silent,
           NEW j, Becomes(r, t, j), UNCHANGED <<decided, dlq>>
    PROVE  HookInv'
  <1>1. \A q \in Runner, u \in Trigger : u # t => job'[q][u] = job[q][u]
    BY JobAt DEF HookInv, DeadLetterInv, OnceInv
  <1>2. \A u \in Trigger \ Silent : dlq'[u] <= 1
    BY DEF HookInv
  <1>3. ASSUME NEW q \in Runner, NEW u \in Trigger \ Silent
        PROVE  HookOk(q, u, job[q][u])'
    BY <1>1 DEF HookInv, HookOk
  <1> QED BY <1>2, <1>3 DEF HookInv

\* A seal: whoever finds its own park canonical has just decided, and nothing
\* fired before that.
LEMMA HookSeal ==
    ASSUME HookInv, DeadLetterInv', NEW r \in Runner, NEW t \in Trigger, At(r, t, "seal"),
           NEW j, Becomes(r, t, j),
           SealWrites(t, job[r][t].rec), UNCHANGED dlq,
           \/ j.pc = "append" /\ (j.won => job[r][t].parking
                                           /\ Canon(t, job[r][t].rec) = job[r][t].rec)
           \/ j.pc = "gate" /\ ~j.won /\ ~j.parking
    PROVE  HookInv'
  <1> DEFINE c == Canon(t, job[r][t].rec)
  <1>0. /\ OnceInv /\ TypeInv /\ DeadLetterIsParked
        /\ decided \in [Trigger -> Record \cup {NoRecord}] /\ dlq \in [Trigger -> Nat]
    BY DEF HookInv, DeadLetterInv, OnceInv, TypeInv, TypeOK
  <1>1. \A q \in Runner, u \in Trigger :
           job'[q][u] = IF q = r /\ u = t THEN j ELSE job[q][u]
    BY <1>0, JobAt
  <1>2. job[r][t].rec \in Record /\ job[r][t].rec # NoRecord
    BY <1>0, NoRecordAssumption DEF TypeInv, HasRecord, At
  <1>3. /\ sealed[t] = NoRecord => decided[t] = NoRecord
        /\ sealed[t] # NoRecord => sealed[t] = decided[t]
    BY <1>0 DEF OnceInv, StoreInv, Aged, At
  <1>4. \A u \in Trigger : decided'[u] = IF u = t /\ decided[u] = NoRecord THEN c ELSE decided[u]
    BY <1>0 DEF SealWrites
  <1>5. /\ decided[t] = NoRecord => c = job[r][t].rec
        /\ decided[t] # NoRecord => c = decided[t]
    BY <1>2, <1>3 DEF Canon
  <1>6. \A u \in Trigger \ Silent : dlq'[u] <= 1
    BY DEF HookInv
  <1>7. ASSUME NEW q \in Runner, NEW u \in Trigger \ Silent
        PROVE  HookOk(q, u, job[q][u])'
    <2>0. HookOk(q, u, job[q][u]) /\ HookOk(r, u, job[r][u])
      BY DEF HookInv
    <2>1. CASE u # t
      BY <1>1, <1>4, <2>0, <2>1 DEF HookOk
    <2>2. CASE u = t /\ q = r
      <3>1. job'[q][u] = j
        BY <1>1, <2>2
      <3>2. ASSUME j.won
            PROVE  decided'[t] = ParkRecord(r, t) /\ dlq'[t] = 0
        <4>1. c = job[r][t].rec /\ job[r][t].parking
          BY <3>2
        <4>2. job[r][t].rec = ParkRecord(r, t) /\ decided[t] # ParkRecord(r, t)
          BY <2>0, <2>2, <4>1 DEF HookOk, At
        <4>3. decided[t] = NoRecord
          BY <1>5, <4>1, <4>2
        <4>4. ~(dlq[t] > 0)
          BY <1>0, <4>3 DEF DeadLetterIsParked
        <4>5. dlq[t] = 0
          BY <1>0, <4>4
        <4> QED BY <1>4, <4>1, <4>2, <4>3, <4>5
      <3> QED BY <2>2, <3>1, <3>2 DEF HookOk
    <2>3. CASE u = t /\ q # r
      <3>1. job'[q][u] = job[q][u]
        BY <1>1, <2>3
      <3>2. ASSUME job[q][u].won
            PROVE  decided'[t] = ParkRecord(q, t)
        <4>1. decided[t] = ParkRecord(q, t)
          BY <2>0, <2>3, <3>2 DEF HookOk
        <4>2. ParkRecord(q, t) # NoRecord
          BY RecordTypes, NoRecordAssumption
        <4> QED BY <1>4, <4>1, <4>2
      <3>3. ASSUME job[q][u].pc \in {"missed", "body", "seal"}
            PROVE  decided'[t] # ParkRecord(q, t)
        <4>1. CASE decided[t] # NoRecord
          BY <1>4, <2>0, <2>3, <3>3, <4>1 DEF HookOk
        <4>2. CASE decided[t] = NoRecord
          <5>1. decided'[t] = job[r][t].rec
            BY <1>4, <1>5, <4>2
          <5>2. \A i \in DOMAIN job[r][t].rec.outs : job[r][t].rec.outs[i].by = r
            BY <2>0, <2>3 DEF HookOk, At
          <5> QED BY <2>3, <5>1, <5>2, ParkStamped
        <4> QED BY <4>1, <4>2
      <3> QED BY <2>0, <2>3, <3>1, <3>2, <3>3 DEF HookOk
    <2> QED BY <2>1, <2>2, <2>3
  <1> QED BY <1>6, <1>7 DEF HookInv

\* The hook fires: the winner is the only one, and it is the last time.
LEMMA HookFires ==
    ASSUME HookInv, DeadLetterInv', NEW r \in Runner, NEW t \in Trigger,
           NEW j, Becomes(r, t, j), FireDlq(r, t), UNCHANGED decided,
           j.pc \in {"gate", "acked"}, ~j.won, ~j.parking
    PROVE  HookInv'
  <1>0. OnceInv /\ TypeInv /\ dlq \in [Trigger -> Nat]
    BY DEF HookInv, DeadLetterInv, OnceInv, TypeInv, TypeOK
  <1>1. \A q \in Runner, u \in Trigger :
           job'[q][u] = IF q = r /\ u = t THEN j ELSE job[q][u]
    BY <1>0, JobAt
  <1>2. \A u \in Trigger : u # t => dlq'[u] = dlq[u]
    BY <1>0 DEF FireDlq
  <1>3. CASE job[r][t].won /\ t \notin Silent
    <2>1. HookOk(r, t, job[r][t])
      BY <1>3 DEF HookInv
    <2>2. decided[t] = ParkRecord(r, t) /\ dlq[t] = 0
      BY <1>3, <2>1 DEF HookOk
    <2>3. dlq'[t] <= 1
      BY <1>0, <2>2 DEF FireDlq
    <2>4. ASSUME NEW q \in Runner, q # r PROVE ~job[q][t].won
      <3> SUFFICES ASSUME job[q][t].won PROVE FALSE
        OBVIOUS
      <3>1. HookOk(q, t, job[q][t])
        BY <1>3 DEF HookInv
      <3>2. ParkRecord(q, t) = ParkRecord(r, t)
        BY <2>2, <3>1 DEF HookOk
      <3> QED BY <1>3, <2>4, <3>2, ParkStamped
    <2>5. \A u \in Trigger \ Silent : dlq'[u] <= 1
      BY <1>2, <2>3 DEF HookInv
    <2>6. ASSUME NEW q \in Runner, NEW u \in Trigger \ Silent
          PROVE  HookOk(q, u, job[q][u])'
      <3>0. HookOk(q, u, job[q][u])
        BY DEF HookInv
      <3>1. CASE u # t
        BY <1>1, <1>2, <3>0, <3>1 DEF HookOk
      <3>2. CASE u = t /\ q = r
        BY <1>1, <3>2 DEF HookOk
      <3>3. CASE u = t /\ q # r
        BY <1>1, <2>4, <3>0, <3>3 DEF HookOk
      <3> QED BY <3>1, <3>2, <3>3
    <2> QED BY <2>5, <2>6 DEF HookInv
  <1>4. CASE ~(job[r][t].won /\ t \notin Silent)
    <2>1. \A u \in Trigger \ Silent : dlq'[u] = dlq[u]
      BY <1>0, <1>2, <1>4 DEF FireDlq
    <2>2. \A u \in Trigger \ Silent : dlq'[u] <= 1
      BY <2>1 DEF HookInv
    <2>3. ASSUME NEW q \in Runner, NEW u \in Trigger \ Silent
          PROVE  HookOk(q, u, job[q][u])'
      BY <1>1, <2>1 DEF HookInv, HookOk
    <2> QED BY <2>2, <2>3 DEF HookInv
  <1> QED BY <1>3, <1>4

\* What a worker does keeps HookInv.
LEMMA HookWork ==
    ASSUME HookInv, DeadLetterInv', NEW r \in Runner, NEW t \in Trigger, Work(r, t)
    PROVE  HookInv'
  <1>0. /\ OnceInv /\ TypeInv /\ job[r][t] \in Job
        /\ t \notin Silent => HookOk(r, t, job[r][t])
    BY DEF HookInv, DeadLetterInv, OnceInv, TypeInv, TypeOK
  <1>q. ASSUME NEW j, Becomes(r, t, j), UNCHANGED <<decided, dlq>>,
               t \notin Silent => HookOk(r, t, j)
        PROVE  HookInv'
    <2>1. CASE t \notin Silent
      BY <1>q, <2>1, HookQuiet
    <2>2. CASE t \in Silent
      BY <1>q, <2>2, HookSilent
    <2> QED BY <2>1, <2>2
  <1>f. ASSUME NEW j, Becomes(r, t, j), UNCHANGED <<decided, dlq>>,
               j.pc \in {"gate", "acked"}, ~j.won, ~j.parking
        PROVE  HookInv'
    BY <1>f, <1>q DEF HookOk
  <1>p. ASSUME Park(r, t), At(r, t, "body"), UNCHANGED <<decided, dlq>>
        PROVE  HookInv'
    <2> DEFINE j == [job[r][t] EXCEPT !.pc = "seal", !.parking = TRUE,
                                      !.rec = ParkRecord(r, t)]
    <2>1. j.pc = "seal" /\ j.won = job[r][t].won /\ j.rec = ParkRecord(r, t)
      BY <1>0 DEF Job
    <2>2. Becomes(r, t, j)
      BY <1>p DEF Park
    <2> HIDE DEF j
    <2>3. t \notin Silent => HookOk(r, t, j)
      BY <1>0, <1>p, <2>1, ParkStamped DEF HookOk, At
    <2> QED BY <1>p, <1>q, <2>2, <2>3
  <1>r. ASSUME NEW f, NEW w, Becomes(r, t, [FreshJob("gate") EXCEPT !.fenced = f, !.waited = w]),
               UNCHANGED <<decided, dlq>>
        PROVE  HookInv'
    <2> DEFINE j == [FreshJob("gate") EXCEPT !.fenced = f, !.waited = w]
    <2>1. j.pc = "gate" /\ ~j.won /\ ~j.parking
      BY DEF FreshJob
    <2>2. Becomes(r, t, j)
      BY <1>r
    <2> HIDE DEF j
    <2> QED BY <1>f, <1>r, <2>1, <2>2
  <1>a. FreshJob("acked").pc = "acked" /\ ~FreshJob("acked").won /\ ~FreshJob("acked").parking
    BY DEF FreshJob
  <1>1. CASE Dequeue(r, t)
    <2> DEFINE j == [FreshJob("gate") EXCEPT !.fenced = fence[r] /\ t \in Doomed]
    <2>1. j.pc = "gate" /\ ~j.won /\ ~j.parking
      BY DEF FreshJob
    <2>2. Becomes(r, t, j)
      BY <1>1 DEF Dequeue
    <2> HIDE DEF j
    <2> QED BY <1>1, <1>f, <2>1, <2>2 DEF Dequeue, ghost
  <1>2. CASE Replay(r, t)
    <2> DEFINE j == [job[r][t] EXCEPT !.pc = "append", !.rec = sealed[t], !.seq = 0]
    <2>1. j.pc = "append" /\ j.won = job[r][t].won
      BY <1>0 DEF Job
    <2>2. Becomes(r, t, j)
      BY <1>2 DEF Replay
    <2> HIDE DEF j
    <2>3. t \notin Silent => HookOk(r, t, j)
      BY <1>0, <1>2, <2>1 DEF HookOk, Replay, At
    <2> QED BY <1>2, <1>q, <2>2, <2>3 DEF Replay, ghost
  <1>3. CASE FenceAck(r, t) \/ BodyElides(r, t) \/ Complete(r, t)
    BY <1>3, <1>a, <1>f DEF FenceAck, BodyElides, Complete, ghost
  <1>4. CASE BeginAttempt(r, t)
    <2> DEFINE j == [job[r][t] EXCEPT !.pc = "body", !.seq = OneMore(attempts[t])]
    <2>1. j.pc = "body" /\ j.won = job[r][t].won /\ j.parking = job[r][t].parking
      BY <1>0 DEF Job
    <2>2. Becomes(r, t, j)
      BY <1>4 DEF BeginAttempt
    <2> HIDE DEF j
    <2>3. t \notin Silent => HookOk(r, t, j)
      BY <1>0, <1>4, <2>1 DEF HookOk, BeginAttempt, At
    <2> QED BY <1>4, <1>q, <2>2, <2>3 DEF BeginAttempt, ghost
  <1>17. CASE LookupMiss(r, t)
    <2> DEFINE j == [job[r][t] EXCEPT !.pc = "missed"]
    <2>1. j.pc = "missed" /\ j.won = job[r][t].won /\ j.parking = job[r][t].parking
      BY <1>0 DEF Job
    <2>2. Becomes(r, t, j)
      BY <1>17 DEF LookupMiss
    <2>3. decided[t] = NoRecord
      BY <1>0, <1>17 DEF LookupMiss, OnceInv, StoreInv, Aged, At
    <2>4. ParkRecord(r, t) # NoRecord
      BY RecordTypes, NoRecordAssumption
    <2> HIDE DEF j
    <2>5. t \notin Silent => HookOk(r, t, j)
      BY <1>0, <1>17, <2>1, <2>3, <2>4 DEF HookOk, LookupMiss, At
    <2> QED BY <1>17, <1>q, <2>2, <2>5 DEF LookupMiss, durable, ghost
  <1>5. CASE BodyDecides(r, t)
    <2>1. PICK b : Becomes(r, t, [job[r][t] EXCEPT !.pc = "seal",
                                !.rec = [outs |-> Stamp(r, b), parked |-> FALSE]])
      BY <1>5 DEF BodyDecides
    <2> DEFINE o == Stamp(r, b)
               j == [job[r][t] EXCEPT !.pc = "seal", !.rec = [outs |-> o, parked |-> FALSE]]
    <2>2. \A i \in DOMAIN o : o[i].by = r
      BY DEF Stamp
    <2>3. Becomes(r, t, j)
      BY <2>1
    <2> HIDE DEF o
    <2>4. /\ j.pc = "seal" /\ j.won = job[r][t].won /\ j.parking = job[r][t].parking
          /\ j.rec.outs = o
      BY <1>0 DEF Job
    <2> HIDE DEF j
    <2>5. t \notin Silent => HookOk(r, t, j)
      BY <1>0, <1>5, <2>2, <2>4 DEF HookOk, BodyDecides, At
    <2> QED BY <1>5, <1>q, <2>3, <2>5 DEF BodyDecides, ghost
  <1>6. CASE BodyRejected(r, t) \/ BodyPoison(r, t)
    BY <1>6, <1>p DEF BodyRejected, BodyPoison, ghost
  <1>7. CASE BodyFails(r, t)
    BY <1>7, <1>p, <1>r DEF BodyFails, Retry, ghost
  <1>8. CASE BodyTransient(r, t)
    BY <1>8, <1>p, <1>r DEF BodyTransient, ghost
  <1>9. CASE Seal(r, t)
    <2> DEFINE c == Canon(t, job[r][t].rec)
               w == job[r][t].parking /\ Canon(t, job[r][t].rec) = job[r][t].rec
               j == [job[r][t] EXCEPT !.pc = "append", !.rec = c, !.won = w]
    <2>1. Becomes(r, t, j)
      BY <1>9 DEF Seal
    <2>2. j.pc = "append" /\ j.won = w
      BY <1>0 DEF Job
    <2>3. w => job[r][t].parking /\ Canon(t, job[r][t].rec) = job[r][t].rec
      OBVIOUS
    <2> HIDE DEF j
    <2> QED BY <1>9, <2>1, <2>2, <2>3, HookSeal DEF Seal
  <1>10. CASE AppendRow(r, t)
    <2> DEFINE j == [job[r][t] EXCEPT !.next = @ + 1]
    <2>1. Becomes(r, t, j)
      BY <1>10 DEF AppendRow
    <2>2. j.pc = "append" /\ j.won = job[r][t].won
      BY <1>10, <1>0 DEF Job, AppendRow, At
    <2> HIDE DEF j
    <2>3. t \notin Silent => HookOk(r, t, j)
      BY <1>0, <2>2 DEF HookOk
    <2> QED BY <1>10, <1>q, <2>1, <2>3 DEF AppendRow, ghost
  <1>11. CASE Diverge(r, t)
    BY <1>0, <1>11, NoDivergence DEF Diverge
  <1>12. CASE Reseal(r, t)
    BY <1>0, <1>12 DEF Reseal, OnceInv, AppendInv, AppendOk, At
  <1>13. CASE CompletePark(r, t)
    BY <1>13, <1>a, HookFires DEF CompletePark, ghost
  <1> QED
    BY <1>1, <1>2, <1>3, <1>4, <1>5, <1>6, <1>7, <1>8, <1>9, <1>10, <1>11, <1>12, <1>13, <1>17
    DEF Work

\* So does an infrastructure error, also the one that makes a park run again
\* after its hook has fired.
LEMMA HookInfra ==
    ASSUME HookInv, DeadLetterInv', NEW r \in Runner, NEW t \in Trigger, Infra(r, t)
    PROVE  HookInv'
  <1> DEFINE j == [FreshJob("gate") EXCEPT !.fenced = job[r][t].fenced,
                                           !.waited = job[r][t].waited]
  <1>0. OnceInv
    BY DEF HookInv, DeadLetterInv
  <1>1. Retry(r, t)
    BY DEF Infra, IoError, CounterReplyLost, SealReplyLost, AppendReplyLost, ParkClearError
  <1>2. Becomes(r, t, j)
    BY <1>1 DEF Retry
  <1>3. j.pc = "gate" /\ ~j.won /\ ~j.parking
    BY DEF FreshJob
  <1> HIDE DEF j
  <1>4. CASE IoError(r, t) \/ CounterReplyLost(r, t) \/ AppendReplyLost(r, t)
    <2>1. UNCHANGED <<decided, dlq>>
      BY <1>4 DEF IoError, CounterReplyLost, AppendReplyLost, ghost
    <2>2. HookOk(r, t, j)
      BY <1>3 DEF HookOk
    <2>3. CASE t \notin Silent
      BY <1>2, <2>1, <2>2, <2>3, HookQuiet
    <2>4. CASE t \in Silent
      BY <1>2, <2>1, <2>4, HookSilent
    <2> QED BY <2>3, <2>4
  <1>5. CASE SealReplyLost(r, t)
    <2>1. At(r, t, "seal")
      BY <1>0, <1>5 DEF SealReplyLost, OnceInv, AppendInv, AppendOk, At
    <2>2. SealWrites(t, job[r][t].rec) /\ UNCHANGED dlq
      BY <1>5 DEF SealReplyLost
    <2> QED BY <1>2, <1>3, <2>1, <2>2, HookSeal
  <1>6. CASE ParkClearError(r, t)
    <2>1. FireDlq(r, t) /\ UNCHANGED decided
      BY <1>6 DEF ParkClearError, ghost
    <2> QED BY <1>2, <1>3, <2>1, HookFires
  <1> QED BY <1>4, <1>5, <1>6 DEF Infra

LEMMA HookStep == MaxRewinds = 0 /\ HookInv /\ [Next]_vars => HookInv'
  <1> SUFFICES ASSUME MaxRewinds = 0, HookInv, [Next]_vars PROVE HookInv'
    OBVIOUS
  <1>0. DeadLetterInv' /\ TypeOK
    BY DeadLetterStep DEF HookInv, DeadLetterInv, OnceInv, TypeInv
  <1>1. CASE \E r \in Runner, t \in Trigger : Work(r, t) \/ Infra(r, t)
    BY <1>0, <1>1, HookWork, HookInfra
  <1>2. CASE \/ \E r \in Runner : Start(r) \/ Persist(r) \/ Crash(r) \/ LearnCancel(r)
             \/ \E t \in Trigger : Sweep(t)
             \/ Cancel \/ Rewind \/ UNCHANGED vars
    <2>1. UNCHANGED <<decided, dlq>>
      BY <1>2 DEF Start, Persist, Crash, LearnCancel, Sweep, Cancel, Rewind, vars, ghost
    <2>2. ASSUME NEW q \in Runner, NEW u \in Trigger
          PROVE  \/ job'[q][u] = job[q][u]
                 \/ job'[q][u].pc \in {"passed", "queued", "down"} /\ ~job'[q][u].won
      <3>1. ASSUME NEW r \in Runner, Start(r) \/ Crash(r)
            PROVE  \/ job'[q][u] = job[q][u]
                   \/ job'[q][u].pc \in {"passed", "queued", "down"} /\ ~job'[q][u].won
        <4>1. PICK p \in {"passed", "queued", "down"} :
                 job'[q][u] = FreshJob(p) \/ job'[q][u] = job[q][u]
          BY <1>0, <3>1 DEF Start, Crash, TypeOK
        <4> QED BY <4>1 DEF FreshJob
      <3>2. CASE \/ \E r \in Runner : Persist(r) \/ LearnCancel(r)
                 \/ \E v \in Trigger : Sweep(v)
                 \/ Cancel \/ Rewind \/ UNCHANGED vars
        BY <3>2 DEF Persist, LearnCancel, Sweep, Cancel, Rewind, vars
      <3> QED BY <1>2, <3>1, <3>2
    <2>3. ASSUME NEW q \in Runner, NEW u \in Trigger \ Silent
          PROVE  HookOk(q, u, job[q][u])'
      BY <2>1, <2>2 DEF HookInv, HookOk
    <2> QED BY <1>0, <2>1, <2>3 DEF HookInv
  <1> QED BY <1>1, <1>2 DEF Next

\* The dead-letter hook fires at most once for a trigger whose park appends a
\* fact, whatever executions park it, crash or retry the park: only the one whose
\* own record is the canonical one fires it, and that one never parks again
\* (park_terminal_failure's won && final_parked).
THEOREM HookFiresOnce ==
    MaxRewinds = 0 => (Spec => [](\A t \in Trigger \ Silent : dlq[t] <= 1))
  <1> SUFFICES ASSUME MaxRewinds = 0
               PROVE  Spec => [](\A t \in Trigger \ Silent : dlq[t] <= 1)
    OBVIOUS
  <1>1. Init => HookInv
    <2> SUFFICES ASSUME Init PROVE HookInv
      OBVIOUS
    <2>1. \A t \in Trigger : dlq[t] = 0
      BY DEF Init
    <2>2. \A r \in Runner, t \in Trigger : job[r][t].pc = "down" /\ ~job[r][t].won
      BY DEF Init, FreshJob
    <2> QED BY <2>1, <2>2, DeadLetterInit DEF HookInv, HookOk
  <1>2. HookInv /\ [Next]_vars => HookInv'
    BY HookStep
  <1>3. HookInv => \A t \in Trigger \ Silent : dlq[t] <= 1
    BY DEF HookInv
  <1> QED
    BY <1>1, <1>2, <1>3, PTL DEF Spec

\* So when every park appends a fact, the hook never fires twice.
THEOREM DeadLettersOnce == MaxRewinds = 0 /\ Silent = {} => (Spec => []DlqAtMostOnce)
  <1> SUFFICES ASSUME MaxRewinds = 0, Silent = {} PROVE Spec => []DlqAtMostOnce
    OBVIOUS
  <1>1. (\A t \in Trigger \ Silent : dlq[t] <= 1) => DlqAtMostOnce
    BY DEF DlqAtMostOnce
  <1> QED
    BY <1>1, HookFiresOnce, PTL

-----------------------------------------------------------------------------
(* ReactorDecision implements DecideOnce: under the refinement mapping       *)
(* Once, every step of a runner, a crash, a sweep or a cancel is a step of   *)
(* the abstract specification or leaves it alone.                            *)

AbstractVars == <<logged, checkpoint, cancelled, decided, preCancel>>

\* A seal decides the trigger, or finds the decision.
LEMMA SealRefines ==
    ASSUME OnceInv, NEW r \in Runner, NEW t \in Trigger,
           job[r][t].pc \in {"seal", "reseal"}, SealWrites(t, job[r][t].rec),
           UNCHANGED <<logged, checkpoint, cancelled>>
    PROVE  Once!Decide(t) \/ UNCHANGED AbstractVars
  <1> DEFINE c == Canon(t, job[r][t].rec)
  <1>1. TypeInv /\ TypeOK
    BY DEF OnceInv, TypeInv
  <1>2. c \in Record
    BY <1>1, SealTypes DEF TypeInv, HasRecord
  <1>3. decided' = [decided EXCEPT ![t] = IF @ = NoRecord THEN c ELSE @]
    BY DEF SealWrites
  <1>4. preCancel' = preCancel \cup {x \in {t} : decided[x] = NoRecord /\ ~cancelled}
    BY DEF SealWrites
  <1> HIDE DEF c
  <1>5. CASE decided[t] = NoRecord
    <2>1. decided' = [decided EXCEPT ![t] = c] /\ decided'[t] = c
      BY <1>1, <1>3, <1>5 DEF TypeOK
    <2>2. preCancel' = IF cancelled THEN preCancel ELSE preCancel \cup {t}
      BY <1>4, <1>5
    <2> QED BY <1>2, <1>5, <2>1, <2>2 DEF Once!Decide
  <1>6. CASE decided[t] # NoRecord
    <2>1. decided' = decided
      BY <1>1, <1>3, <1>6 DEF TypeOK
    <2>2. preCancel' = preCancel
      BY <1>4, <1>6
    <2> QED BY <2>1, <2>2 DEF AbstractVars
  <1> QED BY <1>5, <1>6

\* An append shows the next row, or finds it.
LEMMA AppendRefines ==
    ASSUME OnceInv, NEW r \in Runner, NEW t \in Trigger,
           At(r, t, "append"), job[r][t].next <= Len(job[r][t].rec.outs),
           logged' = [logged EXCEPT ![t] = @ \cup {Pending(r, t)}],
           UNCHANGED <<checkpoint, cancelled, decided, preCancel>>
    PROVE  Once!Show(t) \/ UNCHANGED AbstractVars
  <1>1. /\ decided[t] # NoRecord
        /\ \/ logged' = logged
           \/ \E n \in 1 .. Len(decided[t].outs) :
                 /\ logged[t] = FirstRows(decided[t], n - 1)
                 /\ logged' = [logged EXCEPT ![t] = FirstRows(decided[t], n)]
    BY AppendShows
  <1> QED BY <1>1 DEF Once!Show, Once!FirstRows, FirstRows, AbstractVars

\* The checkpoint moves over whole decisions only.
LEMMA PersistRefines ==
    ASSUME CursorInv, CursorInv', NEW r \in Runner, Persist(r)
    PROVE  Once!Retire
  <1>1. TypeOK /\ TypeOK' /\ PastInv /\ PastInv' /\ PromiseInv
    BY DEF CursorInv, OnceInv, TypeInv
  <1>2. UNCHANGED <<logged, decided, cancelled, preCancel>>
    BY DEF Persist, ghost
  <1>3. PICK n \in Trigger : n > checkpoint /\ checkpoint' = n
    BY DEF Persist
  <1>4. checkpoint' \in checkpoint + 1 .. NTriggers
    BY <1>1, <1>3, ConstantsAssumption DEF TypeOK, Trigger
  <1>5. ASSUME NEW t \in 1 .. checkpoint', t \in preCancel
        PROVE  Once!Shown(t)
    <2>1. t \in Trigger /\ t <= checkpoint'
      BY <1>1, <1>3, <1>5, ConstantsAssumption DEF TypeOK, Trigger
    <2>2. Whole(t)
      BY <1>1, <1>2, <1>5, <2>1 DEF PastInv, Past, Whole
    <2>3. decided[t] # NoRecord
      BY <1>1, <1>5 DEF PromiseInv
    <2>4. DOMAIN decided[t].outs = 1 .. Len(decided[t].outs)
      BY <1>1, <2>1, <2>3, DecidedFacts
    <2> QED BY <2>2, <2>3, <2>4 DEF Once!Shown, Once!FirstRows, Whole, Rows
  <1> QED BY <1>2, <1>4, <1>5 DEF Once!Retire

LEMMA StepRefines ==
    ASSUME CursorInv, CursorInv', MaxRewinds = 0, [Next]_vars
    PROVE  Once!Next \/ UNCHANGED AbstractVars
  <1>i. OnceInv /\ TypeInv /\ TypeOK
    BY DEF CursorInv, OnceInv, TypeInv
  <1>1. ASSUME NEW r \in Runner, NEW t \in Trigger, Work(r, t) \/ Infra(r, t)
        PROVE  Once!Decide(t) \/ Once!Show(t) \/ UNCHANGED AbstractVars
    <2>1. CASE Seal(r, t) \/ Reseal(r, t) \/ SealReplyLost(r, t)
      <3>1. /\ job[r][t].pc \in {"seal", "reseal"} /\ SealWrites(t, job[r][t].rec)
            /\ UNCHANGED <<logged, checkpoint, cancelled>>
        BY <2>1 DEF Seal, Reseal, SealReplyLost, Fault, At
      <3> QED BY <1>i, <3>1, SealRefines
    <2>2. CASE AppendRow(r, t) \/ AppendReplyLost(r, t)
      <3>1. /\ At(r, t, "append") /\ job[r][t].next <= Len(job[r][t].rec.outs)
            /\ logged' = [logged EXCEPT ![t] = @ \cup {Pending(r, t)}]
            /\ UNCHANGED <<checkpoint, cancelled, decided, preCancel>>
        BY <2>2 DEF AppendRow, AppendReplyLost, Fault, ghost
      <3> QED BY <1>i, <3>1, AppendRefines
    <2>3. CASE ~(Seal(r, t) \/ Reseal(r, t) \/ SealReplyLost(r, t)
                 \/ AppendRow(r, t) \/ AppendReplyLost(r, t))
      BY <1>1, <2>3 DEF Work, Dequeue, Replay, FenceAck, LookupMiss, BeginAttempt, BodyDecides, BodyElides,
           BodyRejected, BodyPoison, BodyFails, BodyTransient, Diverge, Complete, CompletePark,
           Infra, IoError, CounterReplyLost, ParkClearError, Fault, durable, ghost, AbstractVars
    <2> QED BY <2>1, <2>2, <2>3
  <1>2. CASE \E r \in Runner, t \in Trigger : Work(r, t) \/ Infra(r, t)
    BY <1>1, <1>2 DEF Once!Next, Trigger
  <1>3. CASE \E r \in Runner : Persist(r)
    BY <1>3, PersistRefines DEF Once!Next
  <1>4. CASE Cancel
    BY <1>4 DEF Cancel, ghost, Once!Next, Once!Withdraw
  <1>5. CASE \/ \E r \in Runner : Start(r) \/ Crash(r) \/ LearnCancel(r)
             \/ \E t \in Trigger : Sweep(t)
             \/ UNCHANGED vars
    BY <1>5 DEF Start, Crash, LearnCancel, Sweep, vars, durable, ghost, AbstractVars
  <1>6. CASE Rewind
    BY <1>6, <1>i DEF Rewind, TypeOK
  <1> QED BY <1>2, <1>3, <1>4, <1>5, <1>6 DEF Next

\* Unless the checkpoint is restored from a backup, overlapping executions that
\* crash, retry, lose replies and are swept behave as if each trigger were
\* decided once and its batch appended once, in order, before the cursor moved
\* on (the contract at the head of decision_store.rs).
THEOREM Refines == MaxRewinds = 0 /\ SealEmpty => (Spec => ImplementsDecideOnce)
  <1> SUFFICES ASSUME MaxRewinds = 0, SealEmpty PROVE Spec => Once!Spec
    BY DEF ImplementsDecideOnce
  <1>1. Init => Once!Init
    BY DEF Init, Once!Init, Trigger
  <1>2. CursorInv /\ [Next]_vars => CursorInv'
    BY CursorStep
  <1>3. CursorInv /\ CursorInv' /\ [Next]_vars => [Once!Next]_(Once!vars)
    BY StepRefines DEF AbstractVars, Once!vars
  <1> QED
    BY <1>1, <1>2, <1>3, CursorInit, PTL DEF Spec, Once!Spec

-----------------------------------------------------------------------------
(***************************************************************************)
(* Reconciliation with the log's row at hand.  Nothing here needs a single *)
(* decision: it holds through restored checkpoints and redecided triggers. *)
(* A job that writes starts from the first output, and what it has behind  *)
(* it is in the log, because a diverging record is amended and appended    *)
(* again from its start.                                                   *)
(***************************************************************************)
Recognised(j, rows) ==
    /\ j.pc \in {"gate", "missed", "body", "seal"} => j.next = 1
    /\ j.pc = "append" =>
          \A i \in DOMAIN j.rec.outs : i < j.next => j.rec.outs[i] \in rows

TruthInv == TypeInv /\ \A r \in Runner, t \in Trigger : Recognised(job[r][t], logged[t])

\* Nothing is behind a job that starts at its first output.
LEMMA StartsRecognised ==
    ASSUME NEW j, j.next = 1, j.pc = "append" => j.rec \in Record, NEW rows
    PROVE  Recognised(j, rows)
  <1>1. ASSUME j.pc = "append" PROVE DOMAIN j.rec.outs = 1 .. Len(j.rec.outs)
    BY <1>1, LenProperties DEF Record
  <1> QED BY <1>1 DEF Recognised

LEMMA WorkRecognises ==
    ASSUME TruthInv, TypeInv', Canonical, Grows,
           NEW r \in Runner, NEW t \in Trigger, Work(r, t)
    PROVE  \E j : Becomes(r, t, j) /\ Recognised(j, logged'[t])
  <1>j. job[r][t] \in Job /\ Recognised(job[r][t], logged[t]) /\ TypeInv /\ TypeOK
    BY DEF TruthInv, TypeInv, TypeOK
  <1>f. ASSUME NEW j, Becomes(r, t, j), j.pc \in {"gate", "missed", "body", "seal", "append"} => j.next = 1
        PROVE  \E i : Becomes(r, t, i) /\ Recognised(i, logged'[t])
    <2>1. job'[r][t] = j
      BY <1>f, <1>j, JobAt
    <2>2. j.pc = "append" => j.rec \in Record
      BY <2>1 DEF TypeInv, HasRecord
    <2>3. Recognised(j, logged'[t])
      BY <1>f, <2>2, StartsRecognised DEF Recognised
    <2> QED BY <1>f, <2>3
  <1>p. ASSUME Park(r, t), At(r, t, "body")
        PROVE  \E i : Becomes(r, t, i) /\ Recognised(i, logged'[t])
    <2> DEFINE j == [job[r][t] EXCEPT !.pc = "seal", !.parking = TRUE,
                                      !.rec = ParkRecord(r, t)]
    <2>1. j.next = 1
      BY <1>j, <1>p DEF Job, Recognised, At
    <2>2. Becomes(r, t, j)
      BY <1>p DEF Park
    <2> HIDE DEF j
    <2> QED BY <1>f, <2>1, <2>2
  <1>g. ASSUME NEW f, NEW w, Becomes(r, t, [FreshJob("gate") EXCEPT !.fenced = f, !.waited = w])
        PROVE  \E i : Becomes(r, t, i) /\ Recognised(i, logged'[t])
    <2> DEFINE j == [FreshJob("gate") EXCEPT !.fenced = f, !.waited = w]
    <2>1. j.next = 1
      BY DEF FreshJob
    <2> HIDE DEF j
    <2>2. Becomes(r, t, j)
      BY <1>g DEF j
    <2> QED BY <1>f, <2>1, <2>2
  <1>a. ASSUME Becomes(r, t, FreshJob("acked"))
        PROVE  \E i : Becomes(r, t, i) /\ Recognised(i, logged'[t])
    <2>1. FreshJob("acked").next = 1
      BY DEF FreshJob
    <2> QED BY <1>a, <1>f, <2>1
  <1>1. CASE Dequeue(r, t)
    <2> DEFINE j == [FreshJob("gate") EXCEPT !.fenced = fence[r] /\ t \in Doomed]
    <2>1. j.next = 1
      BY DEF FreshJob
    <2>2. Becomes(r, t, j)
      BY <1>1 DEF Dequeue
    <2> HIDE DEF j
    <2> QED BY <1>f, <2>1, <2>2
  <1>2. CASE Replay(r, t)
    <2> DEFINE j == [job[r][t] EXCEPT !.pc = "append", !.rec = sealed[t], !.seq = 0]
    <2>1. j.next = 1
      BY <1>2, <1>j DEF Job, Recognised, Replay, At
    <2>2. Becomes(r, t, j)
      BY <1>2 DEF Replay
    <2> HIDE DEF j
    <2> QED BY <1>f, <2>1, <2>2
  <1>3. CASE FenceAck(r, t) \/ BodyElides(r, t) \/ Complete(r, t) \/ CompletePark(r, t)
    BY <1>3, <1>a DEF FenceAck, BodyElides, Complete, CompletePark
  <1>4. CASE BeginAttempt(r, t)
    <2> DEFINE j == [job[r][t] EXCEPT !.pc = "body", !.seq = OneMore(attempts[t])]
    <2>1. j.next = 1
      BY <1>4, <1>j DEF Job, Recognised, BeginAttempt, At
    <2>2. Becomes(r, t, j)
      BY <1>4 DEF BeginAttempt
    <2> HIDE DEF j
    <2> QED BY <1>f, <2>1, <2>2
  <1>17. CASE LookupMiss(r, t)
    <2> DEFINE j == [job[r][t] EXCEPT !.pc = "missed"]
    <2>1. j.next = 1
      BY <1>17, <1>j DEF Job, Recognised, LookupMiss, At
    <2>2. Becomes(r, t, j)
      BY <1>17 DEF LookupMiss
    <2> HIDE DEF j
    <2> QED BY <1>f, <2>1, <2>2
  <1>5. CASE BodyDecides(r, t)
    <2>1. PICK b : Becomes(r, t, [job[r][t] EXCEPT !.pc = "seal",
                                !.rec = [outs |-> Stamp(r, b), parked |-> FALSE]])
      BY <1>5 DEF BodyDecides
    <2> DEFINE j == [job[r][t] EXCEPT !.pc = "seal",
                                !.rec = [outs |-> Stamp(r, b), parked |-> FALSE]]
    <2>2. j.next = 1
      BY <1>5, <1>j DEF Job, Recognised, BodyDecides, At
    <2>3. Becomes(r, t, j)
      BY <2>1
    <2> HIDE DEF j
    <2> QED BY <1>f, <2>2, <2>3
  <1>6. CASE BodyRejected(r, t) \/ BodyPoison(r, t)
    BY <1>6, <1>p DEF BodyRejected, BodyPoison
  <1>7. CASE BodyFails(r, t)
    BY <1>7, <1>p, <1>g DEF BodyFails, Retry
  <1>8. CASE BodyTransient(r, t)
    BY <1>8, <1>p, <1>g DEF BodyTransient
  <1>9. CASE Seal(r, t)
    <2> DEFINE c == Canon(t, job[r][t].rec)
               w == job[r][t].parking /\ Canon(t, job[r][t].rec) = job[r][t].rec
               j == [job[r][t] EXCEPT !.pc = "append", !.rec = c, !.won = w]
    <2>1. Becomes(r, t, j)
      BY <1>9 DEF Seal
    <2> HIDE DEF c, w
    <2>2. j.next = 1
      BY <1>9, <1>j DEF Job, Recognised, Seal, At
    <2> HIDE DEF j
    <2> QED BY <1>f, <2>1, <2>2
  <1>10. CASE AppendRow(r, t)
    <2> DEFINE j == [job[r][t] EXCEPT !.next = @ + 1]
    <2>1. Becomes(r, t, j)
      BY <1>10 DEF AppendRow
    <2>2. /\ j.pc = "append" /\ j.rec = job[r][t].rec /\ j.next = job[r][t].next + 1
          /\ job[r][t].pc = "append" /\ job[r][t].next \in Nat \ {0}
      BY <1>10, <1>j DEF Job, AppendRow, At
    <2> HIDE DEF j
    <2>3. logged[t] \subseteq logged'[t] /\ Pending(r, t) \in logged'[t]
      BY <1>10, <1>j DEF AppendRow, TypeOK
    <2>4. job[r][t].rec \in Record /\ DOMAIN job[r][t].rec.outs = 1 .. Len(job[r][t].rec.outs)
      <3>1. job[r][t].rec \in Record
        BY <1>10, <1>j, PendingType DEF AppendRow
      <3> QED BY <3>1, LenProperties DEF Record
    <2>5. ASSUME NEW i \in DOMAIN job[r][t].rec.outs, i < job[r][t].next + 1
          PROVE  job[r][t].rec.outs[i] \in logged'[t]
      <3>1. CASE i = job[r][t].next
        BY <2>3, <3>1 DEF Pending
      <3>2. CASE i # job[r][t].next
        <4>1. i < job[r][t].next
          BY <2>2, <2>4, <2>5, <3>2
        <4> QED BY <1>j, <2>2, <2>3, <4>1 DEF Recognised
      <3> QED BY <3>1, <3>2
    <2>6. Recognised(j, logged'[t])
      BY <2>2, <2>5 DEF Recognised
    <2> QED BY <2>1, <2>6
  <1>11. CASE Diverge(r, t)
    <2>1. PICK x : Becomes(r, t, [job[r][t] EXCEPT
                        !.pc = "reseal",
                        !.rec = Amended(job[r][t].rec, job[r][t].next, x)])
      BY <1>11 DEF Diverge
    <2> DEFINE c == Amended(job[r][t].rec, job[r][t].next, x)
               j == [job[r][t] EXCEPT !.pc = "reseal", !.rec = c]
    <2>2. Becomes(r, t, j)
      BY <2>1
    <2> HIDE DEF c
    <2>3. j.pc = "reseal"
      BY <1>j DEF Job
    <2> HIDE DEF j
    <2> QED BY <1>f, <2>2, <2>3
  <1>12. CASE Reseal(r, t)
    <2> DEFINE c == Canon(t, job[r][t].rec)
               j == [job[r][t] EXCEPT !.pc = "append", !.rec = c, !.next = 1]
    <2>1. Becomes(r, t, j)
      BY <1>12 DEF Reseal
    <2> HIDE DEF c
    <2>2. j.next = 1
      BY <1>j DEF Job
    <2> HIDE DEF j
    <2> QED BY <1>f, <2>1, <2>2
  <1> QED
    BY <1>1, <1>2, <1>3, <1>4, <1>5, <1>6, <1>7, <1>8, <1>9, <1>10, <1>11, <1>12, <1>17
    DEF Work

LEMMA TruthStep == Canonical /\ TruthInv /\ [Next]_vars => TruthInv'
  <1> SUFFICES ASSUME Canonical, TruthInv, [Next]_vars PROVE TruthInv'
    OBVIOUS
  <1>1. TypeInv /\ TypeOK /\ TypeInv' /\ Grows
    BY TypeStep, StepGrows DEF TruthInv, TypeInv
  <1>2. \A q \in Runner, u \in Trigger : Recognised(job[q][u], logged'[u])
    BY <1>1 DEF TruthInv, Recognised, Grows
  <1>3. ASSUME NEW r \in Runner, NEW t \in Trigger, NEW j, Becomes(r, t, j),
               Recognised(j, logged'[t])
        PROVE  TruthInv'
    BY <1>1, <1>2, <1>3, JobAt DEF TruthInv
  <1>4. ASSUME NEW r \in Runner, NEW t \in Trigger, Work(r, t)
        PROVE  TruthInv'
    BY <1>1, <1>3, <1>4, WorkRecognises
  <1>5. ASSUME NEW r \in Runner, NEW t \in Trigger, Infra(r, t)
        PROVE  TruthInv'
    <2> DEFINE j == [FreshJob("gate") EXCEPT !.fenced = job[r][t].fenced,
                                             !.waited = job[r][t].waited]
    <2>1. Retry(r, t)
      BY <1>5 DEF Infra, IoError, CounterReplyLost, SealReplyLost, AppendReplyLost, ParkClearError
    <2>2. Becomes(r, t, j)
      BY <2>1 DEF Retry
    <2>3. j.pc = "gate" /\ j.next = 1
      BY DEF FreshJob
    <2> HIDE DEF j
    <2>4. Recognised(j, logged'[t])
      BY <2>3 DEF Recognised
    <2> QED BY <1>3, <2>2, <2>4
  <1>6. ASSUME NEW r \in Runner, Start(r) \/ Crash(r)
        PROVE  TruthInv'
    <2>1. ASSUME NEW q \in Runner, NEW u \in Trigger
          PROVE  Recognised(job'[q][u], logged'[u])
      <3>1. PICK p \in {"passed", "queued", "down"} :
               job'[q][u] = FreshJob(p) \/ job'[q][u] = job[q][u]
        BY <1>1, <1>6 DEF Start, Crash, TypeOK
      <3>2. FreshJob(p).pc = p
        BY DEF FreshJob
      <3>3. Recognised(FreshJob(p), logged'[u])
        BY <3>2 DEF Recognised
      <3> QED BY <1>2, <3>1, <3>3
    <2> QED BY <1>1, <2>1 DEF TruthInv
  <1>7. CASE \/ \E r \in Runner : Persist(r) \/ LearnCancel(r)
             \/ \E u \in Trigger : Sweep(u)
             \/ Cancel \/ Rewind \/ UNCHANGED vars
    <2>1. UNCHANGED job
      BY <1>7 DEF Persist, LearnCancel, Sweep, Cancel, Rewind, vars
    <2> QED BY <1>1, <1>2, <2>1 DEF TruthInv
  <1> QED BY <1>4, <1>5, <1>6, <1>7 DEF Next

\* No lying record: when the backend attaches the log's row to a divergence,
\* whatever an execution has finished appending is in the log as it stands in
\* its record, also after the checkpoint was restored from a backup and triggers
\* were decided again (append_decision's reconciliation).
THEOREM RecordsTellTheTruth == Canonical => (Spec => []NoLyingRecord)
  <1> SUFFICES ASSUME Canonical PROVE Spec => []NoLyingRecord
    OBVIOUS
  <1>1. Init => TruthInv
    <2> SUFFICES ASSUME Init PROVE TruthInv
      OBVIOUS
    <2>1. \A r \in Runner, t \in Trigger : job[r][t].pc = "down"
      BY DEF Init, FreshJob
    <2> QED BY <2>1, TypeInit DEF TruthInv, Recognised
  <1>2. TruthInv /\ [Next]_vars => TruthInv'
    BY TruthStep
  <1>3. TruthInv => NoLyingRecord
    <2> SUFFICES ASSUME TruthInv, NEW r \in Runner, NEW t \in Trigger, Appended(r, t)
                 PROVE  Rows(job[r][t].rec) \subseteq logged[t]
      BY DEF NoLyingRecord
    <2>1. job[r][t] \in Job /\ job[r][t].rec \in Record /\ job[r][t].pc = "append"
      BY DEF TruthInv, TypeInv, TypeOK, HasRecord, Appended, At
    <2>2. /\ DOMAIN job[r][t].rec.outs = 1 .. Len(job[r][t].rec.outs)
          /\ Len(job[r][t].rec.outs) \in Nat
      BY <2>1, LenProperties DEF Record
    <2>3. job[r][t].next \in Nat /\ job[r][t].next > Len(job[r][t].rec.outs)
      BY <2>1 DEF Job, Appended
    <2>4. \A i \in DOMAIN job[r][t].rec.outs : i < job[r][t].next
      BY <2>2, <2>3
    <2>5. Recognised(job[r][t], logged[t])
      BY DEF TruthInv
    <2>6. \A i \in DOMAIN job[r][t].rec.outs : job[r][t].rec.outs[i] \in logged[t]
      BY <2>1, <2>4, <2>5 DEF Recognised
    <2> QED BY <2>6 DEF Rows
  <1> QED
    BY <1>1, <1>2, <1>3, PTL DEF Spec
=============================================================================
