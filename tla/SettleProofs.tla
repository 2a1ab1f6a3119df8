--------------------------- MODULE SettleProofs ---------------------------
(***************************************************************************)
(* For every topology of reactors and projectors, every order in which a   *)
(* settle asks them, and every window: a caller that has settled sees its  *)
(* whole causal chain handled, and no bump evicts the mark of a workflow   *)
(* somebody is settling.                                                   *)
(***************************************************************************)
EXTENDS Settle, FiniteSetTheorems, WellFoundedInduction, TLAPS

\* Every workflow is written to by one caller (README, section 5: an older mark
\* is taken as it is, and pins are not counted).
OneEach == \A c, d \in Caller : Wf(c) = Wf(d) => c = d

\* The table never fills up: SETTLE_TRACKER_CAP is not reached.
Roomy == IsFiniteSet(Workflow) /\ Cardinality(Workflow) <= Cap

-----------------------------------------------------------------------------
(* The invariant.                                                           *)

\* A caller's fact is in the log, and every row is of one caller's chain.
RowsOK ==
    /\ \A c \in Caller : call[c].pc # "idle" =>
          call[c].pos \in DOMAIN log /\ log[call[c].pos].wf = Wf(c)
    /\ \A p \in DOMAIN log :
          /\ log[p].root <= p
          /\ \E c \in Caller :
                call[c].pc # "idle" /\ call[c].pos = log[p].root /\ Wf(c) = log[p].wf

\* Where a reactor is with a trigger, and what its output is.
JobOK(r, p) ==
    /\ job[r][p].pc # "none" => p <= scanned[r]
    /\ job[r][p].pc \in {"appended", "bumped"} => job[r][p].out # 0
    /\ job[r][p].out # 0 =>
          /\ job[r][p].pc \in {"appended", "bumped", "done"}
          /\ job[r][p].out \in DOMAIN log /\ p < job[r][p].out
          /\ log[job[r][p].out].wf = log[p].wf

JobsOK ==
    /\ \A k \in Consumer : scanned[k] <= Len(log)
    /\ \A r \in Reactor, p \in Position : JobOK(r, p)
    /\ \A q \in DOMAIN log : q # log[q].root =>
          \E r \in Reactor, p \in Position : job[r][p].out = q

\* The mark of a workflow is at or above its caller's fact and every output whose
\* mark was raised, until the caller forgets it.
Forgotten(c) == call[c].pc \in {"unpin", "settled"}

MarksOK ==
    \A c \in Caller :
        /\ mark[Wf(c)] # 0 => call[c].pc # "idle" /\ call[c].pos <= mark[Wf(c)]
        /\ \A r \in Reactor, p \in DOMAIN log :
              /\ job[r][p].pc \in {"bumped", "done"} /\ log[p].wf = Wf(c)
              /\ ~Forgotten(c)
              => job[r][p].out <= mark[Wf(c)]

\* A consumer that was found drained stays so for what the caller asked for.
Passed(c, k) ==
    /\ call[c].hw <= scanned[k]
    /\ k \in Reactor => \A p \in Open(k) : p <= call[c].hw => log[p].wf # Wf(c)

\* What a caller knows at each point.
CallOK(c) ==
    /\ call[c].pc \in {"wait", "probe", "recheck"} =>
          call[c].pos <= call[c].hw /\ call[c].at \in DOMAIN Order
    /\ call[c].pc \in {"wait", "probe"} =>
          \A i \in DOMAIN Order : i < call[c].at => Passed(c, Order[i])
    /\ call[c].pc = "recheck" => \A k \in Consumer : Passed(c, k)
    /\ call[c].pc \in {"forget", "unpin", "settled"} =>
          \A p \in DOMAIN log : log[p].wf = Wf(c) =>
              \A k \in Consumer : Observed(k, p)

IInv ==
    /\ TypeOK
    /\ RowsOK
    /\ JobsOK
    /\ MarksOK
    /\ \A c \in Caller : CallOK(c)

\* Whoever waits on a workflow has pinned it.
PinInv ==
    /\ DOMAIN call = Caller /\ DOMAIN mark = Workflow
    /\ \A c \in Caller :
          call[c].pc \in {"read", "wait", "probe", "recheck", "forget", "unpin"} =>
              Wf(c) \in pinned

-----------------------------------------------------------------------------
(* Types, and what a step does to the jobs and the callers.                 *)

Rows == [wf : Workflow, kind : Kind, root : Position]
Jobs == [pc : {"none", "queued", "appended", "bumped", "done"}, out : 0 .. MaxLog]
Calls == [pc : CallPC, pos : 0 .. MaxLog, hw : 0 .. MaxLog, at : 0 .. Len(Order)]

\* Trigger p of reactor r becomes [pc, out], no other one moves.
Becomes(r, p, pc, out) ==
    /\ job' \in [Reactor -> [Position -> Jobs]]
    /\ job'[r][p].pc = pc /\ job'[r][p].out = out
    /\ \A q \in Reactor, u \in Position : q # r \/ u # p => job'[q][u] = job[q][u]

LEMMA JobBecomes ==
    ASSUME TypeOK, NEW r \in Reactor, NEW p \in Position, NEW x \in Jobs,
           job' = [job EXCEPT ![r][p] = x]
    PROVE  Becomes(r, p, x.pc, x.out)
<1>1. job \in [Reactor -> [Position -> Jobs]]
  BY DEF TypeOK, Jobs
<1>2. [job[r] EXCEPT ![p] = x] \in [Position -> Jobs]
  BY <1>1
<1>3. job' = [job EXCEPT ![r] = [job[r] EXCEPT ![p] = x]]
  BY <1>1
<1>4. job' \in [Reactor -> [Position -> Jobs]] /\ job'[r] = [job[r] EXCEPT ![p] = x]
  BY <1>1, <1>2, <1>3
<1>5. \A q \in Reactor \ {r} : job'[q] = job[q]
  BY <1>1, <1>3
<1> QED
  BY <1>1, <1>4, <1>5 DEF Becomes

LEMMA PcBecomes ==
    ASSUME TypeOK, NEW r \in Reactor, NEW p \in Position,
           NEW pc \in {"none", "queued", "appended", "bumped", "done"},
           job' = [job EXCEPT ![r][p].pc = pc]
    PROVE  Becomes(r, p, pc, job[r][p].out)
<1>0. job[r][p] \in Jobs
  BY DEF TypeOK, Jobs
<1>1. PICK x \in Jobs : x = [job[r][p] EXCEPT !.pc = pc]
  BY <1>0 DEF Jobs
<1>2. x.pc = pc /\ x.out = job[r][p].out
  BY <1>0, <1>1 DEF Jobs
<1>3. job' = [job EXCEPT ![r][p] = x]
  BY <1>1 DEF TypeOK
<1> QED
  BY <1>2, <1>3, JobBecomes

\* Caller c becomes k, no other one moves.
Turns(c, k) ==
    /\ k \in Calls
    /\ call' \in [Caller -> Calls]
    /\ call'[c] = k
    /\ \A d \in Caller \ {c} : call'[d] = call[d]

LEMMA CallTurns ==
    ASSUME TypeOK, NEW c \in Caller, NEW k \in Calls, call' = [call EXCEPT ![c] = k]
    PROVE  Turns(c, k)
BY DEF TypeOK, Calls, Turns

\* What TypeOK says, with the names of this module.
LEMMA Types ==
    ASSUME TypeOK
    PROVE  /\ log \in Seq(Rows) /\ Len(log) \in 0 .. MaxLog /\ DOMAIN log = 1 .. Len(log)
           /\ DOMAIN log \subseteq Position
           /\ scanned \in [Consumer -> 0 .. MaxLog]
           /\ job \in [Reactor -> [Position -> Jobs]]
           /\ mark \in [Workflow -> 0 .. MaxLog]
           /\ call \in [Caller -> Calls]
           /\ MaxLog \in Nat /\ Len(Order) \in Nat \ {0} /\ DOMAIN Order = 1 .. Len(Order)
           /\ \A c \in Caller : Wf(c) \in Workflow
           /\ \A r \in Reactor : r \in Consumer
<1>1. /\ MaxLog \in Nat /\ Len(Order) \in Nat \ {0} /\ DOMAIN Order = 1 .. Len(Order)
      /\ \A c \in Caller : Wf(c) \in Workflow
  BY SettleAssumption DEF Wf
<1>2. log \in Seq(Rows) /\ Len(log) <= MaxLog
  BY DEF TypeOK, Rows
<1>3. Len(log) \in 0 .. MaxLog /\ DOMAIN log = 1 .. Len(log)
  BY <1>1, <1>2
<1>4. DOMAIN log \subseteq Position
  BY <1>1, <1>3 DEF Position
<1> QED
  BY <1>1, <1>2, <1>3, <1>4 DEF TypeOK, Jobs, Calls, Consumer

LEMMA Appended ==
    ASSUME TypeOK, NEW row \in Rows, Len(log) < MaxLog, log' = Append(log, row)
    PROVE  /\ log' \in Seq(Rows) /\ Len(log') = Len(log) + 1 /\ Len(log') <= MaxLog
           /\ DOMAIN log' = 1 .. Len(log) + 1
           /\ Len(log) + 1 \in Position /\ Len(log) + 1 \notin DOMAIN log
           /\ \A q \in DOMAIN log : q \in DOMAIN log' /\ log'[q] = log[q]
           /\ \A q \in DOMAIN log' : q \in DOMAIN log \/ q = Len(log) + 1
           /\ log'[Len(log) + 1] = row
<1>1. log \in Seq(Rows) /\ Len(log) \in Nat /\ MaxLog \in Nat /\ DOMAIN log = 1 .. Len(log)
  BY Types
<1>2. /\ log' \in Seq(Rows) /\ Len(log') = Len(log) + 1
      /\ DOMAIN log' = 1 .. Len(log) + 1
      /\ \A q \in 1 .. Len(log) : log'[q] = log[q]
      /\ log'[Len(log) + 1] = row
  BY <1>1
<1> QED
  BY <1>1, <1>2 DEF Position

\* The rows of a workflow are those of its one caller.
LEMMA OwnRows ==
    ASSUME OneEach, RowsOK, NEW c \in Caller, NEW p \in DOMAIN log
    PROVE  /\ log[p].wf = Wf(c) => /\ call[c].pc # "idle"
                                   /\ call[c].pos = log[p].root
                                   /\ call[c].pos <= p
           /\ call[c].pc # "idle" /\ call[c].pos = log[p].root => log[p].wf = Wf(c)
<1>1. PICK d \in Caller :
         call[d].pc # "idle" /\ call[d].pos = log[p].root /\ Wf(d) = log[p].wf
  BY DEF RowsOK
<1>2. log[p].wf = Wf(c) => c = d
  BY <1>1 DEF OneEach
<1>3. call[c].pc # "idle" /\ call[c].pos = log[p].root => Wf(c) = Wf(d)
  BY <1>1 DEF RowsOK
<1> QED
  BY <1>1, <1>2, <1>3 DEF RowsOK

\* With room for every workflow a bump raises one mark and touches no other.
LEMMA BumpRaises ==
    ASSUME TypeOK, Roomy, NEW w \in Workflow, NEW p \in 1 .. MaxLog, BumpTo(w, p)
    PROVE  /\ mark' \in [Workflow -> 0 .. MaxLog]
           /\ p <= mark'[w] /\ mark[w] <= mark'[w] /\ mark'[w] \in {p, mark[w]}
           /\ \A v \in Workflow \ {w} : mark'[v] = mark[v]
<1>1. mark \in [Workflow -> 0 .. MaxLog] /\ MaxLog \in Nat
  BY Types
<1>2. CASE mark[w] # 0
  <2>1. mark' = [mark EXCEPT ![w] = IF p > @ THEN p ELSE @]
    BY <1>2 DEF BumpTo
  <2> QED BY <1>1, <2>1
<1>3. CASE mark[w] = 0
  <2>1. Tracked \subseteq Workflow \ {w}
    BY <1>3 DEF Tracked
  <2>2. /\ IsFiniteSet(Workflow \ {w})
        /\ Cardinality(Workflow \ {w}) = Cardinality(Workflow) - 1
        /\ Cardinality(Workflow) \in Nat
    BY FS_RemoveElement, FS_CardinalityType DEF Roomy
  <2>3. Cardinality(Tracked) <= Cardinality(Workflow \ {w}) /\ Cardinality(Tracked) \in Nat
    BY <2>1, <2>2, FS_Subset, FS_CardinalityType
  <2>4. ~(Cardinality(Tracked) >= Cap)
    BY <2>2, <2>3, SettleAssumption DEF Roomy
  <2>5. mark' = [mark EXCEPT ![w] = p]
    BY <1>3, <2>4 DEF BumpTo
  <2> QED BY <1>1, <1>3, <2>5
<1> QED
  BY <1>2, <1>3

-----------------------------------------------------------------------------
(* The steps of the consumers.                                              *)

\* The callers do not mind a step of a reactor that opens at most a trigger it
\* had not scanned.
LEMMA PassedStays ==
    ASSUME TypeOK, NEW c \in Caller, NEW k \in Consumer, Passed(c, k),
           call'[c] = call[c], scanned[k] <= scanned'[k],
           scanned' \in [Consumer -> 0 .. MaxLog],
           k \in Reactor => \A p \in Open(k)' :
               /\ log'[p].wf = log[p].wf
               /\ p \in Open(k) \/ p > scanned[k]
    PROVE  Passed(c, k)'
<1>1. call[c].hw \in Nat /\ scanned[k] \in Nat /\ scanned'[k] \in Nat
  BY Types DEF Calls
<1>2. \A p \in Open(k)' : p \in Nat
  BY DEF Open, Position
<1> QED
  BY <1>1, <1>2 DEF Passed

LEMMA IngestPreserves ==
    ASSUME IInv, OneEach, NEW r \in Reactor, Ingest(r) \/ ScanPast(r)
    PROVE  IInv'
<1>0. TypeOK /\ RowsOK /\ JobsOK /\ MarksOK
  BY DEF IInv
<1> DEFINE n == scanned[r] + 1
<1>1. /\ scanned \in [Consumer -> 0 .. MaxLog] /\ r \in Consumer /\ scanned[r] \in Nat
      /\ Len(log) \in 0 .. MaxLog /\ MaxLog \in Nat /\ DOMAIN log = 1 .. Len(log)
      /\ call \in [Caller -> Calls] /\ job \in [Reactor -> [Position -> Jobs]]
  BY <1>0, Types
<1>2. /\ scanned[r] < Len(log) /\ scanned' = [scanned EXCEPT ![r] = n]
      /\ UNCHANGED <<log, mark, pinned, failing, call, blips>>
  BY DEF Ingest, ScanPast
<1>3. n \in Position /\ n <= Len(log)
  BY <1>1, <1>2 DEF Position
<1>4. job[r][n].pc = "none" /\ job[r][n].out = 0
  <2>1. ~(n <= scanned[r])
    BY <1>1
  <2> QED BY <1>0, <1>3, <2>1 DEF JobsOK, JobOK
<1>5. /\ scanned' \in [Consumer -> 0 .. MaxLog] /\ scanned'[r] = n
      /\ \A k \in Consumer \ {r} : scanned'[k] = scanned[k]
  BY <1>1, <1>2, <1>3
<1> HIDE DEF n
<1>6. \E pc \in {"none", "queued"} : Becomes(r, n, pc, 0)
  <2>1. CASE UNCHANGED job
    BY <1>1, <1>3, <1>4, <2>1 DEF Becomes
  <2>2. CASE job' = [job EXCEPT ![r][n].pc = "queued"]
    BY <1>0, <1>3, <1>4, <2>2, PcBecomes
  <2> QED BY <2>1, <2>2 DEF Ingest, ScanPast, n
<1>7. PICK pc \in {"none", "queued"} : Becomes(r, n, pc, 0)
  BY <1>6
<1>8. TypeOK'
  BY <1>0, <1>2, <1>5, <1>7 DEF TypeOK, Becomes, Jobs
<1>9. RowsOK'
  BY <1>0, <1>2 DEF RowsOK
<1>10. JobsOK'
  <2>1. ASSUME NEW k \in Consumer PROVE scanned'[k] <= Len(log)
    BY <1>0, <1>3, <1>5, <2>1 DEF JobsOK
  <2>2. ASSUME NEW q \in Reactor, NEW u \in Position PROVE JobOK(q, u)'
    <3>1. CASE q = r /\ u = n
      BY <1>1, <1>3, <1>5, <1>7, <3>1 DEF JobOK, Becomes
    <3>2. CASE q # r \/ u # n
      <4>1. job'[q][u] = job[q][u] /\ JobOK(q, u)
        BY <1>0, <1>7, <3>2 DEF Becomes, JobsOK
      <4>2. scanned[q] <= scanned'[q] /\ scanned[q] \in Nat /\ scanned'[q] \in Nat /\ u \in Nat
        <5>1. q \in Consumer
          BY DEF Consumer
        <5> QED BY <1>1, <1>5, <5>1 DEF n, Position
      <4> QED BY <1>2, <4>1, <4>2 DEF JobOK
    <3> QED BY <3>1, <3>2
  <2>3. ASSUME NEW q \in DOMAIN log, q # log[q].root
        PROVE  \E a \in Reactor, u \in Position : job'[a][u].out = q
    <3>1. PICK a \in Reactor, u \in Position : job[a][u].out = q
      BY <1>0, <2>3 DEF JobsOK
    <3>2. q # 0
      BY <1>1
    <3> QED BY <1>4, <1>7, <3>1, <3>2 DEF Becomes
  <2> QED BY <1>2, <2>1, <2>2, <2>3 DEF JobsOK
<1>11. MarksOK'
  <2> SUFFICES ASSUME NEW c \in Caller, NEW q \in Reactor, NEW p \in DOMAIN log,
                      job'[q][p].pc \in {"bumped", "done"}, log[p].wf = Wf(c), ~Forgotten(c)
               PROVE  job'[q][p].out <= mark[Wf(c)]
    BY <1>0, <1>2 DEF MarksOK, Forgotten
  <2>1. p \in Position
    BY <1>0, Types
  <2>2. job'[q][p] = job[q][p]
    BY <1>7, <2>1 DEF Becomes
  <2> QED BY <1>0, <2>2 DEF MarksOK
<1>12. ASSUME NEW k \in Reactor, NEW p \in Open(k)'
       PROVE  log'[p].wf = log[p].wf /\ (p \in Open(k) \/ p > scanned[k])
  <2>1. CASE k = r /\ p = n
    BY <1>1, <1>2, <2>1 DEF n
  <2>2. CASE k # r \/ p # n
    BY <1>2, <1>7, <2>2 DEF Open, Becomes
  <2> QED BY <2>1, <2>2
<1>13. ASSUME NEW k \in Consumer PROVE scanned[k] <= scanned'[k]
  <2>1. CASE k = r
    BY <1>1, <1>5, <2>1 DEF n
  <2>2. CASE k # r
    BY <1>1, <1>5, <2>2
  <2> QED BY <2>1, <2>2
<1>14. ASSUME NEW c \in Caller PROVE CallOK(c)'
  <2>1. CallOK(c) /\ call'[c] = call[c]
    BY <1>2 DEF IInv
  <2>2. ASSUME NEW k \in Consumer, Passed(c, k) PROVE Passed(c, k)'
    BY <1>0, <1>5, <1>12, <1>13, <2>1, <2>2, PassedStays
  <2>3. ASSUME NEW k \in Consumer, NEW p \in DOMAIN log, Observed(k, p)
        PROVE  Observed(k, p)'
    <3>1. p <= scanned[k] /\ p \in Nat /\ scanned[k] \in Nat /\ scanned'[k] \in Nat
      BY <1>1, <1>5, <2>3 DEF Observed
    <3> QED BY <1>12, <1>13, <2>3, <3>1 DEF Observed
  <2>4. \A i \in DOMAIN Order : Order[i] \in Consumer
    BY SettleAssumption
  <2> QED BY <1>2, <2>1, <2>2, <2>3, <2>4 DEF CallOK
<1> QED
  BY <1>8, <1>9, <1>10, <1>11, <1>14 DEF IInv

LEMMA AppendOutputPreserves ==
    ASSUME IInv, OneEach, NEW r \in Reactor, NEW p \in Position, AppendOutput(r, p)
    PROVE  IInv'
<1>0. TypeOK /\ RowsOK /\ JobsOK /\ MarksOK
  BY DEF IInv
<1> DEFINE n == Len(log) + 1
           row == [wf |-> log[p].wf, kind |-> Produces[r], root |-> log[p].root]
<1>1. /\ scanned \in [Consumer -> 0 .. MaxLog] /\ r \in Consumer /\ scanned[r] \in Nat
      /\ Len(log) \in 0 .. MaxLog /\ MaxLog \in Nat /\ DOMAIN log = 1 .. Len(log)
      /\ DOMAIN log \subseteq Position /\ log \in Seq(Rows)
      /\ call \in [Caller -> Calls] /\ job \in [Reactor -> [Position -> Jobs]]
  BY <1>0, Types
<1>2. /\ job[r][p].pc = "queued" /\ Produces[r] # NoKind /\ Len(log) < MaxLog
      /\ log' = Append(log, row) /\ job' = [job EXCEPT ![r][p] = [pc |-> "appended", out |-> n]]
      /\ UNCHANGED <<scanned, mark, pinned, failing, call, blips>>
  BY DEF AppendOutput
<1>3. p \in DOMAIN log /\ p <= Len(log) /\ job[r][p].out = 0 /\ log[p] \in Rows
  <2>1. JobOK(r, p) /\ scanned[r] <= Len(log)
    BY <1>0, <1>1 DEF JobsOK
  <2>2. p <= Len(log) /\ job[r][p].out = 0
    BY <1>1, <1>2, <2>1 DEF JobOK, Position
  <2> QED BY <1>1, <2>2 DEF Position
<1>4. row \in Rows
  BY <1>2, <1>3, SettleAssumption DEF Rows
<1> HIDE DEF row
<1>5. /\ log' \in Seq(Rows) /\ Len(log') = n /\ Len(log') <= MaxLog
      /\ DOMAIN log' = 1 .. n /\ n \in Position /\ n \notin DOMAIN log
      /\ \A q \in DOMAIN log : q \in DOMAIN log' /\ log'[q] = log[q]
      /\ \A q \in DOMAIN log' : q \in DOMAIN log \/ q = n
      /\ log'[n] = row
  BY <1>0, <1>2, <1>4, Appended
<1>6. row.wf = log[p].wf /\ row.root = log[p].root
  BY DEF row
<1>7. Becomes(r, p, "appended", n)
  <2>1. [pc |-> "appended", out |-> n] \in Jobs
    BY <1>1, <1>2 DEF Jobs
  <2> QED BY <1>0, <1>2, <2>1, JobBecomes
<1>8. n \in Nat /\ p < n /\ Len(log) < n
  BY <1>1, <1>3
<1> HIDE DEF n
<1>9. TypeOK'
  BY <1>0, <1>2, <1>5, <1>7 DEF TypeOK, Becomes, Jobs, Rows
<1>10. RowsOK'
  <2>1. ASSUME NEW c \in Caller, call[c].pc # "idle"
        PROVE  call[c].pos \in DOMAIN log' /\ log'[call[c].pos].wf = Wf(c)
    BY <1>0, <1>5, <2>1 DEF RowsOK
  <2>2. ASSUME NEW q \in DOMAIN log'
        PROVE  /\ log'[q].root <= q
               /\ \E c \in Caller : /\ call[c].pc # "idle" /\ call[c].pos = log'[q].root
                                    /\ Wf(c) = log'[q].wf
    <3>1. CASE q \in DOMAIN log
      BY <1>0, <1>5, <3>1 DEF RowsOK
    <3>2. CASE q = n
      <4>1. /\ log[p].root <= p
            /\ \E c \in Caller : /\ call[c].pc # "idle" /\ call[c].pos = log[p].root
                                 /\ Wf(c) = log[p].wf
        BY <1>0, <1>3 DEF RowsOK
      <4>2. log[p].root \in Nat /\ p \in Nat
        BY <1>3 DEF Rows, Position
      <4>3. log[p].root <= n
        BY <1>8, <4>1, <4>2
      <4> QED BY <1>5, <1>6, <3>2, <4>1, <4>3
    <3> QED BY <1>5, <3>1, <3>2
  <2> QED BY <1>2, <2>1, <2>2 DEF RowsOK
<1>11. JobsOK'
  <2>1. ASSUME NEW k \in Consumer PROVE scanned[k] <= Len(log')
    BY <1>0, <1>1, <1>5, <1>8, <2>1 DEF JobsOK
  <2>2. ASSUME NEW q \in Reactor, NEW u \in Position PROVE JobOK(q, u)'
    <3>1. CASE q = r /\ u = p
      <4>1. JobOK(r, p)
        BY <1>0 DEF JobsOK
      <4>2. p <= scanned[r]
        BY <1>2, <4>1 DEF JobOK
      <4>3. job'[r][p].pc = "appended" /\ job'[r][p].out = n /\ n \in DOMAIN log'
        BY <1>1, <1>5, <1>7, <1>8 DEF Becomes
      <4> QED BY <1>2, <1>3, <1>5, <1>6, <1>8, <3>1, <4>2, <4>3 DEF JobOK
    <3>2. CASE q # r \/ u # p
      <4>1. job'[q][u] = job[q][u] /\ JobOK(q, u)
        BY <1>0, <1>7, <3>2 DEF Becomes, JobsOK
      <4>2. job[q][u].out # 0 => u \in DOMAIN log
        <5>1. ASSUME job[q][u].out # 0 PROVE u < job[q][u].out /\ job[q][u].out \in 1 .. Len(log)
          BY <1>1, <4>1, <5>1 DEF JobOK
        <5> QED BY <1>1, <5>1 DEF Position
      <4> QED BY <1>2, <1>5, <4>1, <4>2 DEF JobOK
    <3> QED BY <3>1, <3>2
  <2>3. ASSUME NEW q \in DOMAIN log', q # log'[q].root
        PROVE  \E a \in Reactor, u \in Position : job'[a][u].out = q
    <3>1. CASE q = n
      BY <1>7, <3>1 DEF Becomes
    <3>2. CASE q \in DOMAIN log
      <4>1. PICK a \in Reactor, u \in Position : job[a][u].out = q
        BY <1>0, <1>5, <2>3, <3>2 DEF JobsOK
      <4>2. q # 0
        BY <1>1, <3>2
      <4> QED BY <1>3, <1>7, <4>1, <4>2 DEF Becomes
    <3> QED BY <1>5, <3>1, <3>2
  <2> QED BY <1>2, <2>1, <2>2, <2>3 DEF JobsOK
<1>12. MarksOK'
  <2> SUFFICES ASSUME NEW c \in Caller, NEW q \in Reactor, NEW u \in DOMAIN log',
                      job'[q][u].pc \in {"bumped", "done"}, log'[u].wf = Wf(c), ~Forgotten(c)
               PROVE  job'[q][u].out <= mark[Wf(c)]
    BY <1>0, <1>2 DEF MarksOK, Forgotten
  <2>1. u \in Position
    BY <1>1, <1>5
  <2>2. job'[q][u] = job[q][u]
    BY <1>7, <2>1 DEF Becomes
  <2>3. u # n
    <3>1. SUFFICES ASSUME u = n PROVE FALSE
      OBVIOUS
    <3>2. JobOK(q, n) /\ q \in Consumer
      BY <1>0, <1>5 DEF JobsOK, Consumer
    <3>3. n <= scanned[q] /\ scanned[q] <= Len(log) /\ scanned[q] \in Nat
      BY <1>0, <1>1, <2>2, <3>1, <3>2 DEF JobOK, JobsOK
    <3> QED BY <1>1, <1>8, <3>3
  <2>4. u \in DOMAIN log /\ log[u].wf = Wf(c)
    BY <1>5, <2>3
  <2> QED BY <1>0, <2>2, <2>4 DEF MarksOK
<1>13. ASSUME NEW k \in Reactor
       PROVE  /\ Open(k)' = Open(k)
              /\ \A u \in Open(k) : log'[u].wf = log[u].wf
  <2>1. \A u \in Position : u \in Open(k)' <=> u \in Open(k)
    BY <1>2, <1>7 DEF Open, Becomes
  <2>2. Open(k)' = Open(k)
    BY <2>1 DEF Open
  <2>3. ASSUME NEW u \in Open(k) PROVE u \in DOMAIN log
    <3>1. JobOK(k, u) /\ job[k][u].pc # "none" /\ u \in Position /\ k \in Consumer
      BY <1>0, <2>3 DEF JobsOK, Open, Consumer
    <3>2. u <= scanned[k] /\ scanned[k] <= Len(log) /\ scanned[k] \in Nat
      BY <1>0, <1>1, <3>1 DEF JobOK, JobsOK
    <3> QED BY <1>1, <3>1, <3>2 DEF Position
  <2> QED BY <1>5, <2>2, <2>3
<1>14. ASSUME NEW c \in Caller PROVE CallOK(c)'
  <2>1. CallOK(c) /\ call'[c] = call[c]
    BY <1>2 DEF IInv
  <2>2. ASSUME NEW k \in Consumer, Passed(c, k) PROVE Passed(c, k)'
    BY <1>2, <1>13, <2>2 DEF Passed
  <2>3. ASSUME call[c].pc \in {"forget", "unpin", "settled"},
               NEW q \in DOMAIN log', log'[q].wf = Wf(c), NEW k \in Consumer
        PROVE  Observed(k, q)'
    <3>1. CASE q \in DOMAIN log
      <4>1. Observed(k, q)
        BY <1>5, <2>1, <2>3, <3>1 DEF CallOK
      <4> QED BY <1>2, <1>13, <4>1 DEF Observed
    <3>2. CASE q = n
      <4>1. Observed(r, p)
        BY <1>1, <1>3, <1>5, <1>6, <2>1, <2>3, <3>2 DEF CallOK
      <4>2. p \in Open(r)
        BY <1>2 DEF Open
      <4> QED BY <4>1, <4>2 DEF Observed
    <3> QED BY <1>5, <2>3, <3>1, <3>2
  <2>4. \A i \in DOMAIN Order : Order[i] \in Consumer
    BY SettleAssumption
  <2> QED BY <2>1, <2>2, <2>3, <2>4 DEF CallOK
<1> QED
  BY <1>9, <1>10, <1>11, <1>12, <1>14 DEF IInv

\* The later steps of a reaction: the mark, the ack, a failure.
LEMMA FinishPreserves ==
    ASSUME IInv, OneEach, Roomy, NEW r \in Reactor, NEW p \in Position,
           Bump(r, p) \/ Ack(r, p) \/ Retry(r, p)
    PROVE  IInv'
<1>0. TypeOK /\ RowsOK /\ JobsOK /\ MarksOK
  BY DEF IInv
<1>1. /\ scanned \in [Consumer -> 0 .. MaxLog] /\ r \in Consumer /\ scanned[r] \in Nat
      /\ Len(log) \in 0 .. MaxLog /\ MaxLog \in Nat /\ DOMAIN log = 1 .. Len(log)
      /\ DOMAIN log \subseteq Position /\ log \in Seq(Rows)
      /\ call \in [Caller -> Calls] /\ job \in [Reactor -> [Position -> Jobs]]
      /\ mark \in [Workflow -> 0 .. MaxLog]
      /\ \A c \in Caller : Wf(c) \in Workflow
  BY <1>0, Types
<1>2. UNCHANGED <<log, scanned, pinned, call>> /\ job[r][p].pc \in {"queued", "appended", "bumped"}
  BY DEF Bump, Ack, Retry
<1>3. p \in DOMAIN log /\ log[p] \in Rows /\ JobOK(r, p)
  <2>1. JobOK(r, p) /\ scanned[r] <= Len(log)
    BY <1>0, <1>1 DEF JobsOK
  <2>2. p <= Len(log)
    BY <1>1, <1>2, <2>1 DEF JobOK, Position
  <2> QED BY <1>1, <2>1, <2>2 DEF Position
<1>4. PICK pc \in {"queued", "bumped", "done"} :
         /\ Becomes(r, p, pc, job[r][p].out)
         /\ pc = "queued" => job[r][p].pc = "queued"
         /\ pc = "bumped" => job[r][p].pc = "appended" /\ BumpTo(log[p].wf, job[r][p].out)
         /\ pc = "done" => job[r][p].pc = "bumped" \/ job[r][p].out = 0
         /\ pc # "bumped" => UNCHANGED mark
  <2>1. CASE Bump(r, p)
    BY <1>0, <2>1, PcBecomes DEF Bump
  <2>2. CASE Ack(r, p)
    <3>1. job[r][p].pc = "bumped" \/ job[r][p].out = 0
      BY <1>3, <2>2 DEF Ack, JobOK
    <3> QED BY <1>0, <2>2, <3>1, PcBecomes DEF Ack
  <2>3. CASE Retry(r, p)
    BY <1>1, <2>3 DEF Retry, Becomes
  <2> QED BY <2>1, <2>2, <2>3
<1>5. /\ mark' \in [Workflow -> 0 .. MaxLog]
      /\ \A w \in Workflow : mark[w] <= mark'[w]
      /\ pc = "bumped" => job[r][p].out <= mark'[log[p].wf]
      /\ \A w \in Workflow : mark'[w] # mark[w] =>
            w = log[p].wf /\ mark'[w] = job[r][p].out /\ job[r][p].out # 0
  <2>1. CASE pc # "bumped"
    BY <1>1, <1>4, <2>1
  <2>2. CASE pc = "bumped"
    <3>1. job[r][p].out \in 1 .. MaxLog /\ log[p].wf \in Workflow
      <4>1. job[r][p].out # 0 /\ job[r][p].out \in 0 .. MaxLog
        BY <1>1, <1>3, <1>4, <2>2 DEF JobOK, Jobs
      <4> QED BY <1>1, <1>3, <4>1 DEF Rows
    <3> DEFINE w == log[p].wf
    <3>2. /\ mark' \in [Workflow -> 0 .. MaxLog]
          /\ job[r][p].out <= mark'[w] /\ mark[w] <= mark'[w]
          /\ mark'[w] \in {job[r][p].out, mark[w]}
          /\ \A v \in Workflow \ {w} : mark'[v] = mark[v]
      BY <1>0, <1>4, <2>2, <3>1, BumpRaises
    <3>3. \A v \in Workflow : mark[v] \in Nat
      BY <1>1
    <3> HIDE DEF w
    <3>4. ASSUME NEW v \in Workflow PROVE mark[v] <= mark'[v]
      BY <3>2, <3>3
    <3>5. ASSUME NEW v \in Workflow, mark'[v] # mark[v]
          PROVE  v = w /\ mark'[v] = job[r][p].out
      BY <3>2, <3>5
    <3> QED BY <3>1, <3>2, <3>4, <3>5 DEF w
  <2> QED BY <2>1, <2>2
<1>6. TypeOK'
  <2>1. failing' \in [Consumer -> 0 .. Wedge] /\ blips' \in 0 .. MaxBlips
    <3>1. failing \in [Consumer -> 0 .. Wedge] /\ blips \in 0 .. MaxBlips
          /\ Wedge \in Nat \ {0} /\ MaxBlips \in Nat
      BY <1>0, SettleAssumption DEF TypeOK
    <3>2. MoreFailing(r) \in 0 .. Wedge
      BY <1>1, <3>1 DEF MoreFailing
    <3>3. 0 \in 0 .. Wedge /\ \A b \in 0 .. MaxBlips : b < MaxBlips => b + 1 \in 0 .. MaxBlips
      BY <3>1
    <3>4. \A x \in 0 .. Wedge : [failing EXCEPT ![r] = x] \in [Consumer -> 0 .. Wedge]
      BY <1>1, <3>1
    <3>5. UNCHANGED failing \/ \E x \in 0 .. Wedge : failing' = [failing EXCEPT ![r] = x]
      BY <3>2, <3>3 DEF Bump, Ack, Retry
    <3>6. \/ UNCHANGED blips
          \/ blips < MaxBlips /\ blips' = blips + 1
      BY DEF Bump, Ack, Retry
    <3> QED BY <3>1, <3>3, <3>4, <3>5, <3>6
  <2> QED BY <1>0, <1>2, <1>4, <1>5, <2>1 DEF TypeOK, Becomes, Jobs
<1>7. RowsOK'
  BY <1>0, <1>2 DEF RowsOK
<1>8. JobsOK'
  <2>1. ASSUME NEW q \in Reactor, NEW u \in Position PROVE JobOK(q, u)'
    <3>1. CASE q = r /\ u = p
      BY <1>2, <1>3, <1>4, <3>1 DEF JobOK, Becomes
    <3>2. CASE q # r \/ u # p
      BY <1>0, <1>2, <1>4, <3>2 DEF JobOK, Becomes, JobsOK
    <3> QED BY <3>1, <3>2
  <2>2. \A q \in Reactor, u \in Position : job'[q][u].out = job[q][u].out
    BY <1>4 DEF Becomes
  <2> QED BY <1>0, <1>2, <2>1, <2>2 DEF JobsOK
<1>9. MarksOK'
  <2>1. ASSUME NEW c \in Caller, mark'[Wf(c)] # 0
        PROVE  call[c].pc # "idle" /\ call[c].pos <= mark'[Wf(c)]
    <3>1. CASE mark'[Wf(c)] = mark[Wf(c)]
      BY <1>0, <2>1, <3>1 DEF MarksOK
    <3>2. CASE mark'[Wf(c)] # mark[Wf(c)]
      <4>1. Wf(c) = log[p].wf /\ mark'[Wf(c)] = job[r][p].out /\ job[r][p].out # 0
        BY <1>1, <1>5, <3>2
      <4>2. call[c].pc # "idle" /\ call[c].pos <= p
        BY <1>0, <1>3, <4>1, OwnRows
      <4>3. p < job[r][p].out /\ job[r][p].out \in Nat
        BY <1>1, <1>3, <4>1 DEF JobOK
      <4>4. call[c].pos \in Nat /\ p \in Nat
        BY <1>1 DEF Calls, Position
      <4>5. call[c].pos <= job[r][p].out
        BY <4>2, <4>3, <4>4
      <4> QED BY <4>1, <4>2, <4>5
    <3> QED BY <3>1, <3>2
  <2>2. ASSUME NEW c \in Caller, NEW q \in Reactor, NEW u \in DOMAIN log,
               job'[q][u].pc \in {"bumped", "done"}, log[u].wf = Wf(c), ~Forgotten(c)
        PROVE  job'[q][u].out <= mark'[Wf(c)]
    <3>0. /\ mark[Wf(c)] \in Nat /\ mark'[Wf(c)] \in Nat /\ mark[Wf(c)] <= mark'[Wf(c)]
          /\ u \in Position /\ job[q][u].out \in Nat
      BY <1>1, <1>5 DEF Jobs
    <3>1. CASE job[q][u].pc \in {"bumped", "done"}
      <4>1. job[q][u].out <= mark[Wf(c)]
        BY <1>0, <2>2, <3>1 DEF MarksOK
      <4>2. job'[q][u].out = job[q][u].out
        BY <1>4, <3>0 DEF Becomes
      <4> QED BY <3>0, <4>1, <4>2
    <3>2. CASE job[q][u].pc \notin {"bumped", "done"}
      <4>1. q = r /\ u = p /\ job'[q][u].pc = pc /\ job'[q][u].out = job[r][p].out
        BY <1>4, <2>2, <3>0, <3>2 DEF Becomes
      <4>2. pc = "bumped" \/ job[r][p].out = 0
        BY <1>4, <2>2, <3>2, <4>1
      <4>3. pc = "bumped" => job[r][p].out <= mark'[Wf(c)]
        BY <1>5, <2>2, <4>1
      <4> QED BY <3>0, <4>1, <4>2, <4>3
    <3> QED BY <3>1, <3>2
  <2> QED BY <1>2, <2>1, <2>2 DEF MarksOK, Forgotten
<1>10. ASSUME NEW k \in Reactor PROVE Open(k)' \subseteq Open(k)
  BY <1>2, <1>4 DEF Open, Becomes
<1>11. ASSUME NEW c \in Caller PROVE CallOK(c)'
  <2>1. CallOK(c) /\ call'[c] = call[c]
    BY <1>2 DEF IInv
  <2>2. \A k \in Consumer : Passed(c, k) => Passed(c, k)'
    BY <1>2, <1>10 DEF Passed
  <2>3. \A k \in Consumer, u \in DOMAIN log : Observed(k, u) => Observed(k, u)'
    BY <1>2, <1>10 DEF Observed
  <2>4. \A i \in DOMAIN Order : Order[i] \in Consumer
    BY SettleAssumption
  <2> QED BY <1>2, <2>1, <2>2, <2>3, <2>4 DEF CallOK
<1> QED
  BY <1>6, <1>7, <1>8, <1>9, <1>11 DEF IInv

LEMMA ProjectPreserves ==
    ASSUME IInv, NEW k \in Projector, Project(k)
    PROVE  IInv'
<1>0. TypeOK /\ RowsOK /\ JobsOK /\ MarksOK
  BY DEF IInv
<1>1. /\ scanned \in [Consumer -> 0 .. MaxLog] /\ k \in Consumer /\ scanned[k] \in Nat
      /\ Len(log) \in 0 .. MaxLog /\ MaxLog \in Nat /\ DOMAIN log = 1 .. Len(log)
      /\ call \in [Caller -> Calls]
  BY <1>0, Types DEF Consumer
<1>2. /\ scanned[k] < Len(log) /\ UNCHANGED <<log, job, mark, pinned, call, blips>>
      /\ UNCHANGED scanned \/ scanned' = [scanned EXCEPT ![k] = @ + 1]
  BY DEF Project
<1>3. /\ scanned' \in [Consumer -> 0 .. MaxLog]
      /\ \A j \in Consumer : scanned[j] <= scanned'[j] /\ scanned'[j] <= Len(log)
  <2>1. \A j \in Consumer : scanned[j] \in Nat /\ scanned[j] <= Len(log)
    BY <1>0, <1>1 DEF JobsOK
  <2>2. scanned[k] + 1 \in 0 .. MaxLog /\ scanned[k] + 1 <= Len(log)
    BY <1>1, <1>2
  <2>3. CASE UNCHANGED scanned
    BY <1>1, <2>1, <2>3
  <2>4. CASE scanned' = [scanned EXCEPT ![k] = @ + 1]
    <3>1. /\ scanned' \in [Consumer -> 0 .. MaxLog] /\ scanned'[k] = scanned[k] + 1
          /\ \A j \in Consumer \ {k} : scanned'[j] = scanned[j]
      BY <1>1, <2>2, <2>4
    <3> QED BY <1>1, <2>1, <2>2, <3>1
  <2> QED BY <1>2, <2>3, <2>4
<1>4. TypeOK'
  <2>1. failing \in [Consumer -> 0 .. Wedge] /\ Wedge \in Nat \ {0}
    BY <1>0, SettleAssumption DEF TypeOK
  <2>2. MoreFailing(k) \in 0 .. Wedge /\ 0 \in 0 .. Wedge
    BY <1>1, <2>1 DEF MoreFailing
  <2>3. \E x \in 0 .. Wedge : failing' = [failing EXCEPT ![k] = x]
    BY <2>2 DEF Project
  <2>4. failing' \in [Consumer -> 0 .. Wedge]
    BY <1>1, <2>1, <2>3
  <2> QED BY <1>0, <1>2, <1>3, <2>4 DEF TypeOK
<1>5. RowsOK' /\ MarksOK'
  BY <1>0, <1>2 DEF RowsOK, MarksOK, Forgotten
<1>6. JobsOK'
  <2>1. ASSUME NEW r \in Reactor, NEW p \in Position PROVE JobOK(r, p)'
    <3>1. JobOK(r, p) /\ r \in Consumer
      BY <1>0 DEF JobsOK, Consumer
    <3>2. scanned[r] \in Nat /\ scanned'[r] \in Nat /\ p \in Nat /\ scanned[r] <= scanned'[r]
      BY <1>1, <1>3, <3>1 DEF Position
    <3> QED BY <1>2, <3>1, <3>2 DEF JobOK
  <2> QED BY <1>0, <1>2, <1>3, <2>1 DEF JobsOK
<1>7. \A j \in Consumer : Open(j)' = Open(j)
  BY <1>2 DEF Open
<1>8. ASSUME NEW c \in Caller PROVE CallOK(c)'
  <2>1. CallOK(c) /\ call'[c] = call[c] /\ call[c].hw \in Nat
    BY <1>1, <1>2 DEF IInv, Calls
  <2>2. ASSUME NEW j \in Consumer
        PROVE  /\ Passed(c, j) => Passed(c, j)'
               /\ \A u \in DOMAIN log : Observed(j, u) => Observed(j, u)'
    <3>1. scanned[j] \in Nat /\ scanned'[j] \in Nat /\ scanned[j] <= scanned'[j]
      BY <1>1, <1>3
    <3>2. \A x \in Nat : x <= scanned[j] => x <= scanned'[j]
      BY <3>1
    <3>3. \A u \in DOMAIN log : u \in Nat
      BY <1>1
    <3> QED BY <1>2, <1>7, <2>1, <3>1, <3>2, <3>3 DEF Passed, Observed
  <2>3. \A i \in DOMAIN Order : Order[i] \in Consumer
    BY SettleAssumption
  <2> QED BY <1>2, <2>1, <2>2, <2>3 DEF CallOK
<1> QED
  BY <1>4, <1>5, <1>6, <1>8 DEF IInv

-----------------------------------------------------------------------------
(* The steps of the callers.                                                *)

LEMMA EmitPreserves ==
    ASSUME IInv, OneEach, NEW c \in Caller, Emit(c)
    PROVE  IInv'
<1>0. TypeOK /\ RowsOK /\ JobsOK /\ MarksOK
  BY DEF IInv
<1> DEFINE n == Len(log) + 1
           row == [wf |-> Wf(c), kind |-> Plan[c].kind, root |-> n]
           k == [call[c] EXCEPT !.pc = IF Plan[c].settled THEN "pin" ELSE "emitted", !.pos = n]
<1>1. /\ scanned \in [Consumer -> 0 .. MaxLog]
      /\ Len(log) \in 0 .. MaxLog /\ MaxLog \in Nat /\ DOMAIN log = 1 .. Len(log)
      /\ DOMAIN log \subseteq Position /\ log \in Seq(Rows)
      /\ call \in [Caller -> Calls] /\ job \in [Reactor -> [Position -> Jobs]]
      /\ \A d \in Caller : Wf(d) \in Workflow
  BY <1>0, Types
<1>2. /\ call[c].pc = "idle" /\ Len(log) < MaxLog /\ log' = Append(log, row)
      /\ UNCHANGED <<mark, pinned, scanned, job, failing, blips>>
  BY DEF Emit, consumers
<1>3. n \in Position /\ n \in 0 .. MaxLog /\ n \in Nat
  BY <1>1, <1>2 DEF Position
<1>4. row \in Rows
  BY <1>1, <1>3, SettleAssumption DEF Rows
<1>5. call[c] \in Calls
  BY <1>1
<1>6. k \in Calls /\ k.pc \in {"pin", "emitted"} /\ k.pos = n
  BY <1>3, <1>5 DEF Calls, CallPC
<1>7. Turns(c, k)
  <2>1. call' = [call EXCEPT ![c] = k]
    BY <1>1 DEF Emit
  <2> QED BY <1>0, <1>6, <2>1, CallTurns
<1>8. row.wf = Wf(c) /\ row.root = n
  OBVIOUS
<1> HIDE DEF row, k
<1>9. /\ log' \in Seq(Rows) /\ Len(log') = n /\ Len(log') <= MaxLog
      /\ DOMAIN log' = 1 .. n /\ n \notin DOMAIN log
      /\ \A q \in DOMAIN log : q \in DOMAIN log' /\ log'[q] = log[q]
      /\ \A q \in DOMAIN log' : q \in DOMAIN log \/ q = n
      /\ log'[n] = row
  BY <1>0, <1>2, <1>4, Appended
<1>10. Len(log) < n /\ n \in DOMAIN log'
  BY <1>1, <1>9
<1> HIDE DEF n
<1>11. \A q \in DOMAIN log : log[q].wf # Wf(c)
  BY <1>0, <1>2, OwnRows
<1>12. TypeOK'
  BY <1>0, <1>2, <1>7, <1>9 DEF TypeOK, Turns, Calls, Rows
<1>13. RowsOK'
  <2>1. ASSUME NEW d \in Caller, call'[d].pc # "idle"
        PROVE  call'[d].pos \in DOMAIN log' /\ log'[call'[d].pos].wf = Wf(d)
    <3>1. CASE d = c
      BY <1>6, <1>7, <1>8, <1>9, <1>10, <3>1 DEF Turns
    <3>2. CASE d # c
      BY <1>0, <1>7, <1>9, <2>1, <3>2 DEF Turns, RowsOK
    <3> QED BY <3>1, <3>2
  <2>2. ASSUME NEW q \in DOMAIN log'
        PROVE  /\ log'[q].root <= q
               /\ \E d \in Caller : /\ call'[d].pc # "idle" /\ call'[d].pos = log'[q].root
                                    /\ Wf(d) = log'[q].wf
    <3>1. CASE q \in DOMAIN log
      <4>1. PICK d \in Caller :
               call[d].pc # "idle" /\ call[d].pos = log[q].root /\ Wf(d) = log[q].wf
        BY <1>0, <3>1 DEF RowsOK
      <4>2. call'[d] = call[d]
        BY <1>2, <1>7, <4>1 DEF Turns
      <4>3. log[q].root <= q
        BY <1>0, <3>1 DEF RowsOK
      <4> QED BY <1>9, <3>1, <4>1, <4>2, <4>3
    <3>2. CASE q = n
      BY <1>3, <1>6, <1>7, <1>8, <1>9, <3>2 DEF Turns
    <3> QED BY <1>9, <3>1, <3>2
  <2> QED BY <2>1, <2>2 DEF RowsOK
<1>14. JobsOK'
  <2>1. ASSUME NEW j \in Consumer PROVE scanned[j] <= Len(log')
    BY <1>0, <1>1, <1>3, <1>9, <1>10, <2>1 DEF JobsOK
  <2>2. ASSUME NEW q \in Reactor, NEW u \in Position PROVE JobOK(q, u)'
    <3>1. JobOK(q, u) /\ job[q][u].out \in Nat
      BY <1>0, <1>1 DEF JobsOK, Jobs
    <3>2. job[q][u].out # 0 => u \in DOMAIN log
      <4>1. ASSUME job[q][u].out # 0 PROVE u < job[q][u].out /\ job[q][u].out \in 1 .. Len(log)
        BY <1>1, <3>1, <4>1 DEF JobOK
      <4> QED BY <1>1, <4>1 DEF Position
    <3> QED BY <1>2, <1>9, <3>1, <3>2 DEF JobOK
  <2>3. ASSUME NEW q \in DOMAIN log', q # log'[q].root
        PROVE  \E a \in Reactor, u \in Position : job[a][u].out = q
    BY <1>0, <1>8, <1>9, <2>3 DEF JobsOK
  <2> QED BY <1>2, <2>1, <2>2, <2>3 DEF JobsOK
<1>15. mark[Wf(c)] = 0
  BY <1>0, <1>2 DEF MarksOK
<1>16. MarksOK'
  <2>1. ASSUME NEW d \in Caller, mark[Wf(d)] # 0
        PROVE  call'[d].pc # "idle" /\ call'[d].pos <= mark[Wf(d)]
    BY <1>0, <1>7, <1>15, <2>1 DEF MarksOK, Turns
  <2>2. ASSUME NEW d \in Caller, NEW q \in Reactor, NEW u \in DOMAIN log',
               job[q][u].pc \in {"bumped", "done"}, log'[u].wf = Wf(d), ~Forgotten(d)'
        PROVE  job[q][u].out <= mark[Wf(d)]
    <3>1. u # n
      <4>1. SUFFICES ASSUME u = n PROVE FALSE
        OBVIOUS
      <4>2. JobOK(q, n) /\ q \in Consumer
        BY <1>0, <1>3 DEF JobsOK, Consumer
      <4>3. n <= scanned[q] /\ scanned[q] <= Len(log) /\ scanned[q] \in Nat
        BY <1>0, <1>1, <2>2, <4>1, <4>2 DEF JobOK, JobsOK
      <4> QED BY <1>1, <1>3, <1>10, <4>3
    <3>2. u \in DOMAIN log /\ log[u].wf = Wf(d)
      BY <1>9, <2>2, <3>1
    <3>3. d # c
      BY <1>11, <3>2
    <3> QED BY <1>0, <1>7, <2>2, <3>2, <3>3 DEF MarksOK, Forgotten, Turns
  <2> QED BY <1>2, <2>1, <2>2 DEF MarksOK
<1>17. ASSUME NEW j \in Reactor, NEW u \in Open(j) PROVE log'[u].wf = log[u].wf
  <2>1. JobOK(j, u) /\ job[j][u].pc # "none" /\ u \in Position /\ j \in Consumer
    BY <1>0, <1>17 DEF JobsOK, Open, Consumer
  <2>2. u <= scanned[j] /\ scanned[j] <= Len(log) /\ scanned[j] \in Nat
    BY <1>0, <1>1, <2>1 DEF JobOK, JobsOK
  <2> QED BY <1>1, <1>9, <2>1, <2>2 DEF Position
<1>18. ASSUME NEW d \in Caller PROVE CallOK(d)'
  <2>1. CASE d = c
    BY <1>6, <1>7, <2>1 DEF CallOK, Turns
  <2>2. CASE d # c
    <3>1. CallOK(d) /\ call'[d] = call[d] /\ Wf(d) # Wf(c)
      BY <1>7, <2>2 DEF IInv, Turns, OneEach
    <3>2. \A j \in Consumer : Open(j)' = Open(j)
      BY <1>2 DEF Open
    <3>3. \A j \in Consumer : Passed(d, j) => Passed(d, j)'
      BY <1>2, <1>17, <3>1, <3>2 DEF Passed
    <3>4. ASSUME NEW q \in DOMAIN log', log'[q].wf = Wf(d) PROVE q \in DOMAIN log /\ log[q].wf = Wf(d)
      BY <1>8, <1>9, <3>1, <3>4
    <3>5. \A j \in Consumer, q \in DOMAIN log : Observed(j, q) => Observed(j, q)'
      BY <1>2, <3>2 DEF Observed
    <3>6. \A i \in DOMAIN Order : Order[i] \in Consumer
      BY SettleAssumption
    <3> QED BY <3>1, <3>3, <3>4, <3>5, <3>6 DEF CallOK
  <2> QED BY <2>1, <2>2
<1> QED
  BY <1>12, <1>13, <1>14, <1>16, <1>18 DEF IInv

\* A step of a caller that waits: only its own CallOK has to be shown.
LEMMA WaitingPreserves ==
    ASSUME IInv, OneEach, NEW c \in Caller, NEW k \in Calls, Turns(c, k),
           UNCHANGED <<log, consumers>>, pinned' \subseteq Workflow,
           call[c].pc # "idle", k.pc # "idle", k.pos = call[c].pos,
           \/ UNCHANGED mark /\ (Forgotten(c) => Forgotten(c)')
           \/ mark' = [mark EXCEPT ![Wf(c)] = 0] /\ Forgotten(c)',
           CallOK(c)'
    PROVE  IInv'
<1>0. TypeOK /\ RowsOK /\ JobsOK /\ MarksOK
  BY DEF IInv
<1>1. /\ mark \in [Workflow -> 0 .. MaxLog] /\ MaxLog \in Nat
      /\ \A d \in Caller : Wf(d) \in Workflow
      /\ call \in [Caller -> Calls] /\ DOMAIN log = 1 .. Len(log)
  BY <1>0, Types
<1>2. UNCHANGED <<log, scanned, job, failing, blips>>
  BY DEF consumers
<1>3. TypeOK'
  <2>1. mark' \in [Workflow -> 0 .. MaxLog]
    BY <1>1
  <2>2. Len(Order)' = Len(Order)
    OBVIOUS
  <2> QED BY <1>0, <1>2, <2>1 DEF TypeOK, Turns, Calls
<1>4. RowsOK'
  <2>1. \A d \in Caller : /\ call'[d].pos = call[d].pos
                          /\ call'[d].pc # "idle" <=> call[d].pc # "idle"
    BY DEF Turns
  <2> QED BY <1>0, <1>2, <2>1 DEF RowsOK
<1>5. JobsOK'
  BY <1>0, <1>2 DEF JobsOK, JobOK
<1>6. ASSUME NEW d \in Caller
      PROVE  /\ mark'[Wf(d)] # 0 => call'[d].pc # "idle" /\ call'[d].pos <= mark'[Wf(d)]
             /\ \A r \in Reactor, p \in DOMAIN log :
                   /\ job[r][p].pc \in {"bumped", "done"} /\ log[p].wf = Wf(d)
                   /\ ~Forgotten(d)'
                   => job[r][p].out <= mark'[Wf(d)]
  <2>1. CASE d = c
    <3>1. CASE UNCHANGED mark /\ (Forgotten(c) => Forgotten(c)')
      BY <1>0, <2>1, <3>1 DEF MarksOK, Turns
    <3>2. CASE mark' = [mark EXCEPT ![Wf(c)] = 0] /\ Forgotten(c)'
      BY <1>1, <2>1, <3>2
    <3> QED BY <3>1, <3>2
  <2>2. CASE d # c
    <3>1. Wf(d) # Wf(c)
      BY <2>2 DEF OneEach
    <3>2. mark'[Wf(d)] = mark[Wf(d)] /\ call'[d] = call[d]
      BY <1>1, <2>2, <3>1 DEF Turns
    <3> QED BY <1>0, <3>2 DEF MarksOK, Forgotten
  <2> QED BY <2>1, <2>2
<1>7. MarksOK'
  BY <1>2, <1>6 DEF MarksOK
<1>8. ASSUME NEW d \in Caller \ {c} PROVE CallOK(d)'
  <2>1. CallOK(d) /\ call'[d] = call[d]
    BY DEF IInv, Turns
  <2> QED BY <1>2, <2>1 DEF CallOK, Passed, Observed, Open
<1> QED
  BY <1>3, <1>4, <1>5, <1>7, <1>8 DEF IInv

\* When the mark has not moved since every consumer was asked, no row of the
\* workflow lies above it: the first one that did would be an output of a
\* trigger below it, which was done when its reactor was asked, so that the
\* mark was raised to that row.
LEMMA NothingAbove ==
    ASSUME IInv, OneEach, NEW c \in Caller, call[c].pc = "recheck",
           mark[Wf(c)] \in {0, call[c].hw}
    PROVE  \A p \in DOMAIN log : log[p].wf = Wf(c) => p <= call[c].hw
<1>0. TypeOK /\ RowsOK /\ JobsOK /\ MarksOK /\ CallOK(c)
  BY DEF IInv
<1>1. /\ DOMAIN log = 1 .. Len(log) /\ Len(log) \in Nat /\ DOMAIN log \subseteq Position
      /\ call \in [Caller -> Calls] /\ job \in [Reactor -> [Position -> Jobs]]
  BY <1>0, Types
<1>2. call[c].hw \in Nat /\ call[c].pos \in Nat /\ call[c].pos <= call[c].hw
  BY <1>0, <1>1 DEF Calls, CallOK
<1> DEFINE above == {p \in DOMAIN log : log[p].wf = Wf(c) /\ ~(p <= call[c].hw)}
           less == OpToRel(<, Nat)
<1>3. SUFFICES ASSUME above # {} PROVE FALSE
  OBVIOUS
<1>4. above \subseteq Nat
  BY <1>1
<1>5. IsWellFoundedOn(less, Nat)
  BY NatLessThanWellFounded
<1>6. PICK q \in above : \A u \in above : <<u, q>> \notin less
  <2> HIDE DEF above, less
  <2> QED BY <1>3, <1>4, <1>5, WFMin, Zenon
<1>7. q \in DOMAIN log /\ q \in Nat /\ log[q].wf = Wf(c) /\ call[c].hw < q
  BY <1>1, <1>2
<1>8. q # log[q].root
  <2>1. call[c].pos = log[q].root
    BY <1>0, <1>7, OwnRows
  <2> QED BY <1>2, <1>7, <2>1
<1>9. PICK r \in Reactor, p \in Position : job[r][p].out = q
  BY <1>0, <1>7, <1>8 DEF JobsOK
<1>10. /\ job[r][p].pc \in {"appended", "bumped", "done"} /\ p < q /\ log[p].wf = Wf(c)
       /\ p \in DOMAIN log
  <2>1. JobOK(r, p) /\ q # 0
    BY <1>0, <1>1, <1>7 DEF JobsOK
  <2>2. job[r][p].pc \in {"appended", "bumped", "done"} /\ p < q /\ log[p].wf = Wf(c)
    BY <1>7, <1>9, <2>1 DEF JobOK
  <2> QED BY <1>1, <1>7, <2>2 DEF Position
<1>11. p <= call[c].hw
  <2>1. SUFFICES ASSUME p \in above PROVE FALSE
    BY <1>10
  <2>2. <<p, q>> \in less
    BY <1>1, <1>7, <1>10 DEF OpToRel
  <2> QED BY <1>6, <2>1, <2>2
<1>12. job[r][p].pc = "done"
  <2>1. Passed(c, r) /\ r \in Consumer
    BY <1>0 DEF CallOK, Consumer
  <2> QED BY <1>10, <1>11, <2>1 DEF Passed, Open
<1>13. q <= mark[Wf(c)]
  BY <1>0, <1>9, <1>10, <1>12 DEF MarksOK, Forgotten
<1> QED
  BY <1>2, <1>7, <1>13

\* The step of a caller to pc, with a mark and a consumer to ask.
Goes(c, pc, hw, at) ==
    call' = [call EXCEPT ![c] = [call[c] EXCEPT !.pc = pc, !.hw = hw, !.at = at]]

LEMMA CallGoes ==
    ASSUME TypeOK, NEW c \in Caller, NEW pc \in CallPC, NEW hw \in 0 .. MaxLog,
           NEW at \in 0 .. Len(Order), Goes(c, pc, hw, at)
    PROVE  \E k \in Calls : /\ Turns(c, k) /\ k.pc = pc /\ k.hw = hw /\ k.at = at
                            /\ k.pos = call[c].pos /\ call'[c] = k
<1> DEFINE k == [call[c] EXCEPT !.pc = pc, !.hw = hw, !.at = at]
<1>1. k \in Calls /\ k.pc = pc /\ k.hw = hw /\ k.at = at /\ k.pos = call[c].pos
  BY Types DEF Calls
<1>2. call' = [call EXCEPT ![c] = k]
  BY DEF Goes
<1> HIDE DEF k
<1> QED
  BY <1>1, <1>2, CallTurns DEF Turns

LEMMA SettlingPreserves ==
    ASSUME IInv, OneEach, NEW c \in Caller, Settling(c) \/ DrainFails(c)
    PROVE  IInv'
<1>0. TypeOK /\ RowsOK /\ JobsOK /\ MarksOK /\ CallOK(c)
  BY DEF IInv
<1>1. /\ Len(Order) \in Nat \ {0} /\ DOMAIN Order = 1 .. Len(Order)
      /\ Wf(c) \in Workflow /\ call[c] \in Calls /\ call \in [Caller -> Calls]
      /\ mark \in [Workflow -> 0 .. MaxLog] /\ MaxLog \in Nat
      /\ pinned \subseteq Workflow
  BY <1>0, Types DEF TypeOK
<1>2. call[c].hw \in 0 .. MaxLog /\ call[c].pos \in 0 .. MaxLog /\ call[c].at \in 0 .. Len(Order)
  BY <1>1 DEF Calls
<1>3. /\ UNCHANGED <<log, consumers>> /\ pinned' \subseteq Workflow
      /\ UNCHANGED <<log, scanned, job>>
  BY <1>1 DEF Settling, Pin, ReadMark, Next1, NotYet, Probe, DrainFails, Recheck, Forget, Unpin,
     consumers
<1>4. /\ {"read", "wait", "probe", "recheck", "forget", "unpin", "settled", "wedged", "failed"}
            \subseteq CallPC
      /\ 1 \in 0 .. Len(Order) /\ DOMAIN Order \subseteq 0 .. Len(Order)
  BY <1>1 DEF CallPC
\* A step that says nothing new of the consumers.
<1>5. ASSUME UNCHANGED mark, call[c].pc \notin {"idle", "unpin", "settled", "forget"},
             NEW pc \in {"read", "probe", "wedged", "failed"},
             call' = [call EXCEPT ![c].pc = pc],
             pc = "probe" => call[c].pc = "wait"
      PROVE  IInv'
  <2>1. Goes(c, pc, call[c].hw, call[c].at)
    BY <1>1, <1>5 DEF Calls, Goes
  <2>2. PICK k \in Calls : /\ Turns(c, k) /\ k.pc = pc /\ k.hw = call[c].hw /\ k.at = call[c].at
                           /\ k.pos = call[c].pos /\ call'[c] = k
    BY <1>0, <1>2, <1>4, <2>1, CallGoes
  <2>3. CallOK(c)'
    BY <1>0, <1>3, <1>5, <2>2 DEF CallOK, Passed, Open
  <2>4. Forgotten(c) => Forgotten(c)'
    BY <1>5 DEF Forgotten
  <2> QED BY <1>3, <1>5, <2>2, <2>3, <2>4, WaitingPreserves
<1>6. CASE Pin(c)
  BY <1>5, <1>6 DEF Pin
<1>7. CASE NotYet(c)
  BY <1>5, <1>7 DEF NotYet
<1>14. CASE DrainFails(c)
  BY <1>5, <1>14 DEF DrainFails
<1>8. CASE ReadMark(c)
  <2>1. PICK hw \in 0 .. MaxLog :
          hw = IF mark[Wf(c)] = 0 THEN call[c].pos ELSE mark[Wf(c)]
    BY <1>1, <1>2
  <2>2. Goes(c, "wait", hw, 1)
    BY <1>1, <1>8, <2>1 DEF ReadMark, Calls, Goes
  <2>3. PICK k \in Calls : /\ Turns(c, k) /\ k.pc = "wait" /\ k.hw = hw /\ k.at = 1
                           /\ k.pos = call[c].pos /\ call'[c] = k
    BY <1>0, <1>2, <1>4, <2>2, CallGoes
  <2>4. call[c].pos <= hw
    BY <1>0, <1>2, <2>1 DEF MarksOK
  <2>5. 1 \in DOMAIN Order /\ \A i \in DOMAIN Order : ~(i < 1)
    BY <1>1
  <2>6. CallOK(c)'
    BY <2>3, <2>4, <2>5 DEF CallOK
  <2>7. UNCHANGED mark /\ call[c].pc = "read"
    BY <1>8 DEF ReadMark
  <2>8. Forgotten(c) => Forgotten(c)'
    BY <2>7 DEF Forgotten
  <2> QED BY <1>3, <2>3, <2>6, <2>7, <2>8, WaitingPreserves
<1>9. CASE Next1(c)
  <2>1. /\ call[c].pc = "wait" /\ call[c].at \in DOMAIN Order /\ call[c].at \in Nat \ {0}
        /\ call[c].pos <= call[c].hw
        /\ \A i \in DOMAIN Order : i < call[c].at => Passed(c, Order[i])
    BY <1>0, <1>1, <1>9 DEF CallOK, Next1
  <2>2. Passed(c, Order[call[c].at]) /\ UNCHANGED mark
    BY <1>9 DEF Next1, Asked, Drained, Passed
  <2>3. CASE call[c].at = Len(Order)
    <3>1. Goes(c, "recheck", call[c].hw, call[c].at)
      BY <1>1, <1>9, <2>3 DEF Next1, Calls, Goes
    <3>2. PICK k \in Calls : /\ Turns(c, k) /\ k.pc = "recheck" /\ k.hw = call[c].hw
                             /\ k.at = call[c].at /\ k.pos = call[c].pos /\ call'[c] = k
      BY <1>0, <1>2, <1>4, <3>1, CallGoes
    <3>3. ASSUME NEW j \in Consumer PROVE Passed(c, j)
      <4>1. PICK i \in DOMAIN Order : Order[i] = j
        BY SettleAssumption
      <4>2. i < call[c].at \/ i = call[c].at
        BY <1>1, <2>3
      <4> QED BY <2>1, <2>2, <4>1, <4>2
    <3>4. \A j \in Consumer : Passed(c, j)'
      BY <1>3, <3>2, <3>3 DEF Passed, Open
    <3>5. CallOK(c)'
      BY <2>1, <3>2, <3>4 DEF CallOK
    <3>6. Forgotten(c) => Forgotten(c)'
      BY <2>1 DEF Forgotten
    <3> QED BY <1>3, <2>1, <2>2, <3>2, <3>5, <3>6, WaitingPreserves
  <2>4. CASE call[c].at # Len(Order)
    <3>0. PICK at \in DOMAIN Order : at = call[c].at + 1
      BY <1>1, <2>1, <2>4
    <3>1. Goes(c, "wait", call[c].hw, at)
      BY <1>1, <1>9, <2>4, <3>0 DEF Next1, Calls, Goes
    <3>2. PICK k \in Calls : /\ Turns(c, k) /\ k.pc = "wait" /\ k.hw = call[c].hw
                             /\ k.at = at /\ k.pos = call[c].pos /\ call'[c] = k
      BY <1>0, <1>2, <1>4, <3>1, CallGoes
    <3>3. ASSUME NEW i \in DOMAIN Order, i < at PROVE Passed(c, Order[i])
      <4>1. i < call[c].at \/ i = call[c].at
        BY <1>1, <2>1, <3>0, <3>3
      <4> QED BY <2>1, <2>2, <4>1
    <3>4. \A i \in DOMAIN Order : i < at => Passed(c, Order[i])'
      BY <1>3, <3>2, <3>3 DEF Passed, Open
    <3>5. CallOK(c)'
      BY <2>1, <3>2, <3>4 DEF CallOK
    <3>6. Forgotten(c) => Forgotten(c)'
      BY <2>1 DEF Forgotten
    <3> QED BY <1>3, <2>1, <2>2, <3>2, <3>5, <3>6, WaitingPreserves
  <2> QED BY <2>3, <2>4
<1>10. CASE Probe(c)
  <2>1. call[c].pc = "probe" /\ UNCHANGED mark
    BY <1>10 DEF Probe
  <2>2. CASE call' = [call EXCEPT ![c].pc = "wedged"]
    BY <1>5, <2>1, <2>2
  <2>3. CASE call' = [call EXCEPT ![c].pc = "wait"]
    <3>1. Goes(c, "wait", call[c].hw, call[c].at)
      BY <1>1, <2>3 DEF Calls, Goes
    <3>2. PICK k \in Calls : /\ Turns(c, k) /\ k.pc = "wait" /\ k.hw = call[c].hw
                             /\ k.at = call[c].at /\ k.pos = call[c].pos /\ call'[c] = k
      BY <1>0, <1>2, <1>4, <3>1, CallGoes
    <3>3. CallOK(c)'
      BY <1>0, <1>3, <2>1, <3>2 DEF CallOK, Passed, Open
    <3>4. Forgotten(c) => Forgotten(c)'
      BY <2>1 DEF Forgotten
    <3> QED BY <1>3, <2>1, <3>2, <3>3, <3>4, WaitingPreserves
  <2> QED BY <1>10, <2>2, <2>3 DEF Probe
<1>11. CASE Recheck(c)
  <2>1. call[c].pc = "recheck" /\ UNCHANGED mark
    BY <1>11 DEF Recheck
  <2>2. CASE mark[Wf(c)] \notin {0, call[c].hw}
    BY <1>5, <1>11, <2>1, <2>2 DEF Recheck
  <2>3. CASE mark[Wf(c)] \in {0, call[c].hw}
    <3>1. Goes(c, "forget", call[c].hw, call[c].at)
      BY <1>1, <1>11, <2>3 DEF Recheck, Calls, Goes
    <3>2. PICK k \in Calls : /\ Turns(c, k) /\ k.pc = "forget" /\ k.hw = call[c].hw
                             /\ k.at = call[c].at /\ k.pos = call[c].pos /\ call'[c] = k
      BY <1>0, <1>2, <1>4, <3>1, CallGoes
    <3>3. ASSUME NEW p \in DOMAIN log, log[p].wf = Wf(c), NEW j \in Consumer
          PROVE  Observed(j, p)
      <4>1. p <= call[c].hw /\ Passed(c, j)
        BY <1>0, <2>1, <2>3, <3>3, NothingAbove DEF CallOK
      <4>2. p \in Nat /\ call[c].hw \in Nat /\ scanned[j] \in Nat
        BY <1>0, <1>2, Types
      <4> QED BY <3>3, <4>1, <4>2 DEF Passed, Observed
    <3>4. CallOK(c)'
      BY <1>3, <3>2, <3>3 DEF CallOK, Observed, Open
    <3>5. Forgotten(c) => Forgotten(c)'
      BY <2>1 DEF Forgotten
    <3> QED BY <1>3, <2>1, <3>2, <3>4, <3>5, WaitingPreserves
  <2> QED BY <2>2, <2>3
<1>12. CASE Forget(c) \/ Unpin(c)
  <2>1. PICK pc \in {"unpin", "settled"} :
          /\ call' = [call EXCEPT ![c].pc = pc]
          /\ call[c].pc \in {"forget", "unpin"}
          /\ mark' = [mark EXCEPT ![Wf(c)] = 0] \/ UNCHANGED mark
    BY <1>12 DEF Forget, Unpin
  <2>2. Goes(c, pc, call[c].hw, call[c].at)
    BY <1>1, <2>1 DEF Calls, Goes
  <2>3. PICK k \in Calls : /\ Turns(c, k) /\ k.pc = pc /\ k.hw = call[c].hw /\ k.at = call[c].at
                           /\ k.pos = call[c].pos /\ call'[c] = k
    BY <1>0, <1>2, <1>4, <2>2, CallGoes
  <2>4. CallOK(c)'
    BY <1>0, <1>3, <2>1, <2>3 DEF CallOK, Observed, Open
  <2>5. Forgotten(c)'
    BY <2>3 DEF Forgotten
  <2> QED BY <1>3, <2>1, <2>3, <2>4, <2>5, WaitingPreserves
<1> QED
  BY <1>6, <1>7, <1>8, <1>9, <1>10, <1>11, <1>12, <1>14 DEF Settling

-----------------------------------------------------------------------------
(* The theorems.                                                            *)

LEMMA InitIInv == Init => IInv
<1> SUFFICES ASSUME Init PROVE IInv
  OBVIOUS
<1>1. /\ MaxLog \in Nat /\ Len(Order) \in Nat /\ Wedge \in Nat /\ MaxBlips \in Nat
      /\ \A c \in Caller : Wf(c) \in Workflow
  BY SettleAssumption DEF Wf
<1>2. TypeOK
  BY <1>1 DEF Init, TypeOK, CallPC
<1>3. DOMAIN log = {} /\ Len(log) = 0
  BY DEF Init
<1>4. RowsOK
  BY <1>3 DEF Init, RowsOK
<1>5. JobsOK
  BY <1>3 DEF Init, JobsOK, JobOK
<1>6. MarksOK
  BY <1>1, <1>3 DEF Init, MarksOK
<1>7. \A c \in Caller : CallOK(c)
  BY DEF Init, CallOK
<1> QED
  BY <1>2, <1>4, <1>5, <1>6, <1>7 DEF IInv

LEMMA NextIInv ==
    ASSUME IInv, OneEach, Roomy, [Next]_vars
    PROVE  IInv'
<1>1. CASE UNCHANGED vars
  BY <1>1 DEF vars, IInv, TypeOK, RowsOK, JobsOK, JobOK, MarksOK, Forgotten, CallOK, Passed,
     Observed, Open
<1>2. CASE \E c \in Caller : Emit(c) \/ Settling(c) \/ DrainFails(c)
  BY <1>2, EmitPreserves, SettlingPreserves
<1>3. CASE \E r \in Reactor : Ingest(r) \/ ScanPast(r)
  BY <1>3, IngestPreserves
<1>4. CASE \E r \in Reactor, p \in Position : Work(r, p) \/ Retry(r, p)
  BY <1>4, AppendOutputPreserves, FinishPreserves DEF Work
<1>5. CASE \E k \in Projector : Project(k)
  BY <1>5, ProjectPreserves
<1> QED
  BY <1>1, <1>2, <1>3, <1>4, <1>5 DEF Next

\* Engine::settle: when it returns, every consumer is through with every event
\* of the caller's chain, in whatever order they were asked and whatever they
\* appended meanwhile.
THEOREM SettledIsDrained ==
    OneEach /\ Roomy => (Spec => []SettledMeansDrained)
<1> SUFFICES ASSUME OneEach, Roomy PROVE Spec => []SettledMeansDrained
  OBVIOUS
<1>1. Init => IInv
  BY InitIInv
<1>2. IInv /\ [Next]_vars => IInv'
  BY NextIInv
<1>3. IInv => SettledMeansDrained
  <2> SUFFICES ASSUME IInv, NEW c \in Caller, call[c].pc = "settled",
                      NEW p \in 1 .. Len(log), log[p].root = call[c].pos,
                      NEW k \in Consumer
               PROVE  Observed(k, p)
    BY DEF SettledMeansDrained
  <2>1. p \in DOMAIN log
    BY Types DEF IInv
  <2>2. log[p].wf = Wf(c)
    BY <2>1, OwnRows DEF IInv
  <2> QED BY <2>1, <2>2 DEF IInv, CallOK
<1> QED
  BY <1>1, <1>2, <1>3, PTL DEF Spec

\* SettleTracker::bump comes before the ack: what is acked is under the mark for
\* as long as the caller waits, so that its second reading cannot miss it.
THEOREM MarksCoverAcks ==
    OneEach /\ Roomy => (Spec => []MarkCoversAcked)
<1> SUFFICES ASSUME OneEach, Roomy PROVE Spec => []MarkCoversAcked
  OBVIOUS
<1>1. Init => IInv
  BY InitIInv
<1>2. IInv /\ [Next]_vars => IInv'
  BY NextIInv
<1>3. IInv => MarkCoversAcked
  <2> SUFFICES ASSUME IInv, NEW c \in Caller,
                      call[c].pc \in {"read", "wait", "probe", "recheck"},
                      NEW r \in Reactor, NEW p \in 1 .. Len(log),
                      job[r][p].pc = "done", log[p].root = call[c].pos
               PROVE  job[r][p].out <= mark[Wf(c)]
    <3>1. ASSUME IInv, NEW r \in Reactor, NEW p \in 1 .. Len(log), NEW c \in Caller
          PROVE  job[r][p].out \in Nat /\ mark[Wf(c)] \in Nat
      <4>1. /\ p \in Position /\ job \in [Reactor -> [Position -> Jobs]]
            /\ mark \in [Workflow -> 0 .. MaxLog] /\ Wf(c) \in Workflow /\ MaxLog \in Nat
        BY <3>1, Types DEF IInv
      <4>2. job[r][p] \in Jobs
        BY <4>1
      <4> QED BY <4>1, <4>2 DEF Jobs
    <3> QED BY <3>1 DEF MarkCoversAcked
  <2>1. p \in DOMAIN log
    BY Types DEF IInv
  <2>2. log[p].wf = Wf(c)
    BY <2>1, OwnRows DEF IInv
  <2>3. ~Forgotten(c) /\ MarksOK
    BY DEF Forgotten, IInv
  <2> QED BY <2>1, <2>2, <2>3 DEF MarksOK
<1> QED
  BY <1>1, <1>2, <1>3, PTL DEF Spec

LEMMA MarkDomain ==
    ASSUME [Next]_vars
    PROVE  DOMAIN mark' = DOMAIN mark
<1>1. ASSUME NEW c \in Caller, Emit(c) \/ Settling(c) \/ DrainFails(c)
      PROVE  DOMAIN mark' = DOMAIN mark
  BY <1>1 DEF Emit, Settling, Pin, ReadMark, Next1, NotYet, Probe, DrainFails, Recheck, Forget,
     Unpin, consumers
<1>2. ASSUME NEW r \in Reactor, NEW p \in Position, Work(r, p) \/ Retry(r, p) PROVE DOMAIN mark' = DOMAIN mark
  BY <1>2 DEF Work, AppendOutput, Bump, BumpTo, Ack, Retry
<1>3. ASSUME NEW r \in Reactor, Ingest(r) \/ ScanPast(r) PROVE DOMAIN mark' = DOMAIN mark
  BY <1>3 DEF Ingest, ScanPast
<1>4. ASSUME NEW j \in Projector, Project(j) PROVE DOMAIN mark' = DOMAIN mark
  BY <1>4 DEF Project
<1> QED
  BY <1>1, <1>2, <1>3, <1>4 DEF Next, vars

LEMMA PinStep ==
    ASSUME PinInv, OneEach, [Next]_vars
    PROVE  PinInv'
<1>1. ASSUME NEW c \in Caller, Settling(c) \/ DrainFails(c)
      PROVE  PinInv'
  <2>1. PICK pc : /\ DOMAIN call' = Caller /\ call'[c].pc = pc
                  /\ \A d \in Caller \ {c} : call'[d] = call[d]
                  /\ pc \in {"read", "wait", "probe", "recheck", "forget", "unpin"} =>
                        Wf(c) \in pinned'
                  /\ pinned \ {Wf(c)} \subseteq pinned'
    <3>1. CASE Pin(c)
      BY <3>1 DEF Pin, PinInv
    <3>2. CASE ReadMark(c) \/ Next1(c) \/ NotYet(c) \/ Recheck(c) \/ Forget(c)
      <4>1. /\ UNCHANGED pinned /\ Wf(c) \in pinned
        BY <3>2 DEF ReadMark, Next1, NotYet, Recheck, Forget, PinInv
      <4>2. DOMAIN call' = Caller /\ \A d \in Caller \ {c} : call'[d] = call[d]
        BY <3>2 DEF ReadMark, Next1, NotYet, Recheck, Forget, PinInv
      <4> QED BY <4>1, <4>2
    <3>3. CASE Probe(c)
      <4>1. DOMAIN call' = Caller /\ \A d \in Caller \ {c} : call'[d] = call[d]
        BY <3>3 DEF Probe, PinInv
      <4>2. CASE call' = [call EXCEPT ![c].pc = "wedged"] /\ pinned' = pinned \ {Wf(c)}
        <5>1. call'[c].pc = "wedged"
          BY <4>2 DEF PinInv
        <5> QED BY <4>1, <4>2, <5>1
      <4>3. CASE UNCHANGED pinned
        BY <3>3, <4>1, <4>3 DEF Probe, PinInv
      <4> QED BY <3>3, <4>2, <4>3 DEF Probe
    <3>5. CASE DrainFails(c)
      <4>1. DOMAIN call' = Caller /\ \A d \in Caller \ {c} : call'[d] = call[d]
        BY <3>5 DEF DrainFails, PinInv
      <4>2. call'[c].pc = "failed" /\ pinned' = pinned \ {Wf(c)}
        BY <3>5 DEF DrainFails, PinInv
      <4> QED BY <4>1, <4>2
    <3>4. CASE Unpin(c)
      <4>1. DOMAIN call' = Caller /\ \A d \in Caller \ {c} : call'[d] = call[d]
        BY <3>4 DEF Unpin, PinInv
      <4>2. call'[c].pc = "settled" /\ pinned' = pinned \ {Wf(c)}
        BY <3>4 DEF Unpin, PinInv
      <4> QED BY <4>1, <4>2
    <3> QED BY <1>1, <3>1, <3>2, <3>3, <3>4, <3>5 DEF Settling
  <2>2. ASSUME NEW d \in Caller,
               call'[d].pc \in {"read", "wait", "probe", "recheck", "forget", "unpin"}
        PROVE  Wf(d) \in pinned'
    <3>1. CASE d = c
      BY <2>1, <2>2, <3>1
    <3>2. CASE d # c
      <4>1. Wf(d) \in pinned /\ Wf(d) # Wf(c)
        BY <2>1, <2>2, <3>2 DEF PinInv, OneEach
      <4> QED BY <2>1, <4>1
    <3> QED BY <3>1, <3>2
  <2>3. DOMAIN mark' = Workflow
    BY MarkDomain DEF PinInv
  <2> QED BY <2>1, <2>2, <2>3 DEF PinInv
<1>2. ASSUME NEW c \in Caller, Emit(c)
      PROVE  PinInv'
  <2>1. /\ DOMAIN call' = Caller /\ call'[c].pc \in {"pin", "emitted"}
        /\ \A d \in Caller \ {c} : call'[d] = call[d]
    BY <1>2 DEF Emit, PinInv
  <2> QED BY <1>2, <2>1 DEF Emit, PinInv
<1>3. DOMAIN mark' = Workflow
  BY MarkDomain DEF PinInv
<1>4. CASE UNCHANGED <<call, pinned>>
  BY <1>3, <1>4 DEF PinInv
<1> QED
  BY <1>1, <1>2, <1>4, MarkDomain DEF Next, Ingest, ScanPast, Work, AppendOutput, Bump, Ack, Retry,
     Project, vars

\* SettleTracker::bump: a full table gives up the mark of a workflow nobody is
\* settling, whatever its capacity.
THEOREM SettlingIsSpared == OneEach => (Spec => EvictionSparesSettling)
<1> SUFFICES ASSUME OneEach PROVE Spec => EvictionSparesSettling
  OBVIOUS
<1> DEFINE Spared == \A v, w \in Workflow :
          mark[w] = 0 /\ mark'[w] # 0 /\ mark[v] # 0 /\ mark'[v] = 0 => ~InFlight(v)
<1>1. Init => PinInv
  BY DEF Init, PinInv
<1>2. PinInv /\ [Next]_vars => PinInv'
  BY PinStep
<1>3. PinInv /\ [Next]_vars => Spared
  <2> SUFFICES ASSUME PinInv, [Next]_vars, NEW v \in Workflow, NEW w \in Workflow,
                      mark[w] = 0, mark'[w] # 0, mark[v] # 0, mark'[v] = 0
               PROVE  ~InFlight(v)
    OBVIOUS
  <2>1. v \notin pinned
    <3>1. CASE \E r \in Reactor, p \in Position : Bump(r, p)
      <4>1. PICK r \in Reactor, p \in Position : BumpTo(log[p].wf, job[r][p].out)
        BY <3>1 DEF Bump
      <4>2. ASSUME NEW x \in Evictable,
                   mark' = [mark EXCEPT ![x] = 0, ![log[p].wf] = job[r][p].out]
            PROVE  v \notin pinned
        <5>1. x \in Workflow /\ mark[x] # 0 /\ x \notin pinned
          BY DEF Evictable, Tracked
        <5>2. \A u \in Workflow : u # x /\ u # log[p].wf => mark'[u] = mark[u]
          BY <4>2 DEF PinInv
        <5>3. w = log[p].wf
          BY <5>1, <5>2, <4>2 DEF PinInv
        <5>4. v = x
          BY <5>2, <5>3
        <5> QED BY <5>1, <5>4
      <4>3. CASE \E y, x : mark' = [mark EXCEPT ![y] = x] /\ y = log[p].wf
        BY <4>3
      <4> QED BY <4>1, <4>2, <4>3 DEF BumpTo
    <3>2. CASE \E c \in Caller : Forget(c)
      BY <3>2 DEF Forget
    <3>3. CASE UNCHANGED mark
      BY <3>3
    <3> QED BY <3>1, <3>2, <3>3 DEF Next, Emit, Settling, Pin, ReadMark, Next1, NotYet, Probe,
       DrainFails, Recheck, Unpin, Ingest, ScanPast, Work, AppendOutput, Ack, Retry, Project, vars
  <2> QED BY <2>1 DEF InFlight, PinInv
<1> QED
  BY <1>1, <1>2, <1>3, PTL DEF Spec, EvictionSparesSettling
=============================================================================
