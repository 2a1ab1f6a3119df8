---------------------------- MODULE DispatcherProofs ----------------------------
(***************************************************************************)
(* For every log, partition and set of probes: the dispatcher's cursor     *)
(* passes no trigger that is not through, its drain answer is true, and    *)
(* while no worker is killed a partition's triggers are processed one at a *)
(* time, in log order, with none left behind.                              *)
(*                                                                         *)
(* Three groups of facts are inductive.  The cursors: what has left the    *)
(* window, or lies under the floor, the checkpoint or a floor on its way   *)
(* to the store, is through.  The hands: a live worker is the one its      *)
(* partition's handle names, and what it holds is waiting, in log order    *)
(* and not completed yet, so a completion is of a waiting trigger and of   *)
(* no other's.  The count: a workflow's entry in the window is the number  *)
(* of its waiting triggers.                                                *)
(***************************************************************************)
EXTENDS Dispatcher, FiniteSetTheorems, WellFoundedInduction,
        TLAPS

-----------------------------------------------------------------------------
(* The inductive invariant.                                                 *)

\* Some worker has completed p, or p may be skipped.
Through(p) == p \in done \/ Skippable(p)

Waiting(p) == pending[p] = "waiting"

CursorsOrdered ==
    /\ floor <= ingest /\ ingest <= tip
    /\ persisted <= checkpoint /\ checkpoint <= tip
    /\ fence \subseteq Markers

\* What is scanned and not in the window is through; the window lies above the
\* floor; what it marks as completed is.
WindowSound ==
    \A p \in Triggers :
        /\ pending[p] = "none" /\ p <= ingest => Through(p)
        /\ pending[p] # "none" => started /\ floor < p /\ p <= ingest
        /\ pending[p] \in Outcome => p \in done

\* A floor on its way to the store covers only what is through, and the memos
\* to drop lie under it; they are dropped when it has arrived.
WritesSound ==
    \A t \in Task :
        /\ task[t].pc \in {"persist", "note", "gc"} =>
              /\ task[t].want <= tip
              /\ \A p \in Triggers : p <= task[t].want => Through(p)
              /\ \A p \in task[t].gc : p <= task[t].want
        /\ task[t].pc \in {"note", "gc"} => task[t].want <= checkpoint
        /\ task[t].pc = "ingest" => task[t].hi <= tip

SupervisorStarted == task[Supervisor].pc # "idle" => started

\* A completion is of a waiting trigger some worker completed ...
SentSound(sent) == \A c \in sent : Waiting(c.pos) /\ c.pos \in done

\* ... and the only one of it.
OnePerTrigger(sent) == \A c, d \in sent : c.pos = d.pos => c = d

Apart(sent, other) == \A c \in sent, d \in other : c.pos # d.pos

CompletionsSound ==
    /\ SentSound(comps) /\ OnePerTrigger(comps)
    /\ \A t \in Task :
          /\ SentSound(task[t].acks) /\ OnePerTrigger(task[t].acks)
          /\ Apart(comps, task[t].acks)
          /\ task[t].acks # {} => task[t].pc = "apply"
    /\ \A t, u \in Task : t # u => Apart(task[t].acks, task[u].acks)

\* p is in the hands of a worker of g's partition and of nobody else.
HeldFor(g, p) == Waiting(p) /\ p \notin Completing /\ PartOf[p] = PartOf[g]

\* A live worker is its partition's, and holds triggers in log order.
HandSound(g) ==
    Alive(g) =>
        /\ handle[PartOf[g]] = g
        /\ \A i \in DOMAIN queue[g] : HeldFor(g, queue[g][i])
        /\ \A i, j \in DOMAIN queue[g] : i < j => queue[g][i] < queue[g][j]
        /\ worker[g].pc = "busy" =>
              /\ worker[g].cur \in Triggers /\ HeldFor(g, worker[g].cur)
              /\ \A i \in DOMAIN queue[g] : worker[g].cur < queue[g][i]

HandsSound ==
    /\ \A g \in Gen : HandSound(g)
    /\ \A k \in Partition : handle[k] # 0 => PartOf[handle[k]] = k

WaitingOf(w) == {p \in Triggers : Waiting(p) /\ WfOf[p] = w}

\* DispatchState.wf_pending counts the window's waiting triggers.
CountSound == \A w \in Workflow : wfPending[w] = Cardinality(WaitingOf(w))

IInv ==
    /\ TypeOK /\ CursorsOrdered /\ WindowSound /\ FloorSafe /\ WritesSound
    /\ SupervisorStarted /\ CompletionsSound /\ HandsSound /\ CountSound /\ DrainedSound

\* While no worker was killed: what is waiting is completed or held; and whoever
\* has looked into a partition's channel holds all that waits there.
HoldersSound ==
    deaths = 0 => \A p \in Triggers : Waiting(p) /\ p \notin Completing =>
        /\ ~stopped => \E g \in Gen : Alive(g) /\ p \in Held(g)
        /\ \A g \in Gen : worker[g].pc \in {"empty", "busy"} /\ PartOf[g] = PartOf[p]
              => p \in Held(g)

-----------------------------------------------------------------------------
(* The constants and the records.                                           *)

TaskRec == [pc : {"idle", "reap", "apply", "floor", "persist", "note", "gc", "noted",
                  "read", "ingest", "yes", "no"},
            tail : BOOLEAN, acks : SUBSET Completion, hi : 0 .. MaxLog,
            want : 0 .. MaxLog, gc : SUBSET Triggers,
            wf : Workflow \cup {NoWf}, hw : 0 .. MaxLog]

WorkerRec == [pc : {"none", "loop", "empty", "busy"}, cur : Triggers \cup {0},
              used : BOOLEAN]

LEMMA Constants ==
    /\ MaxLog \in Nat /\ Triggers \subseteq Position /\ Triggers \subseteq Nat \ {0}
    /\ PartOf \in [Triggers -> Partition] /\ WfOf \in [Triggers -> Workflow]
    /\ Supervisor \in Task /\ Prober \subseteq Task /\ Supervisor \notin Prober
    /\ IdleTask \in TaskRec /\ IdleWorker \in WorkerRec
    /\ Batch \in Nat /\ HasStore \in BOOLEAN
  BY DispatcherAssumption DEF Task, Position, IdleTask, IdleWorker, TaskRec, WorkerRec

-----------------------------------------------------------------------------
(* Which steps move what.                                                   *)

LEMMA WhoMoves ==
    ASSUME [Next]_vars
    PROVE  /\ tip' = tip \/ Arrive
           /\ checkpoint' = checkpoint \/ \E t \in Task : Persist(t) \/ PersistFails(t)
           /\ done' = done \/ \E g \in Gen : Complete(g)
           /\ memo' = memo \/ (\E g \in Gen : Memoize(g)) \/ \E t \in Task : CollectMemos(t)
           /\ \/ UNCHANGED <<started, persisted>> \/ Step \/ Crash
              \/ \E t \in Task : Note(t)
           /\ \/ ingest' = ingest \/ Step \/ Crash
              \/ \E p \in Position : IngestTrigger(p) \/ IngestGated(p) \/ IngestOther(p)
           /\ floor' = floor \/ Step \/ Crash \/ \E t \in Task : MoveFloor(t)
           /\ \/ pending' = pending \/ Crash
              \/ \E t \in Task : ApplyAcks(t) \/ MoveFloor(t)
              \/ \E p \in Position : IngestTrigger(p)
           /\ \/ wfPending' = wfPending \/ Crash
              \/ \E t \in Task : ApplyAcks(t)
              \/ \E p \in Position : IngestTrigger(p)
           /\ locked' = locked \/ ReadBatch \/ EndBatch \/ Crash
           /\ stopped' = stopped \/ Halt \/ Crash
           /\ \/ fence' = fence \/ Arrive \/ Crash
              \/ \E p \in Position : IngestOther(p)
           /\ \/ UNCHANGED <<handle, queue, worker>> \/ Crash
              \/ \E p \in Position : IngestTrigger(p)
              \/ \E g \in Gen : \/ TryRecv(g) \/ Deregister(g) \/ Complete(g) \/ Memoize(g)
                               \/ Abandon(g) \/ Die(g)
           /\ \/ comps' = comps \/ Crash
              \/ \E t \in Task : DrainComps(t)
              \/ \E g \in Gen : Complete(g)
           /\ \/ task' = task \/ Crash \/ Step \/ Noted \/ ReadBatch \/ EndBatch
              \/ \E t \in Task : \/ DrainComps(t) \/ ApplyAcks(t) \/ MoveFloor(t) \/ Persist(t)
                                \/ PersistFails(t) \/ Note(t) \/ CollectMemos(t)
              \/ \E t \in Prober : Probe(t) \/ Answer(t) \/ Again(t)
           /\ \/ UNCHANGED budgets \/ Crash
              \/ \E t \in Task : PersistFails(t)
              \/ \E g \in Gen : Die(g)
<1> USE DEF vars, durable, dispatch, workers, budgets
<1>0. \/ Arrive \/ Halt \/ Crash \/ Step \/ Noted \/ ReadBatch \/ EndBatch \/ UNCHANGED vars
      \/ \E t \in Task : Reaping(t) \/ PersistFails(t)
      \/ \E p \in Position : IngestTrigger(p) \/ IngestGated(p) \/ IngestOther(p)
      \/ \E t \in Prober : Probe(t) \/ Answer(t) \/ Again(t)
      \/ \E g \in Gen : Working(g) \/ Memoize(g) \/ Abandon(g) \/ Die(g)
  BY Constants DEF Next, Supervise
<1>1. tip' = tip \/ Arrive
  BY <1>0, ZenonT(60) DEF Reaping, Working, DrainComps, ApplyAcks, MoveFloor, Persist, PersistFails,
     Note, CollectMemos, Step, Noted, ReadBatch, EndBatch, IngestTrigger, IngestGated,
     IngestOther, Probe, Answer, Again, TryRecv, Deregister, Complete, Memoize, Abandon,
     Die, Halt, Crash
<1>2. checkpoint' = checkpoint \/ \E t \in Task : Persist(t) \/ PersistFails(t)
  BY <1>0, ZenonT(60) DEF Reaping, Working, Arrive, DrainComps, ApplyAcks, MoveFloor, Note,
     CollectMemos, Step, Noted, ReadBatch, EndBatch, IngestTrigger, IngestGated,
     IngestOther, Probe, Answer, Again, TryRecv, Deregister, Complete, Memoize, Abandon,
     Die, Halt, Crash
<1>3. done' = done \/ \E g \in Gen : Complete(g)
  BY <1>0, ZenonT(60) DEF Reaping, Working, Arrive, DrainComps, ApplyAcks, MoveFloor, Persist,
     PersistFails, Note, CollectMemos, Step, Noted, ReadBatch, EndBatch, IngestTrigger,
     IngestGated, IngestOther, Probe, Answer, Again, TryRecv, Deregister, Memoize, Abandon,
     Die, Halt, Crash
<1>4. memo' = memo \/ (\E g \in Gen : Memoize(g)) \/ \E t \in Task : CollectMemos(t)
  BY <1>0, ZenonT(60) DEF Reaping, Working, Arrive, DrainComps, ApplyAcks, MoveFloor, Persist,
     PersistFails, Note, Step, Noted, ReadBatch, EndBatch, IngestTrigger, IngestGated,
     IngestOther, Probe, Answer, Again, TryRecv, Deregister, Complete, Abandon, Die, Halt,
     Crash
<1>5. \/ UNCHANGED <<started, persisted>> \/ Step \/ Crash
      \/ \E t \in Task : Note(t)
  BY <1>0, ZenonT(60) DEF Reaping, Working, Arrive, DrainComps, ApplyAcks, MoveFloor, Persist,
     PersistFails, CollectMemos, Noted, ReadBatch, EndBatch, IngestTrigger, IngestGated,
     IngestOther, Probe, Answer, Again, TryRecv, Deregister, Complete, Memoize, Abandon,
     Die, Halt
<1>6. \/ ingest' = ingest \/ Step \/ Crash
      \/ \E p \in Position : IngestTrigger(p) \/ IngestGated(p) \/ IngestOther(p)
  BY <1>0, ZenonT(60) DEF Reaping, Working, Arrive, DrainComps, ApplyAcks, MoveFloor, Persist,
     PersistFails, Note, CollectMemos, Noted, ReadBatch, EndBatch, Probe, Answer, Again,
     TryRecv, Deregister, Complete, Memoize, Abandon, Die, Halt
<1>7. floor' = floor \/ Step \/ Crash \/ \E t \in Task : MoveFloor(t)
  BY <1>0, ZenonT(60) DEF Reaping, Working, Arrive, DrainComps, ApplyAcks, Persist, PersistFails, Note,
     CollectMemos, Noted, ReadBatch, EndBatch, IngestTrigger, IngestGated, IngestOther,
     Probe, Answer, Again, TryRecv, Deregister, Complete, Memoize, Abandon, Die, Halt
<1>8. \/ pending' = pending \/ Crash
      \/ \E t \in Task : ApplyAcks(t) \/ MoveFloor(t)
      \/ \E p \in Position : IngestTrigger(p)
  BY <1>0, ZenonT(60) DEF Reaping, Working, Arrive, DrainComps, Persist, PersistFails, Note,
     CollectMemos, Step, Noted, ReadBatch, EndBatch, IngestGated, IngestOther, Probe,
     Answer, Again, TryRecv, Deregister, Complete, Memoize, Abandon, Die, Halt
<1>9. \/ wfPending' = wfPending \/ Crash
      \/ \E t \in Task : ApplyAcks(t)
      \/ \E p \in Position : IngestTrigger(p)
  BY <1>0, ZenonT(60) DEF Reaping, Working, Arrive, DrainComps, MoveFloor, Persist, PersistFails, Note,
     CollectMemos, Step, Noted, ReadBatch, EndBatch, IngestGated, IngestOther, Probe,
     Answer, Again, TryRecv, Deregister, Complete, Memoize, Abandon, Die, Halt
<1>10. locked' = locked \/ ReadBatch \/ EndBatch \/ Crash
  BY <1>0, ZenonT(60) DEF Reaping, Working, Arrive, DrainComps, ApplyAcks, MoveFloor, Persist,
     PersistFails, Note, CollectMemos, Step, Noted, IngestTrigger, IngestGated, IngestOther,
     Probe, Answer, Again, TryRecv, Deregister, Complete, Memoize, Abandon, Die, Halt
<1>11. stopped' = stopped \/ Halt \/ Crash
  BY <1>0, ZenonT(60) DEF Reaping, Working, Arrive, DrainComps, ApplyAcks, MoveFloor, Persist,
     PersistFails, Note, CollectMemos, Step, Noted, ReadBatch, EndBatch, IngestTrigger,
     IngestGated, IngestOther, Probe, Answer, Again, TryRecv, Deregister, Complete, Memoize,
     Abandon, Die
<1>12. \/ fence' = fence \/ Arrive \/ Crash
       \/ \E p \in Position : IngestOther(p)
  BY <1>0, ZenonT(60) DEF Reaping, Working, DrainComps, ApplyAcks, MoveFloor, Persist, PersistFails,
     Note, CollectMemos, Step, Noted, ReadBatch, EndBatch, IngestTrigger, IngestGated,
     Probe, Answer, Again, TryRecv, Deregister, Complete, Memoize, Abandon, Die, Halt
<1>13. \/ UNCHANGED <<handle, queue, worker>> \/ Crash
       \/ \E p \in Position : IngestTrigger(p)
       \/ \E g \in Gen : \/ TryRecv(g) \/ Deregister(g) \/ Complete(g) \/ Memoize(g)
                        \/ Abandon(g) \/ Die(g)
  BY <1>0, ZenonT(60) DEF Reaping, Working, Arrive, DrainComps, ApplyAcks, MoveFloor, Persist,
     PersistFails, Note, CollectMemos, Step, Noted, ReadBatch, EndBatch, IngestGated,
     IngestOther, Probe, Answer, Again, Halt
<1>14. \/ comps' = comps \/ Crash
       \/ \E t \in Task : DrainComps(t)
       \/ \E g \in Gen : Complete(g)
  BY <1>0, ZenonT(60) DEF Reaping, Working, Arrive, ApplyAcks, MoveFloor, Persist, PersistFails, Note,
     CollectMemos, Step, Noted, ReadBatch, EndBatch, IngestTrigger, IngestGated,
     IngestOther, Probe, Answer, Again, TryRecv, Deregister, Memoize, Abandon, Die, Halt
<1>15. \/ task' = task \/ Crash \/ Step \/ Noted \/ ReadBatch \/ EndBatch
       \/ \E t \in Task : \/ DrainComps(t) \/ ApplyAcks(t) \/ MoveFloor(t) \/ Persist(t)
                         \/ PersistFails(t) \/ Note(t) \/ CollectMemos(t)
       \/ \E t \in Prober : Probe(t) \/ Answer(t) \/ Again(t)
  BY <1>0 DEF Reaping, Working, Arrive, IngestTrigger, IngestGated, IngestOther, TryRecv,
     Deregister, Complete, Memoize, Abandon, Die, Halt
<1>16. \/ UNCHANGED budgets \/ Crash
       \/ \E t \in Task : PersistFails(t)
       \/ \E g \in Gen : Die(g)
  <2>1. CASE \/ Arrive \/ Halt \/ Step \/ Noted \/ ReadBatch \/ EndBatch \/ UNCHANGED vars
             \/ \E p \in Position : IngestTrigger(p) \/ IngestGated(p) \/ IngestOther(p)
    BY <2>1 DEF Arrive, Step, Noted, ReadBatch, EndBatch, IngestTrigger, IngestGated,
       IngestOther, Halt
  <2>2. CASE \E t \in Task : Reaping(t)
    BY <2>2 DEF Reaping, DrainComps, ApplyAcks, MoveFloor, Persist, Note, CollectMemos
  <2>3. CASE \E t \in Prober : Probe(t) \/ Answer(t) \/ Again(t)
    BY <2>3 DEF Probe, Answer, Again
  <2>4. CASE \E g \in Gen : Working(g) \/ Memoize(g) \/ Abandon(g)
    BY <2>4 DEF Working, TryRecv, Deregister, Complete, Memoize, Abandon
  <2> QED
    BY <1>0, <2>1, <2>2, <2>3, <2>4
<1> QED
  BY <1>1, <1>2, <1>3, <1>4, <1>5, <1>6, <1>7, <1>8, <1>9, <1>10, <1>11, <1>12, <1>13,
     <1>14, <1>15, <1>16

-----------------------------------------------------------------------------
(* Types, one group of variables at a time.                                 *)

NumbersOK ==
    /\ tip \in 0 .. MaxLog /\ checkpoint \in 0 .. MaxLog
    /\ ingest \in 0 .. MaxLog /\ floor \in 0 .. MaxLog /\ persisted \in 0 .. MaxLog
    /\ started \in BOOLEAN /\ locked \in BOOLEAN /\ stopped \in BOOLEAN

BudgetsOK == crashes \in 0 .. MaxCrashes /\ faults \in 0 .. MaxFaults /\ deaths \in 0 .. MaxDeaths

SetsOK == done \subseteq Triggers /\ memo \subseteq Triggers /\ fence \subseteq Workflow
            /\ comps \subseteq Completion

WindowOK == /\ pending \in [Triggers -> {"none", "waiting"} \cup Outcome]
            /\ handle \in [Partition -> Triggers \cup {0}]

QueueOK == queue \in [Gen -> Seq(Triggers)]

WorkerOK == worker \in [Gen -> WorkerRec]

TaskOK == task \in [Task -> TaskRec]

Kinds == NumbersOK /\ BudgetsOK /\ SetsOK /\ WindowOK /\ QueueOK /\ WorkerOK /\ TaskOK

LEMMA KindsAreTypes == TypeOK <=> Kinds /\ wfPending \in [Workflow -> Nat]
  BY DEF TypeOK, Kinds, NumbersOK, BudgetsOK, SetsOK, WindowOK, QueueOK, WorkerOK, TaskOK,
         TaskRec, WorkerRec

TaskPcs == {"idle", "reap", "apply", "floor", "persist", "note", "gc", "noted", "read",
            "ingest", "yes", "no"}

\* A task that goes on to another point stays a task.
LEMMA Goes ==
    ASSUME task \in [Task -> TaskRec], NEW t \in Task, NEW pc \in TaskPcs, Goto(t, pc)
    PROVE  TaskOK'
<1>1. task[t] \in TaskRec
  OBVIOUS
<1>2. [task[t] EXCEPT !.pc = pc] \in TaskRec
  BY <1>1 DEF TaskRec, TaskPcs
<1>3. task' = [task EXCEPT ![t] = [task[t] EXCEPT !.pc = pc]]
  BY DEF Goto
<1> QED
  BY <1>2, <1>3 DEF TaskOK

LEMMA TaskKind ==
    ASSUME Kinds, CursorsOrdered, [Next]_vars
    PROVE  TaskOK'
<1>0. /\ task \in [Task -> TaskRec] /\ NumbersOK /\ SetsOK
      /\ MaxLog \in Nat /\ Triggers \subseteq Nat
      /\ Supervisor \in Task /\ Prober \subseteq Task /\ IdleTask \in TaskRec
  BY Constants DEF Kinds, TaskOK
<1> USE DEF TaskOK
<1>1. ASSUME task' = [task EXCEPT ![Supervisor].pc = "floor", ![Supervisor].tail = TRUE]
       PROVE  TaskOK'
  <2>0. task[Supervisor] \in TaskRec
    BY <1>0
  <2>1. [task[Supervisor] EXCEPT !.pc = "floor", !.tail = TRUE] \in TaskRec
    BY <2>0 DEF TaskRec
  <2>2. task' = [task EXCEPT ![Supervisor] =
                    [task[Supervisor] EXCEPT !.pc = "floor", !.tail = TRUE]]
    BY <1>0, <1>1
  <2> QED
    BY <1>0, <2>1, <2>2
<1>2. ASSUME NEW t \in Task, DrainComps(t) PROVE TaskOK'
  <2>1. task[t] \in TaskRec /\ comps \subseteq Completion
    BY <1>0 DEF SetsOK
  <2>2. [task[t] EXCEPT !.pc = "apply", !.acks = comps] \in TaskRec
    BY <2>1 DEF TaskRec
  <2>3. task' = [task EXCEPT ![t] = [task[t] EXCEPT !.pc = "apply", !.acks = comps]]
    BY <1>0, <1>2 DEF DrainComps
  <2> QED
    BY <1>0, <2>2, <2>3
<1>3. ASSUME NEW t \in Task, ApplyAcks(t) PROVE TaskOK'
  <2>1. task[t] \in TaskRec /\ comps \subseteq Completion
    BY <1>0 DEF SetsOK
  <2>2. [task[t] EXCEPT !.pc = "floor", !.acks = {}] \in TaskRec
    BY <2>1 DEF TaskRec
  <2>3. task' = [task EXCEPT ![t] = [task[t] EXCEPT !.pc = "floor", !.acks = {}]]
    BY <1>0, <1>3 DEF ApplyAcks
  <2> QED
    BY <1>0, <2>2, <2>3
<1>4. ASSUME NEW t \in Task, MoveFloor(t) PROVE TaskOK'
  BY <1>0, <1>4 DEF MoveFloor, TaskRec
<1>5. ASSUME NEW t \in Task, Persist(t) PROVE TaskOK'
  BY <1>0, <1>5, Goes DEF Persist, TaskPcs
<1>6. ASSUME NEW t \in Task, PersistFails(t) PROVE TaskOK'
  BY <1>0, <1>6 DEF PersistFails
<1>7. ASSUME NEW t \in Task, Note(t) PROVE TaskOK'
  BY <1>0, <1>7, Goes DEF Note, TaskPcs
<1>8. ASSUME NEW t \in Task, CollectMemos(t) PROVE TaskOK'
  <2>1. task[t] \in TaskRec /\ comps \subseteq Completion
    BY <1>0 DEF SetsOK
  <2>2. [task[t] EXCEPT !.pc = "noted", !.gc = {}] \in TaskRec
    BY <2>1 DEF TaskRec
  <2>3. task' = [task EXCEPT ![t] = [task[t] EXCEPT !.pc = "noted", !.gc = {}]]
    BY <1>0, <1>8 DEF CollectMemos
  <2> QED
    BY <1>0, <2>2, <2>3
<1>9. CASE Step
  BY <1>0, <1>9, Goes DEF Step, TaskPcs
<1>10. CASE Noted
  BY <1>0, <1>10 DEF Noted, IdleTask, TaskRec
<1>11. CASE ReadBatch
  <2>0. task[Supervisor] \in TaskRec
    BY <1>0
  <2>1. ASSUME NEW n \in 0 .. MaxLog,
               task' = [task EXCEPT ![Supervisor].pc = "ingest", ![Supervisor].hi = n]
        PROVE  TaskOK'
    <3>1. [task[Supervisor] EXCEPT !.pc = "ingest", !.hi = n] \in TaskRec
      BY <2>0 DEF TaskRec
    <3>2. task' = [task EXCEPT ![Supervisor] =
                      [task[Supervisor] EXCEPT !.pc = "ingest", !.hi = n]]
      BY <1>0, <2>1
    <3> QED
      BY <1>0, <3>1, <3>2
  <2>2. ASSUME task' = [task EXCEPT ![Supervisor].pc = "floor", ![Supervisor].tail = TRUE]
        PROVE  TaskOK'
    BY <2>2, <1>1
  <2>3. \A n \in {tip, ingest + Batch} : n <= tip => n \in 0 .. MaxLog
    BY <1>0, Constants DEF NumbersOK
  <2> QED
    BY <1>11, <2>1, <2>2, <2>3 DEF ReadBatch
<1>12. CASE EndBatch
  BY <1>12, <1>1 DEF EndBatch
<1>13. ASSUME NEW t \in Prober, Probe(t) PROVE TaskOK'
  <2> DEFINE PcOf(n) == IF started THEN "reap" ELSE IF checkpoint >= n THEN "yes" ELSE "no"
  <2> PICK w \in Workflow, n \in 1 .. tip :
           task' = [task EXCEPT ![t] = [IdleTask EXCEPT !.wf = w, !.hw = n, !.pc = PcOf(n)]]
    BY <1>13, Zenon DEF Probe
  <2>1. PcOf(n) \in TaskPcs
    BY DEF TaskPcs
  <2>2. n \in 0 .. MaxLog /\ t \in Task /\ IdleTask \in TaskRec
    BY <1>0 DEF NumbersOK
  <2> HIDE DEF PcOf
  <2>3. [IdleTask EXCEPT !.wf = w, !.hw = n, !.pc = PcOf(n)] \in TaskRec
    BY <2>1, <2>2 DEF TaskRec, TaskPcs
  <2> QED
    BY <1>0, <2>2, <2>3
<1>14. ASSUME NEW t \in Prober, Answer(t) \/ Again(t) PROVE TaskOK'
  <2>1. CASE Answer(t)
    BY <1>0, <1>14, <2>1, Goes DEF Answer, TaskPcs
  <2>2. CASE Again(t)
    BY <1>0, <1>14, <2>2 DEF Again
  <2> QED
    BY <1>14, <2>1, <2>2
<1>15. CASE Crash
  BY <1>0, <1>15 DEF Crash
<1>16. ASSUME UNCHANGED task PROVE TaskOK'
  BY <1>0, <1>16
<1> QED
  BY <1>0, <1>2, <1>3, <1>4, <1>5, <1>6, <1>7, <1>8, <1>9, <1>10, <1>11, <1>12, <1>13, <1>14,
     <1>15, <1>16
     DEF Next, Supervise, Reaping, Working, Arrive, IngestTrigger, IngestGated, IngestOther,
         TryRecv, Deregister, Complete, Memoize, Abandon, Die, Halt, vars

LEMMA QueueKind ==
    ASSUME Kinds, [Next]_vars
    PROVE  QueueOK'
<1> USE DEF Kinds, QueueOK, Gen
<1>1. ASSUME NEW p \in Triggers, Enqueue(p) PROVE QueueOK'
  <2>1. <<p>> \in Seq(Triggers)
    BY Constants
  <2>2. ASSUME NEW g \in Gen, queue' = [queue EXCEPT ![g] = Append(@, p)] PROVE QueueOK'
    BY <2>2
  <2> QED
    BY <1>1, <2>1, <2>2 DEF Enqueue, WindowOK, Alive
<1>2. ASSUME NEW g \in Gen, Take(g) PROVE QueueOK'
  BY <1>2 DEF Take
<1>3. ASSUME NEW g \in Gen, TryRecv(g) \/ Deregister(g) PROVE QueueOK'
  BY <1>2, <1>3 DEF TryRecv, Deregister
<1>4. ASSUME NEW g \in Gen, Die(g) PROVE QueueOK'
  BY <1>4 DEF Die
<1>5. CASE Crash
  BY <1>5 DEF Crash
<1>6. ASSUME UNCHANGED queue PROVE QueueOK'
  BY <1>6
<1> QED
  BY <1>1, <1>3, <1>4, <1>5, <1>6, WhoMoves
     DEF IngestTrigger, Complete, Memoize, Abandon

LEMMA WorkerKind ==
    ASSUME Kinds, [Next]_vars
    PROVE  WorkerOK'
<1> USE Constants DEF Kinds, WorkerOK, Gen
<1>1. ASSUME NEW p \in Triggers, Enqueue(p) PROVE WorkerOK'
  <2>1. [IdleWorker EXCEPT !.pc = "loop"] \in WorkerRec
    BY DEF IdleWorker, WorkerRec
  <2>2. \/ worker' = worker
        \/ worker' = [worker EXCEPT ![p] = [IdleWorker EXCEPT !.pc = "loop"]]
    BY <1>1 DEF Enqueue
  <2> QED
    BY <2>1, <2>2
<1>2. ASSUME NEW g \in Gen, NEW pc \in {"none", "loop", "empty"}, Becomes(g, pc, 0)
      PROVE  WorkerOK'
  BY <1>2 DEF Becomes, WorkerRec
<1>3. ASSUME NEW g \in Gen, Take(g) PROVE WorkerOK'
  <2>1. Head(queue[g]) \in Triggers
    BY <1>3 DEF Take, QueueOK
  <2> QED
    BY <1>3, <2>1 DEF Take, Becomes, WorkerRec
<1>4. ASSUME NEW g \in Gen, TryRecv(g) \/ Deregister(g) PROVE WorkerOK'
  BY <1>2, <1>3, <1>4 DEF TryRecv, Deregister
<1>5. ASSUME NEW g \in Gen, Memoize(g) PROVE WorkerOK'
  BY <1>5 DEF Memoize, WorkerRec
<1>6. ASSUME NEW g \in Gen, Complete(g) \/ Abandon(g) \/ Die(g) PROVE WorkerOK'
  <2>1. Becomes(g, "loop", 0) \/ Becomes(g, "none", 0)
    BY <1>6 DEF Complete, Abandon, Die
  <2> QED
    BY <1>2, <2>1
<1>7. CASE Crash
  BY <1>7 DEF Crash
<1>8. ASSUME UNCHANGED worker PROVE WorkerOK'
  BY <1>8
<1> QED
  BY <1>1, <1>4, <1>5, <1>6, <1>7, <1>8, WhoMoves
     DEF IngestTrigger

\* Who ingests is behind the tip, and the batch ends there.
LEMMA IngestingAdvances ==
    ASSUME Kinds, WritesSound, NEW p, Ingesting(p)
    PROVE  p = ingest + 1 /\ p \in 1 .. tip /\ p \in Position
<1>1. task[Supervisor].pc = "ingest" /\ p = ingest + 1 /\ p <= task[Supervisor].hi
  BY DEF Ingesting, At
<1>2. task[Supervisor].hi <= tip /\ task[Supervisor].hi \in 0 .. MaxLog
  BY <1>1, Constants DEF WritesSound, Kinds, TaskOK, TaskRec
<1> QED
  BY <1>1, <1>2, Constants DEF Kinds, NumbersOK, Position

\* A set of numbers up to n has a greatest.
LEMMA GreatestExists ==
    ASSUME NEW n \in Nat, NEW S \in SUBSET (0 .. n), S # {}
    PROVE  \E m \in S : \A p \in S : p <= m
<1> DEFINE less == OpToRel(<, Nat)
           T == {n - p : p \in S}
<1>1. IsWellFoundedOn(less, Nat)
  BY NatLessThanWellFounded
<1>2. T \subseteq Nat /\ T # {}
  <2>1. \A p \in S : n - p \in Nat
    OBVIOUS
  <2> QED
    BY <2>1
<1> HIDE DEF less, T
<1>3. PICK x \in T : \A y \in T : ~ (<<y, x>> \in less)
  BY <1>1, <1>2, WFMin, Zenon
<1>4. PICK m \in S : x = n - m
  BY DEF T
<1>5. ASSUME NEW p \in S, ~(p <= m) PROVE FALSE
  <2>1. n - p \in T /\ n - p < x /\ n - p \in Nat /\ x \in Nat
    BY <1>2, <1>4, <1>5 DEF T
  <2> QED
    BY <1>3, <2>1 DEF less, OpToRel
<1> QED
  BY <1>5

\* The last trigger to leave the window, or the scan.
LEMMA NewFloorIs ==
    ASSUME Kinds, CursorsOrdered, WindowSound
    PROVE  /\ NewFloor \in floor .. ingest
           /\ \A p \in Passed : p <= NewFloor
           /\ \A p \in Pend \ Passed : NewFloor < p
<1>1. /\ floor \in 0 .. ingest /\ ingest \in 0 .. MaxLog
      /\ \A p \in Pend : p \in Nat /\ floor < p /\ p <= ingest
  BY Constants DEF Kinds, NumbersOK, CursorsOrdered, WindowSound, Pend
<1>2. CASE Pend = Passed
  BY <1>1, <1>2 DEF NewFloor, Larger, Passed
<1>3. CASE Pend # Passed
  <2> DEFINE S == {floor} \cup Passed
             IsTop(m) == m \in S /\ \A p \in S : p <= m
  <2>1. S \subseteq Nat /\ \A p \in S : p <= ingest
    BY <1>1 DEF Passed
  <2>2. S \in SUBSET (0 .. ingest) /\ S # {}
    BY <1>1, <2>1
  <2>3. \E m \in S : \A p \in S : p <= m
    <3> HIDE DEF S
    <3>1. ingest \in Nat
      BY <1>1
    <3> QED BY <3>1, <1>1, <2>2, GreatestExists
  <2>4. IsTop(NewFloor)
    BY <1>3, <2>3 DEF NewFloor
  <2>5. ASSUME NEW p \in Pend \ Passed PROVE NewFloor < p
    <3>1. PICK q \in Pend : q <= p /\ pending[q] = "waiting"
      BY DEF Passed
    <3>2. \A r \in Passed : r < q
      BY <1>1, <3>1 DEF Passed
    <3> QED
      BY <1>1, <2>1, <2>4, <3>1, <3>2
  <2> QED
    BY <1>1, <2>1, <2>4, <2>5
<1> QED
  BY <1>2, <1>3

LEMMA NumbersKind ==
    ASSUME Kinds, CursorsOrdered, WindowSound, WritesSound, [Next]_vars
    PROVE  NumbersOK'
<1> USE Constants DEF Kinds, NumbersOK
<1>1. CASE Arrive
  BY <1>1 DEF Arrive, dispatch
<1>2. ASSUME NEW t \in Task, MoveFloor(t) PROVE NumbersOK'
  BY <1>2, NewFloorIs DEF MoveFloor, durable
<1>3. ASSUME NEW t \in Task, Persist(t) \/ PersistFails(t) \/ Note(t) PROVE NumbersOK'
  BY <1>3 DEF Persist, PersistFails, Note, Advance, Larger, TaskOK, TaskRec, durable, dispatch
<1>4. CASE Step
  BY <1>4 DEF Step, durable
<1>5. CASE ReadBatch \/ EndBatch
  BY <1>5 DEF ReadBatch, EndBatch, durable, dispatch
<1>6. ASSUME NEW p \in Position, IngestTrigger(p) \/ IngestGated(p) \/ IngestOther(p)
      PROVE  NumbersOK'
  <2>1. ingest' \in 0 .. MaxLog
    BY <1>6 DEF IngestTrigger, IngestGated, IngestOther, Position
  <2>2. UNCHANGED <<tip, checkpoint, floor, persisted, started, locked, stopped>>
    BY <1>6 DEF IngestTrigger, IngestGated, IngestOther, durable
  <2> QED
    BY <2>1, <2>2
<1>7. CASE Crash
  <2>1. /\ UNCHANGED <<tip, checkpoint>> /\ ingest' = 0 /\ floor' = 0 /\ persisted' = 0
        /\ started' = FALSE /\ locked' = FALSE /\ stopped' = FALSE
    BY <1>7 DEF Crash, durable
  <2>2. started' \in BOOLEAN /\ locked' \in BOOLEAN /\ stopped' \in BOOLEAN
    BY <2>1
  <2>3. 0 \in 0 .. MaxLog
    OBVIOUS
  <2> QED
    BY <2>1, <2>2, <2>3
<1>8. CASE Halt
  BY <1>8 DEF Halt, durable, dispatch
<1>9. ASSUME UNCHANGED <<tip, checkpoint, ingest, floor, persisted, started, locked, stopped>>
      PROVE  NumbersOK'
  BY <1>9
<1> QED
  BY <1>1, <1>2, <1>3, <1>4, <1>5, <1>6, <1>7, <1>8, <1>9, WhoMoves

LEMMA SetsKind ==
    ASSUME Kinds, WritesSound, CompletionsSound, HandsSound, [Next]_vars
    PROVE  SetsOK'
<1> USE Constants DEF Kinds, SetsOK
<1>1. \A p \in Position : Marked(p) \subseteq Workflow
  BY DispatcherAssumption DEF Marked
<1>2. CASE Arrive
  <2>1. tip + 1 \in Position
    BY <1>2 DEF Arrive, NumbersOK, Position
  <2> QED
    BY <1>1, <1>2, <2>1 DEF Arrive
<1>3. ASSUME NEW p \in Position, IngestOther(p) PROVE SetsOK'
  BY <1>1, <1>3 DEF IngestOther, durable
<1>4. ASSUME NEW t \in Task, DrainComps(t) \/ CollectMemos(t) PROVE SetsOK'
  BY <1>4 DEF DrainComps, CollectMemos, durable
<1>5. ASSUME NEW g \in Gen, worker[g].pc = "busy" PROVE worker[g].cur \in Triggers
  BY <1>5 DEF HandsSound, HandSound, Alive
<1>6. ASSUME NEW g \in Gen, Memoize(g) PROVE SetsOK'
  BY <1>5, <1>6 DEF Memoize
<1>7. ASSUME NEW g \in Gen, Complete(g) PROVE SetsOK'
  <2>1. worker[g].cur \in Triggers
    BY <1>5, <1>7 DEF Complete
  <2>2. \A as \in {"parked", IF worker[g].used THEN "memoized" ELSE "acked"} :
            [pos |-> worker[g].cur, as |-> as] \in Completion
    BY <2>1 DEF Completion, Outcome
  <2>3. PICK as \in {"parked", IF worker[g].used THEN "memoized" ELSE "acked"} :
            comps' = comps \cup {[pos |-> worker[g].cur, as |-> as]}
    BY <1>7 DEF Complete
  <2> QED
    BY <1>7, <2>1, <2>2, <2>3 DEF Complete
<1>8. CASE Crash
  <2>1. \A p \in 1 .. tip : p \in Position
    BY DEF NumbersOK, Position
  <2>2. Markers \subseteq Workflow
    BY <2>1, DispatcherAssumption DEF Markers
  <2> QED
    BY <1>8, <2>2 DEF Crash, durable
<1>9. ASSUME UNCHANGED <<done, memo, fence, comps>> PROVE SetsOK'
  BY <1>9
<1> QED
  BY <1>2, <1>3, <1>4, <1>6, <1>7, <1>8, <1>9, WhoMoves

LEMMA WindowKind ==
    ASSUME Kinds, CompletionsSound, [Next]_vars
    PROVE  WindowOK'
<1> USE Constants DEF Kinds, WindowOK
<1>1. ASSUME NEW t \in Task, ApplyAcks(t) PROVE WindowOK'
  <2>1. ASSUME NEW p \in Triggers, \E c \in task[t].acks : c.pos = p
        PROVE  (CHOOSE c \in task[t].acks : c.pos = p).as \in Outcome
    BY <2>1 DEF TaskOK, TaskRec, Completion
  <2> QED
    BY <1>1, <2>1 DEF ApplyAcks
<1>2. ASSUME NEW t \in Task, MoveFloor(t) PROVE WindowOK'
  BY <1>2 DEF MoveFloor
<1>3. ASSUME NEW p \in Position, IngestTrigger(p) PROVE WindowOK'
  BY <1>3 DEF IngestTrigger, Enqueue
<1>4. ASSUME NEW g \in Gen, Deregister(g) PROVE WindowOK'
  BY <1>4 DEF Deregister
<1>5. CASE Crash
  BY <1>5 DEF Crash
<1>6. ASSUME UNCHANGED <<pending, handle>> PROVE WindowOK'
  BY <1>6
<1> QED
  BY <1>1, <1>2, <1>3, <1>4, <1>5, <1>6, WhoMoves
     DEF TryRecv, Complete, Memoize, Abandon, Die, dispatch

LEMMA BudgetsKind == ASSUME Kinds, [Next]_vars PROVE BudgetsOK'
<1> USE DispatcherAssumption DEF Kinds, BudgetsOK
<1>1. ASSUME NEW t \in Task, PersistFails(t) PROVE BudgetsOK'
  BY <1>1 DEF PersistFails
<1>2. ASSUME NEW g \in Gen, Die(g) PROVE BudgetsOK'
  BY <1>2 DEF Die
<1>3. CASE Crash
  BY <1>3 DEF Crash
<1>4. ASSUME UNCHANGED budgets PROVE BudgetsOK'
  BY <1>4 DEF budgets
<1> QED
  BY <1>1, <1>2, <1>3, <1>4, Constants, WhoMoves

LEMMA KindsNext ==
    ASSUME IInv, [Next]_vars
    PROVE  Kinds'
  BY KindsAreTypes, NumbersKind, BudgetsKind, SetsKind, WindowKind, QueueKind, WorkerKind,
     TaskKind
     DEF IInv, Kinds

-----------------------------------------------------------------------------
(* The cursors.                                                             *)

\* Nothing that is through is ever asked for again: a step only adds to it.
LEMMA ThroughStays ==
    ASSUME Kinds, [Next]_vars
    PROVE  /\ done \subseteq done' /\ tip <= tip' /\ Markers \subseteq Markers'
           /\ \A p \in Triggers : Through(p) => Through(p)'
<1>1. done \subseteq done'
  <2>1. ASSUME NEW g \in Gen, Complete(g) PROVE done \subseteq done'
    BY <2>1 DEF Complete
  <2>2. ASSUME UNCHANGED done PROVE done \subseteq done'
    BY <2>2
  <2> QED
    BY <2>1, <2>2, WhoMoves
<1>2. tip <= tip' /\ tip \in Nat /\ tip' \in Nat
  <2>1. CASE Arrive
    BY <2>1 DEF Arrive, Kinds, NumbersOK
  <2>2. ASSUME UNCHANGED tip PROVE tip <= tip' /\ tip \in Nat /\ tip' \in Nat
    BY <2>2 DEF Kinds, NumbersOK
  <2> QED
    BY <2>1, <2>2, WhoMoves
<1>3. Markers \subseteq Markers'
  BY <1>2 DEF Markers
<1>4. \A p \in Triggers : Through(p) => Through(p)'
  BY <1>1, <1>3 DEF Through, Skippable
<1> QED
  BY <1>1, <1>2, <1>3, <1>4

\* The durable cursor is an atomic maximum of floors on their way to the store.
LEMMA CheckpointMoves ==
    ASSUME Kinds, WritesSound, [Next]_vars
    PROVE  /\ checkpoint <= checkpoint'
           /\ \/ checkpoint' = checkpoint
              \/ \E t \in Task :
                    /\ task[t].pc = "persist" /\ checkpoint' = task[t].want
                    /\ checkpoint < checkpoint' /\ checkpoint' <= tip
                    /\ UNCHANGED <<tip, done, memo, floor, ingest, persisted, fence>>
<1> USE DEF Kinds, NumbersOK
<1>1. checkpoint \in Nat
  BY Constants
<1>2. ASSUME NEW t \in Task, Persist(t) \/ PersistFails(t), checkpoint' # checkpoint
      PROVE  /\ task[t].pc = "persist" /\ checkpoint' = task[t].want
             /\ checkpoint < checkpoint' /\ checkpoint' <= tip
             /\ UNCHANGED <<tip, done, memo, floor, ingest, persisted, fence>>
  <2>1. task[t].want \in Nat
    BY Constants DEF TaskOK, TaskRec
  <2>2. task[t].pc = "persist" /\ checkpoint' \in {checkpoint, Advance(task[t].want)}
    BY <1>2 DEF Persist, PersistFails, At
  <2>3. task[t].want <= tip
    BY <2>2 DEF WritesSound
  <2>4. UNCHANGED <<tip, done, memo, floor, ingest, persisted, fence>>
    BY <1>2 DEF Persist, PersistFails, dispatch
  <2> QED
    BY <1>1, <1>2, <2>1, <2>2, <2>3, <2>4 DEF Advance, Larger
<1>3. CASE checkpoint' = checkpoint
  BY <1>1, <1>3
<1>4. CASE checkpoint' # checkpoint
  <2>1. PICK t \in Task : Persist(t) \/ PersistFails(t)
    BY <1>4, WhoMoves
  <2>2. /\ task[t].pc = "persist" /\ checkpoint' = task[t].want
        /\ checkpoint < checkpoint' /\ checkpoint' <= tip
        /\ UNCHANGED <<tip, done, memo, floor, ingest, persisted, fence>>
    BY <1>2, <1>4, <2>1
  <2>3. checkpoint <= checkpoint'
    <3>1. task[t].want \in Nat
      BY Constants DEF TaskOK, TaskRec
    <3> QED
      BY <1>1, <2>2, <3>1
  <2> QED
    BY <2>2, <2>3
<1> QED
  BY <1>3, <1>4

LEMMA CursorsNext ==
    ASSUME Kinds, CursorsOrdered, WindowSound, WritesSound, [Next]_vars
    PROVE  CursorsOrdered'
<1> USE DEF Kinds
<1>0. /\ tip \in Nat /\ checkpoint \in Nat /\ ingest \in Nat /\ floor \in Nat
      /\ persisted \in Nat /\ tip <= tip' /\ tip' \in Nat /\ Markers \subseteq Markers'
  BY Constants, ThroughStays, NumbersKind DEF NumbersOK
<1>1. floor' <= ingest' /\ ingest' <= tip'
  <2>1. CASE Step
    BY <1>0, <2>1 DEF Step, CursorsOrdered
  <2>2. CASE Crash
    BY <1>0, <2>2 DEF Crash
  <2>3. ASSUME NEW t \in Task, MoveFloor(t) PROVE floor' <= ingest' /\ ingest' <= tip'
    BY <1>0, <2>3, NewFloorIs DEF MoveFloor, CursorsOrdered, durable
  <2>4. ASSUME NEW p \in Position, IngestTrigger(p) \/ IngestGated(p) \/ IngestOther(p)
        PROVE  floor' <= ingest' /\ ingest' <= tip'
    <3>1. Ingesting(p) /\ ingest' = p /\ UNCHANGED floor
      BY <2>4 DEF IngestTrigger, IngestGated, IngestOther
    <3> QED
      BY <1>0, <3>1, IngestingAdvances DEF CursorsOrdered
  <2>5. ASSUME UNCHANGED <<floor, ingest>> PROVE floor' <= ingest' /\ ingest' <= tip'
    BY <1>0, <2>5 DEF CursorsOrdered
  <2>6. ingest' = ingest \/ Step \/ Crash
          \/ \E p \in Position : IngestTrigger(p) \/ IngestGated(p) \/ IngestOther(p)
    BY WhoMoves
  <2>7. floor' = floor \/ Step \/ Crash \/ \E t \in Task : MoveFloor(t)
    BY WhoMoves
  <2> QED
    BY <2>1, <2>2, <2>3, <2>4, <2>5, <2>6, <2>7
<1>2. persisted' <= checkpoint'
  <2>1. CASE Step
    BY <1>0, <2>1 DEF Step, CursorsOrdered, durable
  <2>2. CASE Crash
    BY <1>0, <2>2 DEF Crash, durable
  <2>3. ASSUME NEW t \in Task, Note(t) PROVE persisted' <= checkpoint'
    <3>1. task[t].want <= checkpoint
      BY <2>3 DEF Note, At, WritesSound
    <3>2. persisted' = Larger(persisted, task[t].want) /\ checkpoint' = checkpoint
      BY <2>3 DEF Note, durable
    <3> QED
      BY <3>1, <3>2 DEF Larger, CursorsOrdered
  <2>4. ASSUME UNCHANGED persisted PROVE persisted' <= checkpoint'
    <3>1. checkpoint' \in Nat /\ checkpoint <= checkpoint'
      BY <1>0, CheckpointMoves, NumbersKind, Constants DEF NumbersOK
    <3> QED
      BY <1>0, <2>4, <3>1 DEF CursorsOrdered
  <2> QED
    BY <2>1, <2>2, <2>3, <2>4, WhoMoves
<1>3. checkpoint' <= tip'
  BY <1>0, CheckpointMoves DEF CursorsOrdered
<1>4. fence' \subseteq Markers'
  <2>1. CASE Arrive
    <3>1. Marked(tip + 1) \subseteq Markers'
      BY <1>0, <2>1 DEF Arrive, Marked, Markers
    <3> QED
      BY <1>0, <2>1, <3>1 DEF Arrive, CursorsOrdered
  <2>2. CASE Crash
    BY <2>2 DEF Crash, Markers, durable
  <2>3. ASSUME NEW p \in Position, IngestOther(p) PROVE fence' \subseteq Markers'
    <3>1. p \in 1 .. tip
      BY <2>3, IngestingAdvances DEF IngestOther
    <3> QED
      BY <1>0, <2>3, <3>1 DEF IngestOther, Marked, Markers, CursorsOrdered
  <2>4. ASSUME UNCHANGED fence PROVE fence' \subseteq Markers'
    BY <1>0, <2>4 DEF CursorsOrdered
  <2> QED
    BY <2>1, <2>2, <2>3, <2>4, WhoMoves
<1> QED
  BY <1>1, <1>2, <1>3, <1>4 DEF CursorsOrdered

\* advance_floor: the durable cursor passes what is through, whoever moves it.
LEMMA FloorNext ==
    ASSUME Kinds, WritesSound, FloorSafe, [Next]_vars
    PROVE  FloorSafe'
<1>1. CASE checkpoint' = checkpoint
  BY <1>1, ThroughStays DEF FloorSafe, Through
<1>2. ASSUME NEW t \in Task, task[t].pc = "persist", checkpoint' = task[t].want
      PROVE  FloorSafe'
  BY <1>2, ThroughStays DEF FloorSafe, Through, WritesSound
<1> QED
  BY <1>1, <1>2, CheckpointMoves

\* MoveFloor takes out of the window what is completed, and lifts the floor to it.
LEMMA WindowNext ==
    ASSUME Kinds, CursorsOrdered, WindowSound, FloorSafe, SupervisorStarted,
           CompletionsSound, [Next]_vars
    PROVE  WindowSound'
<1> DEFINE Fine(p) == /\ pending[p] = "none" /\ p <= ingest => Through(p)
                      /\ pending[p] # "none" => started /\ floor < p /\ p <= ingest
                      /\ pending[p] \in Outcome => p \in done
<1> SUFFICES ASSUME NEW p \in Triggers PROVE Fine(p)'
  BY DEF WindowSound
<1>0. /\ Fine(p) /\ p \in Nat \ {0} /\ ingest \in Nat /\ floor \in Nat /\ checkpoint \in Nat
      /\ floor <= ingest
      /\ pending[p] \in {"none", "waiting"} \cup Outcome
      /\ "none" \notin Outcome /\ "waiting" \notin Outcome
  BY Constants DEF WindowSound, Kinds, NumbersOK, WindowOK, CursorsOrdered, Outcome
<1>1. (Through(p) => Through(p)') /\ (p \in done => p \in done')
  BY ThroughStays
<1> HIDE DEF Fine
<1>2. CASE Step
  <2>1. CASE started
    BY <1>0, <1>1, <1>2, <2>1 DEF Step, Fine
  <2>2. CASE ~started
    <3>1. pending[p] = "none" /\ UNCHANGED <<pending, done>> /\ ingest' = checkpoint
      BY <1>0, <1>2, <2>2 DEF Step, Fine, durable
    <3>2. p <= checkpoint => Through(p)
      BY DEF FloorSafe, Through
    <3> QED
      BY <1>0, <1>1, <3>1, <3>2 DEF Fine
  <2> QED
    BY <2>1, <2>2
<1>3. CASE Crash
  BY <1>0, <1>3 DEF Crash, Fine
<1>4. ASSUME NEW t \in Task, ApplyAcks(t) PROVE Fine(p)'
  <2>1. UNCHANGED <<started, ingest, floor, done>>
    BY <1>4 DEF ApplyAcks, durable
  <2>2. CASE pending[p] # "none" /\ \E c \in task[t].acks : c.pos = p
    <3> DEFINE c == CHOOSE c \in task[t].acks : c.pos = p
    <3>1. c \in task[t].acks /\ c.pos = p
      BY <2>2
    <3>2. p \in done
      BY <3>1 DEF CompletionsSound, SentSound
    <3>3. c.as \in Outcome
      BY <3>1 DEF Kinds, TaskOK, TaskRec, Completion
    <3>4. pending'[p] = c.as
      BY <1>4, <2>2 DEF ApplyAcks
    <3> QED
      BY <1>0, <2>1, <2>2, <3>2, <3>3, <3>4 DEF Fine
  <2>3. CASE ~(pending[p] # "none" /\ \E c \in task[t].acks : c.pos = p)
    <3>1. pending'[p] = pending[p]
      BY <1>4, <2>3 DEF ApplyAcks
    <3> QED
      BY <1>0, <1>1, <2>1, <3>1 DEF Fine
  <2> QED
    BY <2>2, <2>3
<1>5. ASSUME NEW t \in Task, MoveFloor(t) PROVE Fine(p)'
  <2>1. UNCHANGED <<started, ingest, done>>
    BY <1>5 DEF MoveFloor, durable
  <2>2. CASE ~started
    BY <1>0, <1>1, <1>5, <2>1, <2>2 DEF MoveFloor, Fine
  <2>3. CASE started
    <3>1. /\ floor' = NewFloor
          /\ pending' = [q \in Triggers |-> IF q \in Passed THEN "none" ELSE pending[q]]
      BY <1>5, <2>3 DEF MoveFloor
    <3>2. CASE p \in Passed
      <4>1. pending[p] # "none" /\ pending[p] # "waiting"
        BY <1>0, <3>2 DEF Passed, Pend
      <4>2. p \in done
        BY <1>0, <4>1 DEF Fine
      <4> QED
        BY <1>0, <1>1, <3>1, <3>2, <4>2 DEF Fine, Through
    <3>3. CASE p \notin Passed
      <4>1. pending'[p] = pending[p]
        BY <3>1, <3>3
      <4>2. pending[p] # "none" => NewFloor < p
        BY <3>3, NewFloorIs DEF Pend
      <4> QED
        BY <1>0, <1>1, <2>1, <2>3, <3>1, <4>1, <4>2 DEF Fine
    <3> QED
      BY <3>2, <3>3
  <2> QED
    BY <2>2, <2>3
<1>6. ASSUME NEW q \in Position, IngestTrigger(q) PROVE Fine(p)'
  <2>1. /\ q = ingest + 1 /\ ingest' = q /\ UNCHANGED <<started, floor, done>>
        /\ q \in Triggers /\ pending' = [pending EXCEPT ![q] = "waiting"]
    BY <1>6 DEF IngestTrigger, Ingesting, durable
  <2>2. started
    BY <1>6 DEF IngestTrigger, Ingesting, At, SupervisorStarted
  <2> QED
    BY <1>0, <1>1, <2>1, <2>2 DEF Fine, Kinds, WindowOK
<1>7. ASSUME NEW q \in Position, IngestGated(q) PROVE Fine(p)'
  <2>1. /\ q = ingest + 1 /\ ingest' = q /\ UNCHANGED <<started, floor, done, pending>>
        /\ Gated(q)
    BY <1>7 DEF IngestGated, Ingesting, durable
  <2>2. Through(q)
    BY <2>1 DEF Gated, Through, Skippable, CursorsOrdered
  <2> QED
    BY <1>0, <1>1, <2>1, <2>2 DEF Fine
<1>8. ASSUME NEW q \in Position, IngestOther(q) PROVE Fine(p)'
  <2>1. /\ q = ingest + 1 /\ ingest' = q /\ UNCHANGED <<started, floor, done, pending>>
        /\ q \notin Triggers
    BY <1>8 DEF IngestOther, Ingesting, durable
  <2> QED
    BY <1>0, <1>1, <2>1 DEF Fine
<1>9. ASSUME UNCHANGED <<started, ingest, floor, pending>> PROVE Fine(p)'
  BY <1>0, <1>1, <1>9 DEF Fine
<1>10. ASSUME NEW t \in Task, Note(t) PROVE UNCHANGED <<started, ingest, floor, pending>>
  BY <1>10 DEF Note
<1> QED
  BY <1>2, <1>3, <1>4, <1>5, <1>6, <1>7, <1>8, <1>9, <1>10, WhoMoves

LEMMA StartedNext ==
    ASSUME Kinds, SupervisorStarted, [Next]_vars
    PROVE  SupervisorStarted'
<1> DEFINE pc == task[Supervisor].pc
<1>1. CASE Crash
  BY <1>1, Constants DEF Crash, IdleTask, SupervisorStarted
<1>2. CASE Step
  BY <1>2 DEF Step, SupervisorStarted
<1>3. started' = started \/ Step \/ Crash
  <2>1. ASSUME NEW t \in Task, Note(t) PROVE started' = started
    BY <2>1 DEF Note
  <2> QED
    BY <2>1, WhoMoves
<1>4. pc' = pc \/ pc # "idle" \/ Step \/ Crash
  <2> USE Constants DEF Kinds, TaskOK, TaskRec
  <2>1. ASSUME NEW t \in Task, \/ DrainComps(t) \/ ApplyAcks(t) \/ MoveFloor(t) \/ Persist(t)
                               \/ PersistFails(t) \/ Note(t) \/ CollectMemos(t)
        PROVE  pc' = pc \/ pc # "idle"
    <3>1. CASE t = Supervisor
      BY <2>1, <3>1 DEF DrainComps, ApplyAcks, MoveFloor, Persist, PersistFails, Note,
                        CollectMemos, At
    <3>2. CASE t # Supervisor
      BY <2>1, <3>2 DEF DrainComps, ApplyAcks, MoveFloor, Persist, PersistFails, Note,
                        CollectMemos, Goto
    <3> QED
      BY <3>1, <3>2
  <2>2. CASE Noted \/ ReadBatch \/ EndBatch
    BY <2>2 DEF Noted, ReadBatch, EndBatch, At
  <2>3. ASSUME NEW t \in Prober, Probe(t) \/ Answer(t) \/ Again(t) PROVE pc' = pc
    BY <2>3 DEF Probe, Answer, Again, Goto
  <2> QED
    BY <2>1, <2>2, <2>3, WhoMoves
<1> QED
  BY <1>1, <1>2, <1>3, <1>4 DEF SupervisorStarted

LEMMA WritesNext ==
    ASSUME Kinds, CursorsOrdered, WindowSound, WritesSound, [Next]_vars
    PROVE  WritesSound'
<1> DEFINE Sound(t) ==
        /\ task[t].pc \in {"persist", "note", "gc"} =>
              /\ task[t].want <= tip
              /\ \A p \in Triggers : p <= task[t].want => Through(p)
              /\ \A p \in task[t].gc : p <= task[t].want
        /\ task[t].pc \in {"note", "gc"} => task[t].want <= checkpoint
        /\ task[t].pc = "ingest" => task[t].hi <= tip
<1> SUFFICES ASSUME NEW t \in Task PROVE Sound(t)'
  BY DEF WritesSound
<1>0. /\ Sound(t) /\ task[t] \in TaskRec /\ tip \in Nat /\ tip' \in Nat /\ checkpoint \in Nat
      /\ checkpoint' \in Nat /\ tip <= tip' /\ checkpoint <= checkpoint'
      /\ \A p \in Triggers : Through(p) => Through(p)'
      /\ task[t].want \in Nat /\ task[t].hi \in Nat
  BY Constants, ThroughStays, CheckpointMoves, NumbersKind
     DEF WritesSound, Kinds, NumbersOK, TaskOK, TaskRec
<1>1. ASSUME task'[t].pc = task[t].pc, task'[t].want = task[t].want, task'[t].gc = task[t].gc,
             task'[t].hi = task[t].hi
      PROVE  Sound(t)'
  <2>1. \A p \in task[t].gc : p \in Nat
    BY <1>0, Constants DEF TaskRec
  <2> QED
    BY <1>0, <1>1, <2>1
<1>2. ASSUME task'[t].pc \notin {"persist", "note", "gc", "ingest"} PROVE Sound(t)'
  BY <1>2
<1>3. ASSUME NEW u \in Task, u # t, DrainComps(u) \/ ApplyAcks(u) \/ MoveFloor(u) \/ Persist(u)
                 \/ PersistFails(u) \/ Note(u) \/ CollectMemos(u) \/ Probe(u) \/ Answer(u) \/ Again(u)
      PROVE  task'[t] = task[t]
  BY <1>3 DEF DrainComps, ApplyAcks, MoveFloor, Persist, PersistFails, Note, CollectMemos,
              Probe, Answer, Again, Goto, Kinds, TaskOK
<1> HIDE DEF Sound
<1>4. ASSUME t # Supervisor, Step \/ Noted \/ ReadBatch \/ EndBatch PROVE task'[t] = task[t]
  BY <1>4, Constants DEF Step, Noted, ReadBatch, EndBatch, Goto, Kinds, TaskOK
<1> USE DEF Kinds, TaskOK
<1>5. CASE MoveFloor(t)
  <2>1. CASE ~started
    BY <1>2, <1>5, <2>1 DEF MoveFloor, TaskRec
  <2>2. CASE started
    <3>1. /\ task'[t].pc = IF persisted # NewFloor THEN "persist" ELSE "gc"
          /\ task'[t].want = NewFloor
          /\ task'[t].gc = {p \in Passed : pending[p] = "memoized"}
          /\ UNCHANGED <<tip, checkpoint, done>>
      BY <1>0, <1>5, <2>2 DEF MoveFloor, TaskRec, durable
    <3>2. /\ NewFloor \in Nat /\ ingest \in Nat
          /\ floor <= NewFloor /\ NewFloor <= ingest /\ ingest <= tip
      BY <1>0, NewFloorIs, Constants DEF NumbersOK, CursorsOrdered
    <3>3. ASSUME NEW p \in Triggers, p <= NewFloor PROVE Through(p)
      <4>1. p \in Nat /\ p <= ingest /\ ingest \in Nat
        BY <3>2, <3>3, Constants DEF NumbersOK
      <4>2. CASE pending[p] = "none"
        BY <4>1, <4>2 DEF WindowSound
      <4>3. CASE pending[p] # "none"
        <5>1. p \in Passed
          BY <3>2, <3>3, <4>1, <4>3, NewFloorIs DEF Pend
        <5>2. pending[p] \in Outcome
          BY <4>1, <4>3, <5>1 DEF Passed, WindowOK, Pend
        <5> QED
          BY <5>2 DEF WindowSound, Through
      <4> QED
        BY <4>2, <4>3
    <3>4. \A p \in task'[t].gc : p <= NewFloor
      <4>1. \A p \in Passed : p <= NewFloor
        BY NewFloorIs
      <4> HIDE DEF Kinds, TaskOK
      <4> QED
        BY <3>1, <4>1
    <3>5. persisted = NewFloor => NewFloor <= checkpoint
      BY DEF CursorsOrdered
    <3>6. \A p \in Triggers : p <= NewFloor => Through(p)'
      BY <1>0, <3>3
    <3>7. /\ task'[t].want <= tip'
          /\ \A p \in Triggers : p <= task'[t].want => Through(p)'
          /\ \A p \in task'[t].gc : p <= task'[t].want
      <4> HIDE DEF Kinds, TaskOK
      <4>1. NewFloor <= tip' /\ task'[t].want = NewFloor
        BY <1>0, <3>1, <3>2
      <4> QED
        BY <3>4, <3>6, <4>1
    <3>8. task'[t].pc \in {"note", "gc"} => task'[t].want <= checkpoint'
      <4> HIDE DEF Kinds, TaskOK
      <4> QED
        BY <1>0, <3>1, <3>5
    <3>9. task'[t].pc # "ingest"
      BY <3>1
    <3> QED
      BY <3>7, <3>8, <3>9 DEF Sound
  <2> QED
    BY <2>1, <2>2
<1>6. CASE Persist(t)
  <2>1. /\ task[t].pc = "persist" /\ task'[t] = [task[t] EXCEPT !.pc = "note"]
        /\ checkpoint' = Advance(task[t].want)
    BY <1>6 DEF Persist, Goto, At
  <2>2. /\ task'[t].pc = "note" /\ task'[t].want = task[t].want /\ task'[t].gc = task[t].gc
    BY <1>0, <2>1 DEF TaskRec
  <2>3. task[t].want <= checkpoint'
    BY <1>0, <2>1 DEF Advance, Larger
  <2> QED
    BY <1>0, <2>1, <2>2, <2>3 DEF Sound
<1>7. CASE Note(t)
  <2>1. /\ task[t].pc = "note" /\ task'[t] = [task[t] EXCEPT !.pc = "gc"]
    BY <1>7 DEF Note, Goto, At
  <2>2. /\ task'[t].pc = "gc" /\ task'[t].want = task[t].want /\ task'[t].gc = task[t].gc
    BY <1>0, <2>1 DEF TaskRec
  <2> QED
    BY <1>0, <2>1, <2>2 DEF Sound
<1>8. CASE DrainComps(t) \/ ApplyAcks(t) \/ PersistFails(t) \/ CollectMemos(t)
  <2>1. task'[t].pc \notin {"persist", "note", "gc", "ingest"}
    <3>1. CASE DrainComps(t)
      BY <1>0, <3>1 DEF DrainComps, TaskRec
    <3>2. CASE ApplyAcks(t)
      BY <1>0, <3>2 DEF ApplyAcks, TaskRec
    <3>3. CASE PersistFails(t)
      BY <1>0, <3>3 DEF PersistFails, IdleTask
    <3>4. CASE CollectMemos(t)
      BY <1>0, <3>4 DEF CollectMemos, TaskRec
    <3> QED
      BY <1>8, <3>1, <3>2, <3>3, <3>4
  <2> QED
    BY <1>2, <2>1
<1>9. CASE Probe(t) \/ Answer(t) \/ Again(t)
  <2>1. task'[t].pc \notin {"persist", "note", "gc", "ingest"}
    <3>1. CASE Probe(t)
      <4> PICK w \in Workflow, n \in 1 .. tip, pc \in {"reap", "yes", "no"} :
               task' = [task EXCEPT ![t] = [IdleTask EXCEPT !.wf = w, !.hw = n, !.pc = pc]]
        BY <3>1 DEF Probe
      <4> QED
        BY DEF IdleTask
    <3>2. CASE Answer(t)
      BY <1>0, <3>2 DEF Answer, Goto, TaskRec
    <3>3. CASE Again(t)
      BY <1>0, <3>3 DEF Again, IdleTask
    <3> QED
      BY <1>9, <3>1, <3>2, <3>3
  <2> QED
    BY <1>2, <2>1
<1>10. ASSUME t = Supervisor, Step \/ Noted \/ EndBatch PROVE Sound(t)'
  <2>1. task'[t].pc \notin {"persist", "note", "gc", "ingest"}
    BY <1>0, <1>10 DEF Step, Noted, EndBatch, Goto, IdleTask, TaskRec
  <2> QED
    BY <1>2, <2>1
<1>11. ASSUME t = Supervisor, ReadBatch PROVE Sound(t)'
  <2>1. \/ task'[t].pc = "floor"
        \/ task'[t].pc = "ingest" /\ task'[t].hi <= tip
    BY <1>0, <1>11 DEF ReadBatch, TaskRec
  <2>2. tip' = tip
    BY <1>11 DEF ReadBatch, durable
  <2> QED
    BY <2>1, <2>2 DEF Sound
<1>12. CASE Crash
  <2>1. task'[t].pc \notin {"persist", "note", "gc", "ingest"}
    BY <1>12 DEF Crash, IdleTask
  <2> QED
    BY <1>2, <2>1
<1>13. ASSUME task'[t] = task[t] PROVE Sound(t)'
  BY <1>1, <1>13
<1> QED
  BY <1>3, <1>4, <1>5, <1>6, <1>7, <1>8, <1>9, <1>10, <1>11, <1>12, <1>13, WhoMoves, Constants

-----------------------------------------------------------------------------
(* The workers' hands.                                                      *)

\* Appending a later trigger keeps a channel in log order.
LEMMA AppendKeepsOrder ==
    ASSUME NEW s \in Seq(Triggers), NEW p \in Triggers,
           \A i \in DOMAIN s : s[i] < p,
           \A i, j \in DOMAIN s : i < j => s[i] < s[j]
    PROVE  LET r == Append(s, p) IN
           /\ \A i \in DOMAIN r : (i \in DOMAIN s /\ r[i] = s[i]) \/ r[i] = p
           /\ \A i, j \in DOMAIN r : i < j => r[i] < r[j]
<1> DEFINE r == Append(s, p)
<1>1. Len(s) \in Nat /\ DOMAIN s = 1 .. Len(s) /\ DOMAIN r = 1 .. Len(s) + 1
  OBVIOUS
<1>2. r[Len(s) + 1] = p /\ \A i \in 1 .. Len(s) : r[i] = s[i]
  OBVIOUS
<1> HIDE DEF r
<1>3. \A i \in DOMAIN r : (i \in DOMAIN s /\ r[i] = s[i]) \/ r[i] = p
  BY <1>1, <1>2
<1>4. ASSUME NEW i \in DOMAIN r, NEW j \in DOMAIN r, i < j PROVE r[i] < r[j]
  <2>1. i \in 1 .. Len(s)
    BY <1>1, <1>4
  <2>2. CASE j \in 1 .. Len(s)
    BY <1>1, <1>2, <1>4, <2>1, <2>2
  <2>3. CASE j = Len(s) + 1
    BY <1>1, <1>2, <2>1, <2>3
  <2> QED
    BY <1>1, <1>4, <2>2, <2>3
<1> QED
  BY <1>3, <1>4 DEF r

\* Taking the head leaves the later ones, in order.
LEMMA TailKeepsOrder ==
    ASSUME NEW s \in Seq(Triggers), s # <<>>,
           \A i, j \in DOMAIN s : i < j => s[i] < s[j]
    PROVE  LET r == Tail(s) IN
           /\ 1 \in DOMAIN s /\ Head(s) = s[1]
           /\ \A i \in DOMAIN r : i + 1 \in DOMAIN s /\ r[i] = s[i + 1] /\ Head(s) < r[i]
           /\ \A i, j \in DOMAIN r : i < j => r[i] < r[j]
<1> DEFINE r == Tail(s)
<1>1. /\ Len(s) \in Nat \ {0} /\ DOMAIN s = 1 .. Len(s) /\ DOMAIN r = 1 .. Len(s) - 1
      /\ Head(s) = s[1]
  OBVIOUS
<1>2. \A i \in 1 .. Len(s) - 1 : r[i] = s[i + 1]
  OBVIOUS
<1> HIDE DEF r
<1>3. ASSUME NEW i \in DOMAIN r PROVE i + 1 \in DOMAIN s /\ r[i] = s[i + 1] /\ Head(s) < r[i]
  <2>1. i \in Nat /\ i + 1 \in 1 .. Len(s) /\ 1 < i + 1 /\ 1 \in DOMAIN s
    BY <1>1
  <2> QED
    BY <1>1, <1>2, <2>1
<1>4. ASSUME NEW i \in DOMAIN r, NEW j \in DOMAIN r, i < j PROVE r[i] < r[j]
  <2>1. i + 1 < j + 1
    BY <1>1, <1>4
  <2> QED
    BY <1>3, <2>1
<1> QED
  BY <1>1, <1>3, <1>4 DEF r

\* Acks appear when the channel is drained, and are gone once applied.
LEMMA AcksMove ==
    ASSUME Kinds, CompletionsSound, [Next]_vars, NEW u \in Task
    PROVE  \/ task'[u].acks = {}
           \/ task'[u].acks = task[u].acks /\ (task[u].acks # {} => task'[u].pc = "apply")
           \/ DrainComps(u)
<1> DEFINE Goal == \/ task'[u].acks = {}
                   \/ /\ task'[u].acks = task[u].acks
                      /\ task[u].acks # {} => task'[u].pc = "apply"
                   \/ DrainComps(u)
<1>0. task[u] \in TaskRec /\ task \in [Task -> TaskRec]
  BY DEF Kinds, TaskOK
<1>1. task[u].acks # {} => task[u].pc = "apply"
  BY DEF CompletionsSound
<1>2. ASSUME task'[u] = task[u] PROVE Goal
  BY <1>1, <1>2
<1>3. ASSUME NEW t \in Task, t # u,
             \/ DrainComps(t) \/ ApplyAcks(t) \/ MoveFloor(t) \/ Persist(t)
             \/ PersistFails(t) \/ Note(t) \/ CollectMemos(t) \/ Probe(t) \/ Answer(t) \/ Again(t)
      PROVE  task'[u] = task[u]
  BY <1>0, <1>3 DEF DrainComps, ApplyAcks, MoveFloor, Persist, PersistFails, Note, CollectMemos,
                    Probe, Answer, Again, Goto
<1>4. ASSUME u # Supervisor, Step \/ Noted \/ ReadBatch \/ EndBatch PROVE task'[u] = task[u]
  BY <1>0, <1>4, Constants DEF Step, Noted, ReadBatch, EndBatch, Goto
<1>5. ASSUME task[u].pc # "apply", task'[u].acks = task[u].acks PROVE Goal
  BY <1>1, <1>5
<1>6. CASE MoveFloor(u) \/ Persist(u) \/ Note(u) \/ CollectMemos(u) \/ Answer(u)
  <2>1. task[u].pc # "apply"
    BY <1>6 DEF MoveFloor, Persist, Note, CollectMemos, Answer, At
  <2>2. task'[u].acks = task[u].acks
    BY <1>0, <1>6 DEF MoveFloor, Persist, Note, CollectMemos, Answer, Goto, TaskRec
  <2> QED
    BY <1>5, <2>1, <2>2
<1>7. CASE ApplyAcks(u) \/ PersistFails(u) \/ Again(u) \/ Crash
  <2>1. task'[u].acks = {}
    <3>1. CASE ApplyAcks(u)
      BY <1>0, <3>1 DEF ApplyAcks, TaskRec
    <3>2. CASE PersistFails(u) \/ Again(u)
      BY <1>0, <3>2 DEF PersistFails, Again, IdleTask
    <3>3. CASE Crash
      BY <3>3 DEF Crash, IdleTask
    <3> QED
      BY <1>7, <3>1, <3>2, <3>3
  <2> QED
    BY <2>1
<1>8. CASE Probe(u)
  <2> PICK w \in Workflow, n \in 1 .. tip, pc \in {"reap", "yes", "no"} :
           task' = [task EXCEPT ![u] = [IdleTask EXCEPT !.wf = w, !.hw = n, !.pc = pc]]
    BY <1>8 DEF Probe
  <2>1. task'[u].acks = {}
    BY <1>0 DEF IdleTask
  <2> QED
    BY <2>1
<1>9. ASSUME u = Supervisor, Step \/ Noted \/ ReadBatch \/ EndBatch PROVE Goal
  <2>1. task[u].pc # "apply"
    BY <1>9 DEF Step, Noted, ReadBatch, EndBatch, At
  <2>2. task'[u].acks = task[u].acks \/ task'[u].acks = {}
    BY <1>0, <1>9 DEF Step, Noted, ReadBatch, EndBatch, Goto, IdleTask, TaskRec
  <2> QED
    BY <1>5, <2>1, <2>2
<1> QED
  BY <1>2, <1>3, <1>4, <1>6, <1>7, <1>8, <1>9, WhoMoves, Constants

\* A waiting trigger waits until its own completion is applied.
LEMMA WaitingStays ==
    ASSUME Kinds, CompletionsSound, [Next]_vars, NEW p \in Triggers, Waiting(p)
    PROVE  \/ Waiting(p)'
           \/ Crash
           \/ \E t \in Task : ApplyAcks(t) /\ \E c \in task[t].acks : c.pos = p
<1> USE DEF Waiting
<1>1. ASSUME NEW t \in Task, ApplyAcks(t), ~ \E c \in task[t].acks : c.pos = p
      PROVE  Waiting(p)'
  BY <1>1 DEF ApplyAcks
<1>2. ASSUME NEW t \in Task, MoveFloor(t) PROVE Waiting(p)'
  <2>1. p \notin Passed
    BY Constants DEF Passed, Pend
  <2> QED
    BY <1>2, <2>1 DEF MoveFloor
<1>3. ASSUME NEW q \in Position, IngestTrigger(q) PROVE Waiting(p)'
  BY <1>3 DEF IngestTrigger, Kinds, WindowOK
<1>4. ASSUME UNCHANGED pending PROVE Waiting(p)'
  BY <1>4
<1> QED
  BY <1>1, <1>2, <1>3, <1>4, WhoMoves

LEMMA CompletionsNext ==
    ASSUME Kinds, CompletionsSound, HandsSound, [Next]_vars
    PROVE  CompletionsSound'
<1> USE DEF SentSound, OnePerTrigger, Apart
<1>0. /\ \A c \in comps : c.pos \in Triggers
      /\ \A t \in Task : \A c \in task[t].acks : c.pos \in Triggers
  BY DEF Kinds, SetsOK, TaskOK, TaskRec, Completion
<1>1. CASE Crash
  BY <1>1 DEF Crash, IdleTask, CompletionsSound
<1>2. ASSUME NEW t \in Task, ApplyAcks(t) PROVE CompletionsSound'
  <2>1. /\ task'[t].acks = {} /\ comps' = comps /\ done' = done
        /\ \A u \in Task : u # t => task'[u] = task[u]
    BY <1>2 DEF ApplyAcks, Kinds, TaskOK, TaskRec, durable
  <2>2. ASSUME NEW p \in Triggers, Waiting(p), \A c \in task[t].acks : c.pos # p
        PROVE  Waiting(p)'
    BY <1>2, <2>2 DEF ApplyAcks, Waiting
  <2>3. SentSound(comps)'
    BY <1>0, <2>1, <2>2 DEF CompletionsSound
  <2>4. \A u \in Task : u # t => SentSound(task[u].acks)'
    BY <1>0, <2>1, <2>2 DEF CompletionsSound
  <2> QED
    BY <2>1, <2>3, <2>4 DEF CompletionsSound
<1>3. ASSUME ~ \E t \in Task : ApplyAcks(t), ~Crash
      PROVE  \A p \in Triggers : Waiting(p) /\ p \in done => Waiting(p)' /\ p \in done'
  BY <1>3, WaitingStays, ThroughStays
<1>4. ASSUME NEW t \in Task, DrainComps(t) PROVE CompletionsSound'
  <2>1. /\ task'[t].acks = comps /\ task'[t].pc = "apply" /\ comps' = {}
        /\ done' = done /\ pending' = pending
        /\ \A u \in Task : u # t => task'[u] = task[u]
    BY <1>4 DEF DrainComps, Kinds, TaskOK, TaskRec, durable, dispatch
  <2> QED
    BY <2>1 DEF CompletionsSound, Waiting
<1>5. ASSUME ~Crash, ~ \E t \in Task : DrainComps(t) \/ ApplyAcks(t)
      PROVE  \A u \in Task : \/ task'[u].acks = {}
                            \/ /\ task'[u].acks = task[u].acks
                               /\ task[u].acks # {} => task'[u].pc = "apply"
  BY <1>5, AcksMove
<1>6. ASSUME NEW g \in Gen, Complete(g) PROVE CompletionsSound'
  <2>1. /\ worker[g].cur \in Triggers /\ Waiting(worker[g].cur)
        /\ worker[g].cur \notin Completing
    BY <1>6 DEF Complete, HandsSound, HandSound, HeldFor, Alive
  <2>2. PICK c : c.pos = worker[g].cur /\ comps' = comps \cup {c}
    BY <1>6 DEF Complete
  <2>3. task' = task /\ pending' = pending /\ done' = done \cup {worker[g].cur}
    BY <1>6 DEF Complete, dispatch
  <2>4. /\ \A d \in comps : d.pos # c.pos
        /\ \A t \in Task : \A d \in task[t].acks : d.pos # c.pos
    BY <2>1, <2>2 DEF Completing
  <2>5. SentSound(comps)' /\ OnePerTrigger(comps)'
    BY <2>1, <2>2, <2>3, <2>4 DEF CompletionsSound, Waiting
  <2>6. ASSUME NEW t \in Task
        PROVE  /\ SentSound(task[t].acks)' /\ OnePerTrigger(task[t].acks)'
               /\ Apart(comps, task[t].acks)'
               /\ (task[t].acks # {} => task[t].pc = "apply")'
    BY <2>2, <2>3, <2>4 DEF CompletionsSound, Waiting
  <2>7. \A t, u \in Task : t # u => Apart(task[t].acks, task[u].acks)'
    BY <2>3 DEF CompletionsSound
  <2> QED
    BY <2>5, <2>6, <2>7 DEF CompletionsSound
<1>7. ASSUME ~Crash, ~ \E t \in Task : DrainComps(t) \/ ApplyAcks(t),
             ~ \E g \in Gen : Complete(g)
      PROVE  CompletionsSound'
  <2>1. comps' = comps
    BY <1>7, WhoMoves
  <2>2. SentSound(comps)' /\ OnePerTrigger(comps)'
    BY <1>0, <1>3, <1>7, <2>1 DEF CompletionsSound
  <2>3. ASSUME NEW t \in Task
        PROVE  /\ SentSound(task[t].acks)' /\ OnePerTrigger(task[t].acks)'
               /\ Apart(comps, task[t].acks)'
               /\ (task[t].acks # {} => task[t].pc = "apply")'
    BY <1>0, <1>3, <1>5, <1>7, <2>1 DEF CompletionsSound
  <2>4. \A t, u \in Task : t # u => Apart(task[t].acks, task[u].acks)'
    BY <1>5, <1>7 DEF CompletionsSound
  <2> QED
    BY <2>2, <2>3, <2>4 DEF CompletionsSound
<1> QED
  BY <1>1, <1>2, <1>4, <1>6, <1>7

\* What is held stays in hand, unless its holder completes it or all are dropped.
LEMMA HeldStays ==
    ASSUME Kinds, CompletionsSound, HandsSound, [Next]_vars, ~Crash,
           NEW p \in Triggers, Waiting(p), p \notin Completing,
           \A g \in Gen : Complete(g) => worker[g].cur # p
    PROVE  Waiting(p)' /\ p \notin Completing'
<1>1. Waiting(p)'
  BY WaitingStays DEF Completing
<1>2. \A c \in comps' : c.pos # p
  <2>1. ASSUME NEW g \in Gen, Complete(g) PROVE \A c \in comps' : c.pos # p
    <3>1. PICK c : c.pos = worker[g].cur /\ comps' = comps \cup {c}
      BY <2>1 DEF Complete
    <3> QED
      BY <2>1, <3>1 DEF Completing
  <2>2. ASSUME NEW t \in Task, DrainComps(t) PROVE \A c \in comps' : c.pos # p
    BY <2>2 DEF DrainComps
  <2>3. ASSUME UNCHANGED comps PROVE \A c \in comps' : c.pos # p
    BY <2>3 DEF Completing
  <2> QED
    BY <2>1, <2>2, <2>3, WhoMoves
<1>3. ASSUME NEW t \in Task PROVE \A c \in task'[t].acks : c.pos # p
  <2>1. CASE DrainComps(t)
    <3>1. task'[t].acks = comps
      BY <2>1 DEF DrainComps, Kinds, TaskOK, TaskRec
    <3> QED
      BY <3>1 DEF Completing
  <2>2. CASE task'[t].acks \in {{}, task[t].acks}
    BY <2>2 DEF Completing
  <2> QED
    BY <2>1, <2>2, AcksMove
<1> QED
  BY <1>1, <1>2, <1>3 DEF Completing

\* A hand that is not touched stays as it is.
LEMMA HandStays ==
    ASSUME Kinds, NEW h \in Gen, HandSound(h),
           queue'[h] = queue[h], worker'[h].pc = worker[h].pc, worker'[h].cur = worker[h].cur,
           Alive(h) => handle'[PartOf[h]] = h,
           Alive(h) => \A p \in Triggers : HeldFor(h, p) => Waiting(p)' /\ p \notin Completing'
    PROVE  HandSound(h)'
<1>1. SUFFICES ASSUME Alive(h)' PROVE HandSound(h)'
  BY DEF HandSound
<1>2. Alive(h)
  BY <1>1 DEF Alive
<1>3. \A i \in DOMAIN queue[h] : queue[h][i] \in Triggers
  BY DEF Kinds, QueueOK, Gen
<1>4. \A p \in Triggers : HeldFor(h, p) => HeldFor(h, p)'
  BY <1>2 DEF HeldFor
<1>5. \A i \in DOMAIN queue'[h] : HeldFor(h, queue[h][i])'
  BY <1>2, <1>3, <1>4 DEF HandSound, HeldFor
<1>6. worker'[h].pc = "busy" => worker'[h].cur \in Triggers /\ HeldFor(h, worker[h].cur)'
  BY <1>2, <1>4 DEF HandSound, HeldFor
<1> QED
  BY <1>2, <1>5, <1>6 DEF HandSound

\* Partitions keep workers apart: only its own holder completes a trigger.
LEMMA KeptInHand ==
    ASSUME Kinds, CompletionsSound, HandsSound, [Next]_vars, ~Crash,
           NEW h \in Gen, Alive(h), NEW p \in Triggers, HeldFor(h, p),
           Complete(h) => worker[h].cur # p
    PROVE  HeldFor(h, p)'
<1>1. ASSUME NEW g \in Gen, Complete(g) PROVE worker[g].cur # p
  <2>1. CASE g = h
    BY <1>1, <2>1
  <2>2. CASE g # h
    <3>1. Alive(g) /\ HeldFor(g, worker[g].cur)
      BY <1>1 DEF Complete, Alive, HandsSound, HandSound
    <3>2. handle[PartOf[g]] = g /\ handle[PartOf[h]] = h
      BY <3>1 DEF HandsSound, HandSound
    <3> QED
      BY <2>2, <3>1, <3>2 DEF HeldFor
  <2> QED
    BY <2>1, <2>2
<1> QED
  BY <1>1, HeldStays DEF HeldFor

LEMMA HandlesNext ==
    ASSUME Kinds, HandsSound, [Next]_vars
    PROVE  (\A k \in Partition : handle[k] # 0 => PartOf[handle[k]] = k)'
<1> DEFINE Fits == \A k \in Partition : handle[k] # 0 => PartOf[handle[k]] = k
<1>0. Fits /\ handle \in [Partition -> Triggers \cup {0}]
  BY DEF HandsSound, Kinds, WindowOK
<1>1. ASSUME NEW q \in Position, IngestTrigger(q) PROVE Fits'
  BY <1>0, <1>1 DEF IngestTrigger, Enqueue
<1>2. ASSUME NEW g \in Gen, Deregister(g) PROVE Fits'
  BY <1>0, <1>2 DEF Deregister
<1>3. CASE Crash
  BY <1>3 DEF Crash
<1>4. ASSUME UNCHANGED handle PROVE Fits'
  BY <1>0, <1>4
<1>5. ASSUME NEW g \in Gen, \/ TryRecv(g) \/ Complete(g) \/ Memoize(g) \/ Abandon(g) \/ Die(g)
      PROVE  UNCHANGED handle
  BY <1>5 DEF TryRecv, Complete, Memoize, Abandon, Die, dispatch
<1> QED
  BY <1>1, <1>2, <1>3, <1>4, <1>5, WhoMoves

\* A trigger goes to its partition's worker, behind all that it holds.
LEMMA EnqueueKeepsHands ==
    ASSUME Kinds, WindowSound, CompletionsSound, HandsSound, [Next]_vars,
           NEW q \in Position, IngestTrigger(q), NEW h \in Gen
    PROVE  HandSound(h)'
<1> DEFINE k == PartOf[q]
           g == handle[k]
<1>0. /\ q \in Triggers /\ q = ingest + 1 /\ ingest \in Nat /\ Enqueue(q)
      /\ pending' = [pending EXCEPT ![q] = "waiting"]
      /\ UNCHANGED <<comps, task>> /\ ~Crash /\ k \in Partition
      /\ Triggers \subseteq Nat \ {0}
  <2>1. ~Crash
    BY DEF IngestTrigger, Crash, budgets, Kinds, BudgetsOK
  <2>2. q \in Triggers /\ k \in Partition /\ Triggers \subseteq Nat \ {0}
    BY Constants DEF IngestTrigger
  <2> QED
    BY <2>1, <2>2, Constants DEF IngestTrigger, Ingesting, Kinds, NumbersOK
<1>1. ~Waiting(q) /\ Waiting(q)'
  BY <1>0, Constants DEF WindowSound, Waiting, Kinds, WindowOK
<1>2. q \notin Completing' /\ Completing' = Completing
  BY <1>0, <1>1 DEF CompletionsSound, SentSound, Completing
<1>3. ASSUME NEW p \in Triggers, Waiting(p) PROVE p < q /\ Waiting(p)'
  BY <1>0, <1>3, Constants DEF WindowSound, Waiting, Kinds, WindowOK
<1>4. \A p \in Triggers : HeldFor(h, p) => Waiting(p)' /\ p \notin Completing'
  BY <1>2, <1>3 DEF HeldFor
<1>5. HandSound(h)
  BY DEF HandsSound
<1>6. /\ queue \in [Gen -> Seq(Triggers)] /\ worker \in [Gen -> WorkerRec]
      /\ handle \in [Partition -> Triggers \cup {0}]
  BY DEF Kinds, QueueOK, WorkerOK, WindowOK
<1>7. CASE g # 0 /\ Alive(g)
  <2>1. /\ queue' = [queue EXCEPT ![g] = Append(queue[g], q)]
        /\ handle' = handle /\ worker' = worker
    BY <1>0, <1>7 DEF Enqueue
  <2>2. g \in Gen /\ PartOf[g] = k
    BY <1>0, <1>6, <1>7 DEF HandsSound, Gen
  <2>3. CASE h # g
    <3>1. queue'[h] = queue[h]
      BY <1>6, <2>1, <2>3
    <3>2. Alive(h) => handle'[PartOf[h]] = h
      BY <1>5, <2>1 DEF HandSound
    <3> QED
      BY <1>4, <1>5, <2>1, <3>1, <3>2, HandStays
  <2>4. CASE h = g
    <3> DEFINE s == queue[h]
               r == Append(s, q)
    <3>1. /\ handle[PartOf[h]] = h
          /\ \A i \in DOMAIN s : HeldFor(h, s[i])
          /\ \A i, j \in DOMAIN s : i < j => s[i] < s[j]
          /\ worker[h].pc = "busy" =>
                /\ worker[h].cur \in Triggers /\ HeldFor(h, worker[h].cur)
                /\ \A i \in DOMAIN s : worker[h].cur < s[i]
      BY <1>5, <1>7, <2>4 DEF HandSound
    <3>2. s \in Seq(Triggers) /\ \A i \in DOMAIN s : s[i] \in Triggers
      BY <1>6
    <3>3. queue'[h] = r
      BY <1>6, <2>1, <2>4
    <3>4. \A i \in DOMAIN s : s[i] < q
      BY <1>3, <3>1, <3>2 DEF HeldFor
    <3>5. /\ \A i \in DOMAIN r : (i \in DOMAIN s /\ r[i] = s[i]) \/ r[i] = q
          /\ \A i, j \in DOMAIN r : i < j => r[i] < r[j]
      BY <1>0, <3>1, <3>2, <3>4, AppendKeepsOrder
    <3> HIDE DEF r, s
    <3>6. HeldFor(h, q)'
      BY <1>1, <1>2, <2>2, <2>4 DEF HeldFor
    <3>7. \A p \in Triggers : HeldFor(h, p) => HeldFor(h, p)'
      BY <1>4 DEF HeldFor
    <3>8. \A i \in DOMAIN queue'[h] : HeldFor(h, queue[h][i])'
      BY <3>1, <3>2, <3>3, <3>5, <3>6, <3>7
    <3>9. worker[h].pc = "busy" =>
             /\ worker[h].cur \in Triggers /\ HeldFor(h, worker[h].cur)'
             /\ \A i \in DOMAIN r : worker[h].cur < r[i]
      <4> SUFFICES ASSUME worker[h].pc = "busy"
                   PROVE  /\ worker[h].cur \in Triggers /\ HeldFor(h, worker[h].cur)'
                          /\ \A i \in DOMAIN r : worker[h].cur < r[i]
        OBVIOUS
      <4>1. worker[h].cur \in Triggers /\ HeldFor(h, worker[h].cur)
        BY <3>1
      <4>2. worker[h].cur < q
        BY <1>3, <4>1 DEF HeldFor
      <4>3. HeldFor(h, worker[h].cur)'
        BY <2>1, <3>7, <4>1 DEF HeldFor
      <4> QED
        BY <3>1, <3>5, <4>1, <4>2, <4>3
    <3> QED
      BY <2>1, <3>1, <3>3, <3>5, <3>8, <3>9 DEF HandSound
  <2> QED
    BY <2>3, <2>4
<1>8. CASE ~(g # 0 /\ Alive(g))
  <2>1. /\ handle' = [handle EXCEPT ![k] = q]
        /\ queue' = [queue EXCEPT ![q] = <<q>>]
        /\ worker' = [worker EXCEPT ![q] = [IdleWorker EXCEPT !.pc = "loop"]]
    BY <1>0, <1>8 DEF Enqueue
  <2>2. CASE h # q
    <3>1. Alive(h) => PartOf[h] # k
      <4>1. Alive(h) => handle[PartOf[h]] = h /\ h # 0
        BY <1>0, <1>5 DEF HandSound, Gen
      <4> QED
        BY <1>8, <4>1
    <3>2. queue'[h] = queue[h] /\ worker'[h] = worker[h]
      BY <1>6, <2>1, <2>2
    <3>3. Alive(h) => handle'[PartOf[h]] = h
      BY <1>5, <1>6, <2>1, <3>1, Constants DEF HandSound, Gen
    <3> QED
      BY <1>4, <1>5, <3>2, <3>3, HandStays
  <2>3. CASE h = q
    <3>1. /\ handle'[PartOf[h]] = h /\ queue'[h] = <<q>> /\ worker'[h].pc = "loop"
      BY <1>0, <1>6, <2>1, <2>3 DEF Gen, IdleWorker
    <3>2. DOMAIN queue'[h] = {1} /\ queue'[h][1] = q
      BY <3>1
    <3>3. HeldFor(h, q)'
      BY <1>1, <1>2, <2>3 DEF HeldFor
    <3>4. \A i \in DOMAIN queue'[h] : HeldFor(h, queue[h][i])'
      BY <3>2, <3>3 DEF HeldFor
    <3> QED
      BY <3>1, <3>2, <3>4 DEF HandSound
  <2> QED
    BY <2>2, <2>3
<1> QED
  BY <1>7, <1>8

\* Popping the head of its channel, a worker holds it and the rest.
LEMMA TakeKeepsHand ==
    ASSUME Kinds, CompletionsSound, HandsSound, [Next]_vars, ~Crash,
           NEW g \in Gen, Alive(g), Take(g), ~Complete(g), handle' = handle
    PROVE  HandSound(g)'
<1> DEFINE s == queue[g]
           r == Tail(s)
<1>1. s \in Seq(Triggers) /\ s # <<>> /\ \A i \in DOMAIN s : s[i] \in Triggers
  BY DEF Take, Kinds, QueueOK
<1>2. /\ handle[PartOf[g]] = g
      /\ \A i \in DOMAIN s : HeldFor(g, s[i])
      /\ \A i, j \in DOMAIN s : i < j => s[i] < s[j]
  BY DEF HandsSound, HandSound
<1>3. /\ queue'[g] = r
      /\ worker'[g] = [pc |-> "busy", cur |-> Head(s), used |-> FALSE]
  BY DEF Take, Becomes, Kinds, QueueOK, WorkerOK
<1>4. /\ 1 \in DOMAIN s /\ Head(s) = s[1]
      /\ \A i \in DOMAIN r : i + 1 \in DOMAIN s /\ r[i] = s[i + 1] /\ Head(s) < r[i]
      /\ \A i, j \in DOMAIN r : i < j => r[i] < r[j]
  BY <1>1, <1>2, TailKeepsOrder
<1> HIDE DEF r, s
<1>5. \A p \in Triggers : HeldFor(g, p) => HeldFor(g, p)'
  BY KeptInHand
<1>6. \A i \in DOMAIN queue'[g] : HeldFor(g, queue[g][i])'
  BY <1>1, <1>2, <1>3, <1>4, <1>5
<1>7. worker'[g].cur \in Triggers /\ HeldFor(g, worker[g].cur)'
  BY <1>1, <1>2, <1>3, <1>4, <1>5
<1> QED
  BY <1>2, <1>3, <1>4, <1>6, <1>7 DEF HandSound

LEMMA HandsNext ==
    ASSUME Kinds, WindowSound, CompletionsSound, HandsSound, [Next]_vars
    PROVE  HandsSound'
<1> SUFFICES ASSUME NEW h \in Gen PROVE HandSound(h)'
  BY HandlesNext DEF HandsSound
<1>0. /\ HandSound(h) /\ queue \in [Gen -> Seq(Triggers)] /\ worker \in [Gen -> WorkerRec]
      /\ handle \in [Partition -> Triggers \cup {0}] /\ PartOf[h] \in Partition
      /\ h # 0
  BY Constants DEF HandsSound, Kinds, QueueOK, WorkerOK, WindowOK, Gen
<1>1. CASE Crash
  BY <1>1 DEF Crash, HandSound, Alive, IdleWorker
<1>2. ASSUME NEW q \in Position, IngestTrigger(q) PROVE HandSound(h)'
  BY <1>2, EnqueueKeepsHands
<1>3. ASSUME ~Crash, ~Complete(h), queue'[h] = queue[h], worker'[h].pc = worker[h].pc,
             worker'[h].cur = worker[h].cur, Alive(h) => handle'[PartOf[h]] = h
      PROVE  HandSound(h)'
  <2>1. Alive(h) => \A p \in Triggers : HeldFor(h, p) => Waiting(p)' /\ p \notin Completing'
    BY <1>3, KeptInHand DEF HeldFor
  <2> QED
    BY <1>0, <1>3, <2>1, HandStays
<1>4. CASE UNCHANGED <<handle, queue, worker>> /\ ~Crash
  <2>1. ~Complete(h)
    BY <1>0, <1>4 DEF Complete, Becomes
  <2> QED
    BY <1>0, <1>3, <1>4, <2>1 DEF HandSound
<1>5. ASSUME NEW g \in Gen, g # h, ~Crash,
             \/ TryRecv(g) \/ Deregister(g) \/ Complete(g) \/ Memoize(g) \/ Abandon(g) \/ Die(g)
      PROVE  HandSound(h)'
  <2>1. queue'[h] = queue[h] /\ worker'[h] = worker[h]
    BY <1>0, <1>5 DEF TryRecv, Deregister, Complete, Memoize, Abandon, Die, Take, Becomes
  <2>2. handle' = handle \/ handle' = [k \in Partition |-> IF handle[k] = g THEN 0 ELSE handle[k]]
    BY <1>5 DEF TryRecv, Deregister, Complete, Memoize, Abandon, Die, dispatch
  <2>3. Alive(h) => handle'[PartOf[h]] = h
    BY <1>0, <1>5, <2>2 DEF HandSound
  <2>4. ~Complete(h)
    BY <1>0, <2>1 DEF Complete, Becomes
  <2> QED
    BY <1>3, <1>5, <2>1, <2>3, <2>4
<1>6. ASSUME worker'[h].pc = "none" PROVE HandSound(h)'
  BY <1>6 DEF HandSound, Alive
<1>7. CASE Abandon(h) \/ Die(h)
  BY <1>0, <1>6, <1>7 DEF Abandon, Die, Becomes
<1>8. ASSUME ~Crash, Alive(h), handle' = handle, queue'[h] = queue[h],
             worker'[h].pc \in {"loop", "empty"}, Complete(h) => worker[h].pc = "busy"
      PROVE  HandSound(h)'
  <2>1. \A i \in DOMAIN queue[h] : queue[h][i] \in Triggers
    BY <1>0
  <2>2. \A i \in DOMAIN queue[h] : HeldFor(h, queue[h][i])
    BY <1>0, <1>8 DEF HandSound
  <2>3. ASSUME NEW i \in DOMAIN queue[h], Complete(h) PROVE worker[h].cur # queue[h][i]
    <3>1. worker[h].cur \in Triggers /\ worker[h].cur < queue[h][i]
      BY <1>0, <1>8, <2>3 DEF HandSound
    <3>2. worker[h].cur \in Nat /\ queue[h][i] \in Nat
      BY <2>1, <3>1, Constants
    <3> HIDE DEF Gen
    <3> QED
      BY <3>1, <3>2
  <2>4. ASSUME NEW i \in DOMAIN queue[h] PROVE HeldFor(h, queue[h][i])'
    <3>1. PICK p \in Triggers : p = queue[h][i]
      BY <2>1
    <3>2. HeldFor(h, p) /\ (Complete(h) => worker[h].cur # p)
      BY <2>2, <2>3, <3>1
    <3>3. HeldFor(h, p)'
      BY <1>8, <3>2, KeptInHand
    <3>4. queue'[h][i] = p
      BY <1>8, <3>1
    <3> QED
      BY <3>3, <3>4 DEF HeldFor
  <2>5. \A i \in DOMAIN queue'[h] : HeldFor(h, queue[h][i])'
    BY <1>8, <2>4
  <2> QED
    BY <1>0, <1>8, <2>5 DEF HandSound
<1>9. CASE TryRecv(h) /\ ~Crash
  <2>1. Alive(h) /\ worker[h].pc = "loop" /\ ~Complete(h) /\ handle' = handle
    BY <1>9 DEF TryRecv, Alive, Complete, dispatch
  <2>2. CASE Take(h)
    BY <1>9, <2>1, <2>2, TakeKeepsHand
  <2>3. CASE Becomes(h, "empty", 0) /\ UNCHANGED queue
    BY <1>0, <1>8, <1>9, <2>1, <2>3 DEF Becomes
  <2>4. CASE Becomes(h, "none", 0)
    BY <1>0, <1>6, <2>4 DEF Becomes
  <2> QED
    BY <1>9, <2>2, <2>3, <2>4 DEF TryRecv
<1>10. CASE Deregister(h) /\ ~Crash
  <2>1. Alive(h) /\ ~Complete(h)
    BY <1>10 DEF Deregister, Alive, Complete
  <2>2. CASE Take(h) /\ UNCHANGED handle
    BY <1>10, <2>1, <2>2, TakeKeepsHand
  <2>3. CASE Becomes(h, "none", 0)
    BY <1>0, <1>6, <2>3 DEF Becomes
  <2> QED
    BY <1>10, <2>2, <2>3 DEF Deregister
<1>11. CASE Complete(h) /\ ~Crash
  <2>1. Alive(h) /\ worker[h].pc = "busy" /\ handle' = handle /\ queue' = queue
    BY <1>11 DEF Complete, Alive, dispatch
  <2>2. worker'[h].pc = "loop"
    BY <1>0, <1>11 DEF Complete, Becomes
  <2> QED
    BY <1>8, <1>11, <2>1, <2>2
<1>12. CASE Memoize(h) /\ ~Crash
  <2>1. /\ handle' = handle /\ queue' = queue
        /\ worker'[h].pc = worker[h].pc /\ worker'[h].cur = worker[h].cur
    BY <1>0, <1>12 DEF Memoize, dispatch, WorkerRec
  <2>2. ~Complete(h)
    BY <2>1, <1>0 DEF Complete, Becomes
  <2> QED
    BY <1>0, <1>3, <1>12, <2>1, <2>2 DEF HandSound
<1> QED
  BY <1>1, <1>2, <1>4, <1>5, <1>7, <1>9, <1>10, <1>11, <1>12, WhoMoves

-----------------------------------------------------------------------------
(* The count.                                                               *)

LEMMA FiniteTriggers == IsFiniteSet(Triggers)
<1>1. IsFiniteSet(1 .. MaxLog)
  BY Constants, FS_Interval
<1>2. Triggers \in SUBSET (1 .. MaxLog)
  BY Constants DEF Position
<1> QED
  BY <1>1, <1>2, FS_Subset

\* Completions of different triggers are as many as the triggers.
LEMMA AcksCountTriggers ==
    ASSUME NEW A \in SUBSET Completion, OnePerTrigger(A)
    PROVE  /\ IsFiniteSet({c.pos : c \in A})
           /\ Cardinality(A) = Cardinality({c.pos : c \in A})
<1> DEFINE P == {c.pos : c \in A}
           f == [c \in A |-> c.pos]
<1>1. P \in SUBSET Triggers
  BY DEF Completion
<1>2. IsFiniteSet(P)
  BY <1>1, FiniteTriggers, FS_Subset
<1>3. f \in Injection(A, P) /\ f \in Surjection(A, P)
  BY DEF Injection, IsInjective, Surjection, OnePerTrigger
<1> HIDE DEF f, P
<1>4. Cardinality(A) = Cardinality(P)
  BY <1>2, <1>3, FS_Injection
<1> QED
  BY <1>2, <1>4 DEF P

LEMMA WaitingIsFinite ==
    ASSUME NEW w
    PROVE  IsFiniteSet(WaitingOf(w)) /\ Cardinality(WaitingOf(w)) \in Nat
<1>1. WaitingOf(w) \in SUBSET Triggers
  BY DEF WaitingOf
<1>2. IsFiniteSet(WaitingOf(w))
  BY <1>1, FiniteTriggers, FS_Subset
<1> QED
  BY <1>2, FS_CardinalityType

LEMMA FiniteApart ==
    ASSUME NEW S, NEW T, IsFiniteSet(S), IsFiniteSet(T), S \cap T = {}
    PROVE  Cardinality(S \cup T) = Cardinality(S) + Cardinality(T)
<1>1. Cardinality(S) \in Nat /\ Cardinality(T) \in Nat /\ Cardinality({}) = 0
  BY FS_CardinalityType, FS_EmptySet
<1>2. Cardinality(S \cup T) = Cardinality(S) + Cardinality(T) - Cardinality(S \cap T)
  BY FS_Union
<1>3. Cardinality(S \cap T) = 0
  BY <1>1, Zenon
<1> QED
  BY <1>1, <1>2, <1>3

LEMMA CountNext ==
    ASSUME TypeOK, WindowSound, CompletionsSound, CountSound, [Next]_vars
    PROVE  CountSound' /\ wfPending' \in [Workflow -> Nat]
<1>0. Kinds /\ wfPending \in [Workflow -> Nat]
  BY KindsAreTypes
<1> USE DEF Kinds
<1> DEFINE Fine == CountSound' /\ wfPending' \in [Workflow -> Nat]
<1>1. ASSUME wfPending' = wfPending, \A p \in Triggers : Waiting(p)' <=> Waiting(p)
      PROVE  Fine
  <2>1. \A w \in Workflow : WaitingOf(w)' = WaitingOf(w)
    BY <1>1 DEF WaitingOf
  <2> QED
    BY <1>0, <1>1, <2>1 DEF CountSound
<1>2. CASE Crash
  <2>1. \A w \in Workflow : WaitingOf(w)' = {}
    BY <1>2 DEF Crash, WaitingOf, Waiting
  <2>2. wfPending' = [w \in Workflow |-> 0]
    BY <1>2 DEF Crash
  <2> QED
    BY <2>1, <2>2, FS_EmptySet DEF CountSound
<1>3. ASSUME NEW t \in Task, MoveFloor(t) PROVE Fine
  <2>1. wfPending' = wfPending
    BY <1>3 DEF MoveFloor
  <2>2. ASSUME NEW p \in Triggers PROVE Waiting(p)' <=> Waiting(p)
    <3>1. Waiting(p) => p \notin Passed
      BY Constants DEF Passed, Pend, Waiting
    <3>2. pending'[p] = pending[p] \/ (p \in Passed /\ pending'[p] = "none")
      BY <1>3 DEF MoveFloor
    <3> QED
      BY <3>1, <3>2 DEF Waiting
  <2> QED
    BY <1>1, <2>1, <2>2
<1>4. ASSUME NEW q \in Position, IngestTrigger(q) PROVE Fine
  <2> DEFINE v == WfOf[q]
  <2>1. /\ q \in Triggers /\ v \in Workflow /\ pending' = [pending EXCEPT ![q] = "waiting"]
        /\ wfPending' = [wfPending EXCEPT ![v] = wfPending[v] + 1]
        /\ q = ingest + 1
    BY <1>4, Constants DEF IngestTrigger, Ingesting
  <2>2. ~Waiting(q) /\ pending \in [Triggers -> {"none", "waiting"} \cup Outcome]
    BY <1>0, <2>1, Constants DEF WindowSound, Waiting, NumbersOK, WindowOK
  <2>3. WaitingOf(v)' = WaitingOf(v) \cup {q} /\ q \notin WaitingOf(v)
    BY <2>1, <2>2 DEF WaitingOf, Waiting
  <2>4. \A w \in Workflow : w # v => WaitingOf(w)' = WaitingOf(w)
    BY <2>1 DEF WaitingOf, Waiting
  <2>5. Cardinality(WaitingOf(v)') = Cardinality(WaitingOf(v)) + 1
    BY <2>3, WaitingIsFinite, FS_AddElement
  <2> HIDE DEF v
  <2>6. CountSound'
    BY <1>0, <2>1, <2>4, <2>5 DEF CountSound
  <2> QED
    BY <1>0, <2>1, <2>6
<1>5. ASSUME NEW t \in Task, ApplyAcks(t) PROVE Fine
  <2> DEFINE A(w) == {c \in task[t].acks : WfOf[c.pos] = w}
             P(w) == {c.pos : c \in A(w)}
  <2>1. /\ task[t].acks \subseteq Completion
        /\ SentSound(task[t].acks) /\ OnePerTrigger(task[t].acks)
    <3>1. task[t] \in TaskRec
      BY <1>0 DEF TaskOK
    <3> QED
      BY <3>1 DEF TaskRec, CompletionsSound
  <2>2. ASSUME NEW p \in Triggers
        PROVE  Waiting(p)' <=> Waiting(p) /\ \A c \in task[t].acks : c.pos # p
    <3>1. CASE \E c \in task[t].acks : c.pos = p
      <4>1. PICK c \in task[t].acks : c.pos = p /\ c = CHOOSE d \in task[t].acks : d.pos = p
        BY <3>1
      <4>2. pending'[p] = c.as
        BY <1>5, <2>1, <4>1 DEF ApplyAcks, SentSound, Waiting
      <4>3. c.as # "waiting"
        BY <2>1, <4>1 DEF Completion, Outcome
      <4> QED
        BY <4>1, <4>2, <4>3 DEF Waiting
    <3>2. CASE ~ \E c \in task[t].acks : c.pos = p
      BY <1>5, <3>2 DEF ApplyAcks, Waiting
    <3> QED
      BY <3>1, <3>2
  <2>3. ASSUME NEW w \in Workflow
        PROVE  /\ Cardinality(WaitingOf(w)') = wfPending[w] - Cardinality(A(w))
               /\ Cardinality(WaitingOf(w)') \in Nat
    <3>1. A(w) \in SUBSET Completion /\ OnePerTrigger(A(w))
      BY <2>1 DEF OnePerTrigger
    <3>2. IsFiniteSet(P(w)) /\ Cardinality(A(w)) = Cardinality(P(w))
      BY <3>1, AcksCountTriggers
    <3>3. P(w) \subseteq WaitingOf(w)
      BY <2>1 DEF SentSound, WaitingOf, Completion
    <3>4. /\ WaitingOf(w)' \cup P(w) = WaitingOf(w)
          /\ WaitingOf(w)' \cap P(w) = {}
      BY <2>2, <3>3 DEF WaitingOf
    <3>5. IsFiniteSet(WaitingOf(w)') /\ Cardinality(WaitingOf(w)') \in Nat
      <4>1. WaitingOf(w)' \in SUBSET Triggers
        BY DEF WaitingOf
      <4> QED
        BY <4>1, FiniteTriggers, FS_Subset, FS_CardinalityType
    <3> HIDE DEF P, A
    <3>6. Cardinality(WaitingOf(w)) = Cardinality(WaitingOf(w)') + Cardinality(P(w))
      <4> DEFINE rest == WaitingOf(w)'
      <4>1. IsFiniteSet(rest) /\ rest \cup P(w) = WaitingOf(w) /\ rest \cap P(w) = {}
        BY <3>4, <3>5
      <4> HIDE DEF rest
      <4>2. Cardinality(rest \cup P(w)) = Cardinality(rest) + Cardinality(P(w))
        BY <3>2, <4>1, FiniteApart
      <4> QED
        BY <4>1, <4>2 DEF rest
    <3>7. Cardinality(P(w)) \in Nat /\ wfPending[w] = Cardinality(WaitingOf(w))
      BY <3>2, FS_CardinalityType DEF CountSound
    <3> QED
      BY <3>2, <3>5, <3>6, <3>7
  <2>4. wfPending' = [w \in Workflow |-> wfPending[w] - Cardinality(A(w))]
    BY <1>5 DEF ApplyAcks
  <2> HIDE DEF A
  <2> QED
    BY <2>3, <2>4 DEF CountSound
<1>6. CASE UNCHANGED <<pending, wfPending>>
  BY <1>1, <1>6 DEF Waiting
<1> QED
  BY <1>2, <1>3, <1>4, <1>5, <1>6, WhoMoves

-----------------------------------------------------------------------------
(* The probes.                                                              *)

\* A workflow without a count has nothing waiting.
LEMMA NothingWaits ==
    ASSUME CountSound, NEW w \in Workflow, wfPending[w] = 0, NEW p \in Triggers, WfOf[p] = w
    PROVE  ~Waiting(p)
<1>1. WaitingOf(w) = {}
  BY WaitingIsFinite, FS_EmptySet DEF CountSound
<1> QED
  BY <1>1 DEF WaitingOf

LEMMA DrainedNext ==
    ASSUME Kinds, WindowSound, FloorSafe, CountSound, DrainedSound, [Next]_vars
    PROVE  DrainedSound'
<1> SUFFICES ASSUME NEW t \in Prober, task'[t].pc = "yes",
                    NEW p \in Triggers, p <= task'[t].hw, WfOf[p] = task'[t].wf
             PROVE  Through(p)'
  BY DEF DrainedSound, Through, At
<1>0. /\ t \in Task /\ t # Supervisor /\ task[t] \in TaskRec /\ p \in Nat /\ tip \in Nat
      /\ WfOf[p] \in Workflow /\ ingest \in Nat /\ checkpoint \in Nat /\ task[t].hw \in Nat
      /\ task \in [Task -> TaskRec]
  BY Constants DEF Kinds, TaskOK, TaskRec, NumbersOK
<1>1. SUFFICES Through(p)
  BY ThroughStays
<1>2. CASE task'[t] = task[t]
  BY <1>0, <1>2 DEF DrainedSound, At, Through
<1>3. CASE Answer(t)
  <2>1. /\ task'[t].hw = task[t].hw /\ task'[t].wf = task[t].wf
        /\ ingest >= task[t].hw /\ wfPending[task[t].wf] = 0
    BY <1>0, <1>3 DEF Answer, Goto, TaskRec
  <2>2. p <= ingest /\ pending[p] # "waiting"
    BY <1>0, <2>1, NothingWaits DEF Waiting
  <2>3. pending[p] = "none" \/ pending[p] \in Outcome
    BY <2>2 DEF Kinds, WindowOK
  <2> QED
    BY <2>2, <2>3 DEF WindowSound, Through
<1>4. CASE Probe(t)
  <2> PICK w \in Workflow, n \in 1 .. tip :
           task' = [task EXCEPT ![t] = [IdleTask EXCEPT !.wf = w, !.hw = n,
                      !.pc = IF started THEN "reap" ELSE IF checkpoint >= n THEN "yes" ELSE "no"]]
    BY <1>4 DEF Probe
  <2>1. task'[t].hw = n /\ checkpoint >= n
    BY <1>0 DEF IdleTask
  <2> QED
    BY <1>0, <2>1 DEF FloorSafe, Through
<1>5. CASE Again(t) \/ Crash
  BY <1>0, <1>5 DEF Again, Crash, IdleTask
<1>6. ASSUME NEW u \in Task, u # t,
             \/ DrainComps(u) \/ ApplyAcks(u) \/ MoveFloor(u) \/ Persist(u)
             \/ PersistFails(u) \/ Note(u) \/ CollectMemos(u) \/ Probe(u) \/ Answer(u) \/ Again(u)
      PROVE  task'[t] = task[t]
  BY <1>0, <1>6 DEF DrainComps, ApplyAcks, MoveFloor, Persist, PersistFails, Note, CollectMemos,
                    Probe, Answer, Again, Goto
<1>7. CASE Step \/ Noted \/ ReadBatch \/ EndBatch
  BY <1>0, <1>2, <1>7 DEF Step, Noted, ReadBatch, EndBatch, Goto
<1>8. ASSUME \/ DrainComps(t) \/ ApplyAcks(t) \/ MoveFloor(t) \/ Persist(t)
             \/ PersistFails(t) \/ Note(t) \/ CollectMemos(t)
      PROVE  FALSE
  <2>1. CASE PersistFails(t)
    BY <1>0, <2>1 DEF PersistFails, IdleTask
  <2>2. CASE MoveFloor(t)
    BY <1>0, <2>2 DEF MoveFloor, TaskRec
  <2>3. CASE DrainComps(t) \/ ApplyAcks(t) \/ CollectMemos(t)
    BY <1>0, <2>3 DEF DrainComps, ApplyAcks, CollectMemos, TaskRec
  <2>4. CASE Persist(t) \/ Note(t)
    BY <1>0, <2>4 DEF Persist, Note, Goto, TaskRec
  <2> QED
    BY <1>8, <2>1, <2>2, <2>3, <2>4
<1> QED
  BY <1>2, <1>3, <1>4, <1>5, <1>6, <1>7, <1>8, WhoMoves, Constants

-----------------------------------------------------------------------------
(* The holders.                                                             *)

\* Acks wait for the task that drained them.
LEMMA AcksAreApplied ==
    ASSUME Kinds, [Next]_vars, NEW u \in Task, task[u].pc = "apply"
    PROVE  task'[u] = task[u] \/ ApplyAcks(u) \/ Crash
<1>0. task \in [Task -> TaskRec]
  BY DEF Kinds, TaskOK
<1>1. ASSUME NEW t \in Task,
             \/ DrainComps(t) \/ MoveFloor(t) \/ Persist(t) \/ PersistFails(t) \/ Note(t)
             \/ CollectMemos(t) \/ Probe(t) \/ Answer(t) \/ Again(t)
      PROVE  task'[u] = task[u]
  <2>1. t # u
    BY <1>1 DEF DrainComps, MoveFloor, Persist, PersistFails, Note, CollectMemos, Probe, Answer,
                Again, At
  <2> QED
    BY <1>0, <1>1, <2>1 DEF DrainComps, MoveFloor, Persist, PersistFails, Note, CollectMemos,
                            Probe, Answer, Again, Goto
<1>2. ASSUME NEW t \in Task, ApplyAcks(t), t # u PROVE task'[u] = task[u]
  BY <1>0, <1>2 DEF ApplyAcks
<1>3. CASE Step \/ Noted \/ ReadBatch \/ EndBatch
  <2>1. Supervisor # u
    BY <1>3 DEF Step, Noted, ReadBatch, EndBatch, At
  <2> QED
    BY <1>0, <1>3, <2>1 DEF Step, Noted, ReadBatch, EndBatch, Goto
<1> QED
  BY <1>1, <1>2, <1>3, WhoMoves, Constants

\* A trigger that waits has waited before, or is the one just scanned.
LEMMA WhoWaits ==
    ASSUME Kinds, [Next]_vars, NEW p \in Triggers, Waiting(p)'
    PROVE  Waiting(p) \/ IngestTrigger(p)
<1> USE DEF Waiting
<1>1. ASSUME NEW t \in Task, ApplyAcks(t) PROVE Waiting(p)
  <2>1. CASE pending[p] # "none" /\ \E c \in task[t].acks : c.pos = p
    <3>1. PICK c \in task[t].acks : pending'[p] = c.as
      BY <1>1, <2>1 DEF ApplyAcks
    <3>2. c.as \in Outcome
      BY <3>1 DEF Kinds, TaskOK, TaskRec, Completion
    <3> QED
      BY <3>1, <3>2 DEF Outcome
  <2>2. CASE ~(pending[p] # "none" /\ \E c \in task[t].acks : c.pos = p)
    BY <1>1, <2>2 DEF ApplyAcks
  <2> QED
    BY <2>1, <2>2
<1>2. ASSUME NEW t \in Task, MoveFloor(t) PROVE Waiting(p)
  BY <1>2 DEF MoveFloor
<1>3. ASSUME NEW q \in Position, IngestTrigger(q), q # p PROVE Waiting(p)
  BY <1>3 DEF IngestTrigger, Kinds, WindowOK
<1>4. CASE Crash
  BY <1>4 DEF Crash
<1> QED
  BY <1>1, <1>2, <1>3, <1>4, WhoMoves

\* A completion on its way stays there until it is applied.
LEMMA CompletingStays ==
    ASSUME Kinds, CompletionsSound, [Next]_vars, ~Crash, NEW p \in Triggers, Waiting(p)',
           p \in Completing
    PROVE  p \in Completing'
<1>1. CASE \E c \in comps : c.pos = p
  <2>1. ASSUME NEW t \in Task, DrainComps(t) PROVE p \in Completing'
    <3>1. task'[t].acks = comps
      BY <2>1 DEF DrainComps, Kinds, TaskOK, TaskRec
    <3> QED
      BY <1>1, <3>1 DEF Completing
  <2>2. ASSUME comps \subseteq comps' PROVE p \in Completing'
    BY <1>1, <2>2 DEF Completing
  <2>3. ASSUME NEW g \in Gen, Complete(g) PROVE comps \subseteq comps'
    BY <2>3 DEF Complete
  <2> QED
    BY <2>1, <2>2, <2>3, WhoMoves
<1>2. ASSUME NEW u \in Task, \E c \in task[u].acks : c.pos = p PROVE p \in Completing'
  <2>1. task[u].pc = "apply"
    BY <1>2 DEF CompletionsSound
  <2>2. CASE task'[u] = task[u]
    BY <1>2, <2>2 DEF Completing
  <2>3. CASE ApplyAcks(u)
    <3>1. PICK c \in task[u].acks : c.pos = p /\ c = CHOOSE d \in task[u].acks : d.pos = p
      BY <1>2
    <3>2. pending[p] # "none" /\ c.as \in Outcome
      BY <3>1 DEF CompletionsSound, SentSound, Waiting, Kinds, TaskOK, TaskRec, Completion
    <3>3. pending'[p] = c.as
      BY <2>3, <3>1, <3>2 DEF ApplyAcks
    <3> QED
      BY <3>2, <3>3 DEF Waiting, Outcome
  <2> QED
    BY <2>1, <2>2, <2>3, AcksAreApplied
<1> QED
  BY <1>1, <1>2 DEF Completing

\* Appended to a channel, a trigger joins what is held; popped, it stays held.
LEMMA AppendAndTail ==
    ASSUME NEW s \in Seq(Triggers), NEW p \in Triggers
    PROVE  /\ \A i \in DOMAIN s : \E j \in DOMAIN Append(s, p) : Append(s, p)[j] = s[i]
           /\ \E j \in DOMAIN Append(s, p) : Append(s, p)[j] = p
           /\ s # <<>> => \A i \in DOMAIN s :
                 s[i] = Head(s) \/ \E j \in DOMAIN Tail(s) : Tail(s)[j] = s[i]
<1> DEFINE r == Append(s, p)
           t == Tail(s)
<1>1. /\ Len(s) \in Nat /\ DOMAIN s = 1 .. Len(s) /\ DOMAIN r = 1 .. Len(s) + 1
      /\ r[Len(s) + 1] = p /\ \A i \in 1 .. Len(s) : r[i] = s[i]
  OBVIOUS
<1>2. \A i \in DOMAIN s : i \in DOMAIN r /\ r[i] = s[i]
  <2> HIDE DEF r
  <2> QED BY <1>1
<1>3. Len(s) + 1 \in DOMAIN r /\ r[Len(s) + 1] = p
  <2> HIDE DEF r
  <2> QED BY <1>1
<1>4. ASSUME s # <<>>, NEW i \in DOMAIN s, i # 1 PROVE i - 1 \in DOMAIN t /\ t[i - 1] = s[i]
  <2>1. DOMAIN t = 1 .. Len(s) - 1 /\ \A j \in 1 .. Len(s) - 1 : t[j] = s[j + 1]
    BY <1>4
  <2> HIDE DEF t
  <2>2. i - 1 \in 1 .. Len(s) - 1 /\ (i - 1) + 1 = i
    BY <1>1, <1>4
  <2> QED
    BY <2>1, <2>2
<1>5. s # <<>> => Head(s) = s[1]
  OBVIOUS
<1> HIDE DEF r, t
<1> QED
  BY <1>2, <1>3, <1>4, <1>5 DEF r, t

\* A live worker keeps what it holds until it completes it, or is halted.
LEMMA HolderKeeps ==
    ASSUME Kinds, HandsSound, [Next]_vars, ~Crash, NEW g \in Gen, ~Die(g), Alive(g),
           NEW p \in Triggers, p \in Held(g), p \notin Completing'
    PROVE  \/ Alive(g)' /\ p \in Held(g)'
           \/ stopped /\ worker'[g].pc = "none"
<1>0. /\ queue \in [Gen -> Seq(Triggers)] /\ worker \in [Gen -> WorkerRec]
      /\ worker[g] \in WorkerRec
  BY DEF Kinds, QueueOK, WorkerOK
<1>1. CASE worker'[g] = worker[g] /\ queue'[g] = queue[g]
  BY <1>1 DEF Alive, Held
<1>2. ASSUME NEW q \in Position, IngestTrigger(q) PROVE Alive(g)' /\ p \in Held(g)'
  <2>1. Enqueue(q) /\ q \in Triggers
    BY <1>2 DEF IngestTrigger
  <2>2. CASE handle[PartOf[q]] = g
    <3>1. worker' = worker /\ queue'[g] = Append(queue[g], q)
      BY <1>0, <2>1, <2>2, Constants DEF Enqueue, Gen
    <3>2. \A i \in DOMAIN queue[g] : \E j \in DOMAIN queue'[g] : queue'[g][j] = queue[g][i]
      BY <1>0, <2>1, <3>1, AppendAndTail
    <3> QED
      BY <3>1, <3>2 DEF Held, Alive
  <2>3. CASE handle[PartOf[q]] # g
    <3>1. handle[PartOf[g]] = g
      BY DEF HandsSound, HandSound
    <3>2. q # g
      BY <2>3, <3>1
    <3>3. worker'[g] = worker[g] /\ queue'[g] = queue[g]
      BY <1>0, <2>1, <2>3, <3>2 DEF Enqueue
    <3> QED
      BY <1>1, <3>3 DEF Alive, Held
  <2> QED
    BY <2>2, <2>3
<1>3. ASSUME NEW h \in Gen, h # g,
             \/ TryRecv(h) \/ Deregister(h) \/ Complete(h) \/ Memoize(h) \/ Abandon(h) \/ Die(h)
      PROVE  worker'[g] = worker[g] /\ queue'[g] = queue[g]
  BY <1>0, <1>3 DEF TryRecv, Deregister, Complete, Memoize, Abandon, Die, Take, Becomes
<1>4. ASSUME Take(g), worker[g].pc # "busy" PROVE Alive(g)' /\ p \in Held(g)'
  <2>1. /\ queue[g] # <<>> /\ queue'[g] = Tail(queue[g])
        /\ worker'[g].pc = "busy" /\ worker'[g].cur = Head(queue[g])
    BY <1>0, <1>4 DEF Take, Becomes
  <2>2. PICK n \in DOMAIN queue[g] : queue[g][n] = p
    BY <1>4 DEF Held
  <2>3. p = Head(queue[g]) \/ \E j \in DOMAIN queue'[g] : queue'[g][j] = p
    <3>1. \A i \in DOMAIN queue[g] :
              queue[g][i] = Head(queue[g])
              \/ \E j \in DOMAIN Tail(queue[g]) : Tail(queue[g])[j] = queue[g][i]
      BY <1>0, <2>1, AppendAndTail
    <3> QED
      BY <2>1, <2>2, <3>1
  <2> QED
    BY <2>1, <2>3 DEF Alive, Held
<1>5. CASE TryRecv(g)
  <2>1. CASE Take(g)
    BY <1>4, <1>5, <2>1 DEF TryRecv
  <2>2. CASE ~stopped /\ queue[g] = <<>> /\ Becomes(g, "empty", 0) /\ UNCHANGED queue
    <3>1. worker[g].pc = "loop"
      BY <1>5 DEF TryRecv
    <3>2. p \in {queue[g][i] : i \in DOMAIN queue[g]}
      BY <3>1 DEF Held
    <3> QED
      BY <2>2, <3>2
  <2>3. CASE stopped /\ Becomes(g, "none", 0)
    BY <1>0, <2>3 DEF Becomes
  <2> QED
    BY <1>5, <2>1, <2>2, <2>3 DEF TryRecv
<1>6. CASE Deregister(g)
  <2>1. CASE Take(g)
    BY <1>4, <1>6, <2>1 DEF Deregister
  <2>2. CASE queue[g] = <<>>
    BY <1>6, <2>2 DEF Deregister, Held
  <2> QED
    BY <1>6, <2>1, <2>2 DEF Deregister
<1>7. CASE Complete(g)
  <2>1. p # worker[g].cur
    <3>1. PICK c : c.pos = worker[g].cur /\ comps' = comps \cup {c}
      BY <1>7 DEF Complete
    <3> QED
      BY <3>1 DEF Completing
  <2>2. p \in {queue[g][i] : i \in DOMAIN queue[g]}
    BY <2>1 DEF Held
  <2>3. queue' = queue /\ worker'[g].pc = "loop"
    BY <1>0, <1>7 DEF Complete, Becomes
  <2> QED
    BY <2>2, <2>3 DEF Alive, Held
<1>8. CASE Memoize(g)
  <2>1. /\ queue' = queue /\ worker'[g].pc = worker[g].pc /\ worker'[g].cur = worker[g].cur
    BY <1>0, <1>8 DEF Memoize, WorkerRec
  <2> QED
    BY <2>1 DEF Alive, Held
<1>9. CASE Abandon(g)
  BY <1>0, <1>9 DEF Abandon, Becomes
<1> QED
  BY <1>1, <1>2, <1>3, <1>5, <1>6, <1>7, <1>8, <1>9, WhoMoves

\* Who looks into a channel, or works, was alive and not told to stop before it did.
LEMMA WhoLooks ==
    ASSUME Kinds, [Next]_vars, NEW g \in Gen, worker'[g].pc \in {"empty", "busy"}
    PROVE  \/ worker[g].pc \in {"empty", "busy"}
           \/ worker[g].pc = "loop" /\ ~stopped
<1>0. worker \in [Gen -> WorkerRec] /\ worker[g] \in WorkerRec
  BY DEF Kinds, WorkerOK
<1>1. CASE worker'[g] = worker[g]
  BY <1>1
<1>2. ASSUME NEW q \in Position, IngestTrigger(q) PROVE worker'[g] = worker[g]
  <2>1. \/ worker' = worker
        \/ worker' = [worker EXCEPT ![q] = [IdleWorker EXCEPT !.pc = "loop"]]
    BY <1>2 DEF IngestTrigger, Enqueue
  <2> QED
    BY <1>0, <2>1 DEF IdleWorker
<1>3. ASSUME NEW h \in Gen, h # g,
             \/ TryRecv(h) \/ Deregister(h) \/ Complete(h) \/ Memoize(h) \/ Abandon(h) \/ Die(h)
      PROVE  worker'[g] = worker[g]
  BY <1>0, <1>3 DEF TryRecv, Deregister, Complete, Memoize, Abandon, Die, Take, Becomes
<1>4. CASE TryRecv(g)
  BY <1>0, <1>4 DEF TryRecv, Take, Becomes
<1>5. CASE Deregister(g) \/ Complete(g) \/ Memoize(g) \/ Abandon(g)
  BY <1>5 DEF Deregister, Complete, Memoize, Abandon
<1>6. CASE Die(g)
  BY <1>0, <1>6 DEF Die, Becomes
<1>7. CASE Crash
  BY <1>7 DEF Crash, IdleWorker
<1> QED
  BY <1>1, <1>2, <1>3, <1>4, <1>5, <1>6, <1>7, WhoMoves

LEMMA HoldersNext == IInv /\ HoldersSound /\ [Next]_vars => HoldersSound'
<1> SUFFICES ASSUME IInv, HoldersSound, [Next]_vars, deaths' = 0,
                    NEW p \in Triggers, Waiting(p)', p \notin Completing'
             PROVE  /\ ~stopped' => \E g \in Gen : Alive(g)' /\ p \in Held(g)'
                    /\ \A g \in Gen : worker'[g].pc \in {"empty", "busy"} /\ PartOf[g] = PartOf[p]
                          => p \in Held(g)'
  BY DEF HoldersSound
<1>0. Kinds /\ WindowSound /\ CompletionsSound /\ HandsSound
  BY KindsAreTypes DEF IInv
<1>1. ~Crash
  BY DEF Crash, Waiting
<1>2. deaths = 0 /\ \A g \in Gen : ~Die(g)
  <2>1. \A g \in Gen : ~Die(g)
    BY <1>0, DispatcherAssumption DEF Die, Kinds, BudgetsOK
  <2>2. \A t \in Task : PersistFails(t) => deaths' = deaths
    BY DEF PersistFails
  <2> QED
    BY <1>1, <2>1, <2>2, WhoMoves DEF budgets
<1>3. ~stopped' => ~stopped
  BY <1>1, WhoMoves DEF Halt
<1>4. ASSUME NEW g \in Gen, Alive(g), p \in Held(g)
      PROVE  \/ Alive(g)' /\ p \in Held(g)'
             \/ stopped /\ worker'[g].pc = "none"
  <2>1. Kinds /\ HandsSound /\ ~Die(g)
    BY <1>0, <1>2
  <2> QED
    BY <1>1, <1>4, <2>1, HolderKeeps
<1>5. CASE Waiting(p)
  <2>1. p \notin Completing
    BY <1>0, <1>1, CompletingStays
  <2>2. /\ ~stopped => \E g \in Gen : Alive(g) /\ p \in Held(g)
        /\ \A g \in Gen : worker[g].pc \in {"empty", "busy"} /\ PartOf[g] = PartOf[p]
              => p \in Held(g)
    BY <1>2, <1>5, <2>1 DEF HoldersSound
  <2>3. ~stopped' => \E g \in Gen : Alive(g)' /\ p \in Held(g)'
    BY <1>3, <1>4, <2>2
  <2>4. ASSUME NEW g \in Gen, worker'[g].pc \in {"empty", "busy"}, PartOf[g] = PartOf[p]
        PROVE  p \in Held(g)'
    <3>1. Alive(g) /\ p \in Held(g)
      <4>1. CASE worker[g].pc \in {"empty", "busy"}
        BY <2>2, <2>4, <4>1 DEF Alive
      <4>2. CASE worker[g].pc = "loop" /\ ~stopped
        <5>1. PICK h \in Gen : Alive(h) /\ p \in Held(h)
          BY <2>2, <4>2
        <5>2. HeldFor(h, p)
          BY <1>0, <5>1 DEF HandsSound, HandSound, Held
        <5>3. handle[PartOf[h]] = h /\ handle[PartOf[g]] = g
          BY <1>0, <4>2, <5>1 DEF HandsSound, HandSound, Alive
        <5> QED
          BY <2>4, <5>1, <5>2, <5>3 DEF HeldFor
      <4> QED
        BY <1>0, <2>4, <4>1, <4>2, WhoLooks
    <3> QED
      BY <1>4, <2>4, <3>1
  <2> QED
    BY <2>3, <2>4
<1>6. CASE ~Waiting(p)
  <2>1. IngestTrigger(p) /\ Enqueue(p)
    BY <1>0, <1>6, WhoWaits DEF IngestTrigger
  <2>2. /\ queue \in [Gen -> Seq(Triggers)] /\ worker \in [Gen -> WorkerRec]
        /\ handle \in [Partition -> Triggers \cup {0}] /\ PartOf[p] \in Partition
    BY <1>0, Constants DEF Kinds, QueueOK, WorkerOK, WindowOK
  <2>3. ASSUME NEW h \in Gen, h = handle[PartOf[p]], Alive(h)
        PROVE  /\ \E g \in Gen : Alive(g)' /\ p \in Held(g)'
               /\ \A g \in Gen : worker'[g].pc \in {"empty", "busy"} /\ PartOf[g] = PartOf[p]
                     => p \in Held(g)'
    <3>1. queue'[h] = Append(queue[h], p) /\ worker' = worker
      BY <2>1, <2>2, <2>3, Constants DEF Enqueue, Gen
    <3>2. \E j \in DOMAIN queue'[h] : queue'[h][j] = p
      <4>1. \E j \in DOMAIN Append(queue[h], p) : Append(queue[h], p)[j] = p
        BY <2>2, AppendAndTail
      <4> QED
        BY <3>1, <4>1
    <3>3. ASSUME NEW g \in Gen, worker'[g].pc \in {"empty", "busy"}, PartOf[g] = PartOf[p]
          PROVE  g = h
      <4>1. Alive(g)
        BY <3>1, <3>3 DEF Alive
      <4> QED
        BY <1>0, <2>3, <3>3, <4>1 DEF HandsSound, HandSound
    <3> QED
      BY <2>3, <3>1, <3>2, <3>3 DEF Held, Alive
  <2>4. CASE ~(handle[PartOf[p]] # 0 /\ Alive(handle[PartOf[p]]))
    <3>1. /\ queue' = [queue EXCEPT ![p] = <<p>>]
          /\ worker' = [worker EXCEPT ![p] = [IdleWorker EXCEPT !.pc = "loop"]]
      BY <2>1, <2>4 DEF Enqueue
    <3>2. p \in Gen /\ queue'[p] = <<p>> /\ worker'[p].pc = "loop"
      BY <2>2, <3>1 DEF Gen, IdleWorker
    <3>3. Alive(p)' /\ p \in Held(p)'
      BY <3>2 DEF Alive, Held
    <3>4. ASSUME NEW g \in Gen, worker'[g].pc \in {"empty", "busy"}, PartOf[g] = PartOf[p]
          PROVE  FALSE
      <4>1. g # p
        BY <3>2, <3>4
      <4>2. worker'[g] = worker[g]
        BY <2>2, <3>1, <4>1
      <4>3. handle[PartOf[g]] = g /\ Alive(g) /\ g # 0
        BY <1>0, <3>4, <4>2, Constants DEF HandsSound, HandSound, Alive, Gen
      <4> QED
        BY <2>4, <3>4, <4>3
    <3> QED
      BY <3>2, <3>3, <3>4
  <2> QED
    BY <2>2, <2>3, <2>4 DEF Gen
<1> QED
  BY <1>5, <1>6

-----------------------------------------------------------------------------
(* The theorems.                                                            *)

LEMMA InitIsSound == Init => IInv
<1> SUFFICES ASSUME Init PROVE IInv
  OBVIOUS
<1> USE Constants DEF Init
<1>1. TypeOK
  <2>1. NumbersOK /\ SetsOK
    <3>1. 0 \in 0 .. MaxLog /\ FALSE \in BOOLEAN
      OBVIOUS
    <3>2. SetsOK
      BY DEF SetsOK
    <3>3. NumbersOK
      BY <3>1 DEF NumbersOK
    <3> QED
      BY <3>2, <3>3
  <2>4. WindowOK /\ wfPending \in [Workflow -> Nat]
    BY DEF WindowOK
  <2>2. QueueOK /\ WorkerOK /\ TaskOK
    BY DEF QueueOK, WorkerOK, TaskOK
  <2>3. BudgetsOK
    BY DispatcherAssumption DEF BudgetsOK
  <2> QED
    BY <2>1, <2>2, <2>3, <2>4, KindsAreTypes DEF Kinds
<1>2. CursorsOrdered /\ WindowSound /\ FloorSafe
  BY DEF CursorsOrdered, WindowSound, FloorSafe, Outcome
<1>3. WritesSound /\ SupervisorStarted /\ CompletionsSound /\ DrainedSound
  BY DEF WritesSound, SupervisorStarted, CompletionsSound, DrainedSound, SentSound,
         OnePerTrigger, Apart, At, IdleTask
<1>4. HandsSound
  BY DEF HandsSound, HandSound, Alive, IdleWorker
<1>5. CountSound
  BY FS_EmptySet DEF CountSound, WaitingOf, Waiting
<1> QED
  BY <1>1, <1>2, <1>3, <1>4, <1>5 DEF IInv

LEMMA NextIsSound == IInv /\ [Next]_vars => IInv'
<1> SUFFICES ASSUME IInv, [Next]_vars PROVE IInv'
  OBVIOUS
<1>1. Kinds /\ Kinds'
  BY KindsAreTypes, KindsNext DEF IInv
<1>2. CountSound' /\ wfPending' \in [Workflow -> Nat]
  BY CountNext DEF IInv
<1>3. TypeOK'
  BY <1>1, <1>2
     DEF TypeOK, Kinds, NumbersOK, BudgetsOK, SetsOK, WindowOK, QueueOK, WorkerOK, TaskOK,
         TaskRec, WorkerRec
<1>4. CursorsOrdered' /\ WindowSound' /\ FloorSafe' /\ WritesSound'
  BY <1>1, CursorsNext, WindowNext, FloorNext, WritesNext DEF IInv
<1>5. SupervisorStarted' /\ CompletionsSound' /\ HandsSound' /\ DrainedSound'
  BY <1>1, StartedNext, CompletionsNext, HandsNext, DrainedNext DEF IInv
<1> QED
  BY <1>2, <1>3, <1>4, <1>5 DEF IInv

\* Every variable of the dispatcher keeps its kind; in particular a workflow's
\* count in DispatchState.wf_pending never underflows.
THEOREM TypeCorrect == Spec => []TypeOK
<1>1. IInv => TypeOK
  BY DEF IInv
<1> QED
  BY <1>1, InitIsSound, NextIsSound, PTL DEF Spec

\* advance_floor: the durable cursor never passes a trigger that no worker has
\* completed, unless its workflow is cancelled and nothing can be sealed.
THEOREM FloorIsSafe == Spec => []FloorSafe
<1>1. IInv => FloorSafe
  BY DEF IInv
<1> QED
  BY <1>1, InitIsSound, NextIsSound, PTL DEF Spec

\* advance_floor: the floor the runner notes as persisted is in the store, so the
\* write it skips for it is never missing.
THEOREM PersistedIsInTheStore == Spec => []PersistedIsDurable
<1>1. IInv => PersistedIsDurable
  BY DEF IInv, CursorsOrdered, PersistedIsDurable
<1> QED
  BY <1>1, InitIsSound, NextIsSound, PTL DEF Spec

\* drained: a settle probe is told yes only when every trigger of its workflow up
\* to its mark is through, with any number of probes reaping at once.
THEOREM DrainIsSound == Spec => []DrainedSound
<1>1. IInv => DrainedSound
  BY DEF IInv
<1> QED
  BY <1>1, InitIsSound, NextIsSound, PTL DEF Spec

\* remove_reclaimable after advance_floor: an effect memo is dropped only when the
\* durable cursor has passed its trigger, so no restart can deliver it again.
THEOREM MemosOutliveRedelivery == Spec => MemoOutlivesRedelivery
<1> DEFINE Dropped == \A p \in memo \ memo' : p <= checkpoint
<1>1. IInv /\ [Next]_vars => [Dropped]_vars
  <2> SUFFICES ASSUME IInv, [Next]_vars PROVE Dropped
    OBVIOUS
  <2>0. Kinds /\ WritesSound
    BY KindsAreTypes DEF IInv
  <2>1. ASSUME NEW t \in Task, CollectMemos(t) PROVE Dropped
    <3>1. memo \ memo' \subseteq task[t].gc /\ task[t].pc = "gc"
      BY <2>1 DEF CollectMemos, At
    <3>2. /\ \A p \in task[t].gc : p <= task[t].want /\ p \in Nat
          /\ task[t].want <= checkpoint /\ task[t].want \in Nat /\ checkpoint \in Nat
      <4>1. task[t] \in TaskRec /\ checkpoint \in Nat
        BY <2>0, Constants DEF Kinds, TaskOK, NumbersOK
      <4>2. task[t].gc \subseteq Triggers /\ task[t].want \in 0 .. MaxLog
        BY <4>1 DEF TaskRec
      <4>3. (\A p \in task[t].gc : p <= task[t].want) /\ task[t].want <= checkpoint
        BY <2>0, <3>1 DEF WritesSound
      <4>4. \A p \in task[t].gc : p \in Nat
        BY <4>2, Constants
      <4>5. task[t].want \in Nat
        BY <4>2, Constants
      <4> QED
        BY <4>1, <4>3, <4>4, <4>5
    <3> QED
      BY <3>1, <3>2
  <2>2. ASSUME NEW g \in Gen, Memoize(g) PROVE Dropped
    BY <2>2 DEF Memoize
  <2>3. CASE memo' = memo
    BY <2>3
  <2> QED
    BY <2>1, <2>2, <2>3, WhoMoves
<1> QED
  BY <1>1, InitIsSound, NextIsSound, PTL DEF Spec, MemoOutlivesRedelivery

\* Whatever crashes, fails, dies or races: the consumer is at-least-once delivery
\* behind a durable cursor.
THEOREM DispatcherDelivers == Spec => ImplementsAtLeastOnce
<1> USE DEF Delivery!Init, Delivery!Next, Delivery!Grow, Delivery!Deliver, Delivery!Move,
            Delivery!vars
<1> DEFINE Excused == {p \in Triggers : Skippable(p)}
<1>1. Init => Delivery!Init
  <2> SUFFICES ASSUME Init PROVE Excused = {}
    BY DEF Init
  <2> QED
    BY DEF Init, Skippable, Markers
<1>2. IInv /\ [Next]_vars => [Delivery!Next]_(Delivery!vars)
  <2> SUFFICES ASSUME IInv, [Next]_vars PROVE Delivery!Next \/ UNCHANGED Delivery!vars
    OBVIOUS
  <2>0. /\ Kinds /\ WritesSound /\ HandsSound /\ WindowSound /\ CursorsOrdered
        /\ tip \in Nat /\ checkpoint \in Nat /\ ingest \in Nat
    BY KindsAreTypes, Constants DEF IInv, Kinds, NumbersOK
  <2>1. tip' = tip => Excused' = Excused
    BY DEF Skippable, Markers
  <2>2. CASE Arrive
    <3>1. Excused \subseteq Excused' /\ Excused' \subseteq Triggers
      BY <2>0, ThroughStays DEF Skippable
    <3> QED
      BY <2>2, <3>1 DEF Arrive
  <2>3. ASSUME NEW g \in Gen, Complete(g) PROVE Delivery!Next
    <3>1. worker[g].cur \in Triggers /\ worker[g].cur <= ingest /\ ingest <= tip
      BY <2>0, <2>3 DEF Complete, HandsSound, HandSound, HeldFor, Waiting, Alive, WindowSound,
                        CursorsOrdered
    <3>2. /\ done' = done \cup {worker[g].cur} /\ UNCHANGED <<tip, checkpoint>>
      BY <2>3 DEF Complete
    <3>3. worker[g].cur <= tip
      <4>1. worker[g].cur \in Nat
        BY <3>1, Constants
      <4> QED
        BY <2>0, <3>1, <4>1
    <3>4. UNCHANGED <<tip, checkpoint, Excused>>
      BY <2>1, <3>2
    <3>5. Delivery!Deliver
      BY <3>1, <3>2, <3>3, <3>4
    <3> QED
      BY <3>5
  <2>4. ASSUME NEW t \in Task, task[t].pc = "persist", checkpoint' = task[t].want,
               checkpoint < checkpoint', checkpoint' <= tip, UNCHANGED <<tip, done>>
        PROVE  Delivery!Next
    <3>1. \A p \in Triggers : p <= checkpoint' => p \in done \cup Excused
      BY <2>0, <2>4 DEF WritesSound, Through
    <3>2. checkpoint' \in checkpoint + 1 .. tip
      BY <2>0, <2>4, NumbersKind DEF IInv, NumbersOK
    <3> QED
      BY <2>1, <2>4, <3>1, <3>2
  <2>5. CASE UNCHANGED <<tip, done, checkpoint>>
    BY <2>1, <2>5
  <2>6. checkpoint' = checkpoint \/ ~(Arrive \/ \E g \in Gen : Complete(g))
    BY DEF Arrive, Complete
  <2> QED
    BY <2>0, <2>2, <2>3, <2>4, <2>5, <2>6, CheckpointMoves, WhoMoves
<1> QED
  BY <1>1, <1>2, InitIsSound, NextIsSound, PTL DEF Spec, ImplementsAtLeastOnce, Delivery!Spec

\* worker_loop and enqueue: unless a worker was killed from outside, the triggers of
\* a partition are processed one at a time and in log order.
THEOREM PartitionsAreOrdered == Spec => [](deaths = 0 => PartitionOrder)
<1>1. Init => HoldersSound
  BY DEF Init, HoldersSound, Waiting
<1>2. IInv /\ HoldersSound => (deaths = 0 => PartitionOrder)
  <2> SUFFICES ASSUME IInv, HoldersSound, deaths = 0, NEW g \in Gen, worker[g].pc = "busy",
                      NEW q \in Triggers, q < worker[g].cur,
                      PartOf[q] = PartOf[worker[g].cur], Waiting(q), q \notin done
               PROVE  FALSE
    BY DEF PartitionOrder, Waiting
  <2>1. /\ worker[g].cur \in Triggers /\ PartOf[worker[g].cur] = PartOf[g]
        /\ \A i \in DOMAIN queue[g] : worker[g].cur < queue[g][i] /\ queue[g][i] \in Triggers
    BY KindsAreTypes
       DEF IInv, HandsSound, HandSound, Alive, HeldFor, Kinds, QueueOK
  <2>2. q \notin Completing
    BY DEF IInv, CompletionsSound, SentSound, Completing
  <2>3. q \in Held(g)
    BY <2>1, <2>2 DEF HoldersSound
  <2>4. q # worker[g].cur /\ \A i \in DOMAIN queue[g] : q # queue[g][i]
    BY <2>1, Constants
  <2> QED
    BY <2>3, <2>4 DEF Held
<1> QED
  BY <1>1, <1>2, InitIsSound, NextIsSound, HoldersNext, PTL DEF Spec

\* "So nothing is lost" (enqueue): unless a worker was killed from outside, every
\* waiting trigger is completed or in the hands of a live worker.
THEOREM NothingIsStranded == Spec => [](deaths = 0 => NothingStranded)
<1>1. Init => HoldersSound
  BY DEF Init, HoldersSound, Waiting
<1>2. HoldersSound => (deaths = 0 => NothingStranded)
  BY DEF HoldersSound, NothingStranded, Waiting
<1> QED
  BY <1>1, <1>2, InitIsSound, NextIsSound, HoldersNext, PTL DEF Spec
=============================================================================
