------------------------------ MODULE Dispatcher ------------------------------
(***************************************************************************)
(* The dispatcher of one reactor consumer (reactor_runner.rs: step, reap,  *)
(* advance_floor, drained, enqueue, worker_loop).                          *)
(*                                                                         *)
(* The supervisor's step scans the log, puts matching events into a        *)
(* bounded window of pending triggers and into the channel of their        *)
(* partition, whose worker it spawns when there is none.  Workers send     *)
(* completions; whoever reaps them - the supervisor, or any number of      *)
(* settle probes at the same time - marks the triggers acked, moves the    *)
(* ack-floor over the contiguous acked prefix, persists it as the          *)
(* consumer's checkpoint and drops the effect memos the floor has passed.  *)
(* Every lock is released between these parts.  A crash keeps the          *)
(* checkpoint, the log and the memos.                                      *)
(*                                                                         *)
(* What a worker does with a trigger is ReactorDecision's subject; here it *)
(* takes it, may memoize an effect, and completes it.                      *)
(***************************************************************************)
EXTENDS Naturals, FiniteSets, Sequences

CONSTANTS
    MaxLog,        \* bound: positions of the log
    Triggers,      \* positions that match the consumer's trigger kind
    PartOf,        \* [Triggers -> Partition]: partition_key_for
    WfOf,          \* [Triggers -> Workflow]
    Cancels,       \* [Position -> Workflow \cup {NoWf}]: cancel markers
    Partition, Workflow, NoWf,
    Prober,        \* settle calls that may probe this consumer concurrently
    Supervisor,
    HasStore,      \* decision_store.is_some()
    MaxPending,    \* MAX_PENDING
    Batch,         \* SUPERVISOR_BATCH
    MaxCrashes, MaxFaults, MaxDeaths   \* bounds

Position == 1 .. MaxLog
Task == Prober \cup {Supervisor}

ASSUME DispatcherAssumption ==
    /\ MaxLog \in Nat /\ Triggers \subseteq Position
    /\ PartOf \in [Triggers -> Partition] /\ WfOf \in [Triggers -> Workflow]
    /\ NoWf \notin Workflow /\ Cancels \in [Position -> Workflow \cup {NoWf}]
    /\ \A p \in Triggers : Cancels[p] = NoWf
    /\ Supervisor \notin Prober /\ HasStore \in BOOLEAN
    /\ MaxPending \in Nat \ {0} /\ Batch \in Nat \ {0}
    /\ MaxCrashes \in Nat /\ MaxFaults \in Nat /\ MaxDeaths \in Nat

VARIABLES
    tip,         \* durable: the log is 1..tip
    checkpoint,  \* durable: the consumer's cursor
    done,        \* durable: triggers some worker completed
    memo,        \* durable: triggers with entries in the effect store
    started, ingest, floor, persisted,   \* DispatchState
    pending,     \* DispatchState.pending: none | waiting | acked | parked
    wfPending,   \* DispatchState.wf_pending; 0 when there is no entry
    handle,      \* DispatchState.partitions: the generation, 0 when cold
    locked,      \* step holds the dispatch lock over a batch
    fence,       \* cancelled_workflows
    queue,       \* the channel of each generation
    worker,      \* the worker task of each generation
    comps,       \* the completion channel
    task,        \* the supervisor and the probes
    stopped,     \* halt() was called (shutdown, drain)
    crashes, faults, deaths

durable == <<tip, checkpoint, done, memo>>
dispatch == <<started, ingest, floor, persisted, pending, wfPending, handle>>
workers == <<queue, worker>>
budgets == <<crashes, faults, deaths>>
vars == <<durable, dispatch, locked, fence, workers, comps, task, stopped, budgets>>

\* A generation is named by the trigger its worker was spawned for.
Gen == Triggers

\* How a trigger was completed: without effects, with effect labels, or parked.
Outcome == {"acked", "memoized", "parked"}
Completion == [pos : Triggers, as : Outcome]

IdleWorker == [pc |-> "none", cur |-> 0, used |-> FALSE]
IdleTask == [pc |-> "idle", tail |-> FALSE, acks |-> {}, hi |-> 0, want |-> 0, gc |-> {},
             wf |-> NoWf, hw |-> 0]

Init ==
    /\ tip = 0 /\ checkpoint = 0 /\ done = {} /\ memo = {}
    /\ started = FALSE /\ ingest = 0 /\ floor = 0 /\ persisted = 0
    /\ pending = [p \in Triggers |-> "none"]
    /\ wfPending = [w \in Workflow |-> 0]
    /\ handle = [k \in Partition |-> 0]
    /\ locked = FALSE
    /\ fence = {}
    /\ queue = [g \in Gen |-> <<>>]
    /\ worker = [g \in Gen |-> IdleWorker]
    /\ comps = {}
    /\ task = [t \in Task |-> IdleTask]
    /\ stopped = FALSE
    /\ crashes = 0 /\ faults = 0 /\ deaths = 0

Pend == {p \in Triggers : pending[p] # "none"}
Alive(g) == worker[g].pc \in {"loop", "empty", "busy"}
Larger(m, n) == IF m < n THEN n ELSE m
At(t, pc) == task[t].pc = pc
Goto(t, pc) == task' = [task EXCEPT ![t].pc = pc]

(***************************************************************************)
(* The log.                                                                *)
(***************************************************************************)
Marked(p) == {Cancels[p]} \ {NoWf}

\* One more event; a cancel issued by this engine also sets the fence.
Arrive ==
    /\ tip < MaxLog
    /\ tip' = tip + 1
    /\ fence' \in {fence, fence \cup Marked(tip + 1)}
    /\ UNCHANGED <<checkpoint, done, memo, dispatch, locked, workers, comps, task,
                   stopped, budgets>>

(***************************************************************************)
(* reap and advance_floor, by the supervisor or by a probe.                *)
(***************************************************************************)
\* The completion channel is emptied under its own lock.
DrainComps(t) ==
    /\ At(t, "reap")
    /\ task' = [task EXCEPT ![t].pc = "apply", ![t].acks = comps]
    /\ comps' = {}
    /\ UNCHANGED <<durable, dispatch, locked, fence, workers, stopped, budgets>>

\* The acks are applied under the dispatch lock.
ApplyAcks(t) ==
    /\ At(t, "apply") /\ ~locked
    /\ pending' = [p \in Triggers |->
          IF pending[p] # "none" /\ \E c \in task[t].acks : c.pos = p
            THEN (CHOOSE c \in task[t].acks : c.pos = p).as ELSE pending[p]]
    /\ wfPending' = [w \in Workflow |->
          wfPending[w] - Cardinality({c \in task[t].acks : WfOf[c.pos] = w})]
    /\ task' = [task EXCEPT ![t].pc = "floor", ![t].acks = {}]
    /\ UNCHANGED <<durable, started, ingest, floor, persisted, handle, locked, fence,
                   workers, comps, stopped, budgets>>

WrongPassed == {p \in Pend : pending[p] # "waiting"}     \* not only a prefix

\* The contiguous acked prefix of the pending window.
Passed == {p \in Pend : \A q \in Pend : q <= p => pending[q] # "waiting"}

WrongNewFloor ==            \* the scan moves the floor over pending triggers
    IF ingest > floor THEN ingest ELSE floor

\* Nothing pending any more: the floor is the ingestion cursor.
NewFloor ==
    IF Pend = Passed THEN Larger(floor, ingest)
    ELSE CHOOSE m \in {floor} \cup Passed : \A p \in {floor} \cup Passed : p <= m

\* advance_floor up to its first unlock: 0 stands for "nothing to persist".
MoveFloor(t) ==
    /\ At(t, "floor") /\ ~locked
    /\ IF ~started
         THEN /\ task' = [task EXCEPT ![t].pc = "noted"]
              /\ UNCHANGED <<floor, pending>>
         ELSE /\ floor' = NewFloor
              /\ pending' = [p \in Triggers |-> IF p \in Passed THEN "none" ELSE pending[p]]
              /\ task' = [task EXCEPT
                    ![t].pc = IF persisted # NewFloor THEN "persist" ELSE "gc",
                    ![t].want = NewFloor,
                    ![t].gc = {p \in Passed : pending[p] = "memoized"}]
    /\ UNCHANGED <<durable, started, ingest, persisted, wfPending, handle, locked, fence,
                   workers, comps, stopped, budgets>>

WrongAdvance(n) == n        \* CheckpointStore::set

\* CheckpointStore::advance is an atomic maximum.
Advance(n) == Larger(checkpoint, n)

WrongPersist(t) ==          \* goes on to the memos whatever the write did
    /\ At(t, "persist")
    /\ checkpoint' \in {checkpoint, Advance(task[t].want)}
    /\ Goto(t, "note")
    /\ UNCHANGED <<tip, done, memo, dispatch, locked, fence, workers, comps, stopped, budgets>>

Persist(t) ==
    /\ At(t, "persist")
    /\ checkpoint' = Advance(task[t].want)
    /\ Goto(t, "note")
    /\ UNCHANGED <<tip, done, memo, dispatch, locked, fence, workers, comps, stopped, budgets>>

\* The write fails, landed or not: the caller gets the error and the list of
\* passed triggers is lost.
PersistFails(t) ==
    /\ At(t, "persist")
    /\ faults < MaxFaults /\ faults' = faults + 1
    /\ checkpoint' \in {checkpoint, Advance(task[t].want)}
    /\ task' = [task EXCEPT ![t] = IdleTask]
    /\ UNCHANGED <<tip, done, memo, dispatch, locked, fence, workers, comps, stopped,
                   crashes, deaths>>

WrongNote(t) ==             \* records the floor of now, not the one written
    /\ At(t, "note") /\ ~locked
    /\ persisted' = Larger(persisted, floor)
    /\ Goto(t, "gc")
    /\ UNCHANGED <<durable, started, ingest, floor, pending, wfPending, handle, locked,
                   fence, workers, comps, stopped, budgets>>

Note(t) ==
    /\ At(t, "note") /\ ~locked
    /\ persisted' = Larger(persisted, task[t].want)
    /\ Goto(t, "gc")
    /\ UNCHANGED <<durable, started, ingest, floor, pending, wfPending, handle, locked,
                   fence, workers, comps, stopped, budgets>>

\* Best effort: any of the removals may fail.
CollectMemos(t) ==
    /\ At(t, "gc")
    /\ \E lost \in SUBSET task[t].gc : memo' = memo \ lost
    /\ task' = [task EXCEPT ![t].pc = "noted", ![t].gc = {}]
    /\ UNCHANGED <<tip, checkpoint, done, dispatch, locked, fence, workers, comps, stopped,
                   budgets>>

(***************************************************************************)
(* The supervisor's step.                                                  *)
(***************************************************************************)
\* ensure_started, then reap; later steps reap at once.
Step ==
    /\ At(Supervisor, "idle") /\ ~stopped /\ ~locked
    /\ started' = TRUE
    /\ IF started THEN UNCHANGED <<ingest, floor, persisted>>
       ELSE ingest' = checkpoint /\ floor' = checkpoint /\ persisted' = checkpoint
    /\ Goto(Supervisor, "reap")
    /\ UNCHANGED <<durable, pending, wfPending, handle, locked, fence, workers, comps,
                   stopped, budgets>>

\* The end of reap, or of the whole step.
Noted ==
    /\ At(Supervisor, "noted")
    /\ task' = [task EXCEPT ![Supervisor] =
                  IF task[Supervisor].tail THEN IdleTask ELSE [IdleTask EXCEPT !.pc = "read"]]
    /\ UNCHANGED <<durable, dispatch, locked, fence, workers, comps, stopped, budgets>>

\* The window has room: read a batch, then take the lock for it.
ReadBatch ==
    /\ At(Supervisor, "read") /\ ~locked
    /\ IF Cardinality(Pend) < MaxPending
         THEN /\ locked' = TRUE
              /\ \E n \in {tip, ingest + Batch} :
                    /\ n <= tip /\ n <= ingest + Batch
                    /\ task' = [task EXCEPT ![Supervisor].pc = "ingest", ![Supervisor].hi = n]
         ELSE /\ UNCHANGED locked
              /\ task' = [task EXCEPT ![Supervisor].pc = "floor", ![Supervisor].tail = TRUE]
    /\ UNCHANGED <<durable, dispatch, fence, workers, comps, stopped, budgets>>

WrongEnqueue(p) ==          \* always a new worker
    /\ handle' = [handle EXCEPT ![PartOf[p]] = p]
    /\ queue' = [queue EXCEPT ![p] = <<p>>]
    /\ worker' = [worker EXCEPT ![p] = [IdleWorker EXCEPT !.pc = "loop"]]

\* Route into the partition; a cold or dead one gets a new worker.
Enqueue(p) ==
    LET g == handle[PartOf[p]] IN
    IF g # 0 /\ Alive(g)
      THEN /\ queue' = [queue EXCEPT ![g] = Append(@, p)]
           /\ UNCHANGED <<handle, worker>>
      ELSE /\ handle' = [handle EXCEPT ![PartOf[p]] = p]
           /\ queue' = [queue EXCEPT ![p] = <<p>>]
           /\ worker' = [worker EXCEPT ![p] = [IdleWorker EXCEPT !.pc = "loop"]]

Ingesting(p) == At(Supervisor, "ingest") /\ p = ingest + 1 /\ p <= task[Supervisor].hi

Gated(p) == WfOf[p] \in fence /\ ~HasStore

WrongIngestTrigger(p) ==    \* pending and queued, but not counted
    /\ Ingesting(p) /\ p \in Triggers
    /\ Cardinality(Pend) < MaxPending
    /\ ~Gated(p)
    /\ ingest' = p
    /\ pending' = [pending EXCEPT ![p] = "waiting"]
    /\ Enqueue(p)
    /\ UNCHANGED <<durable, started, floor, persisted, wfPending, locked, fence, comps, task,
                   stopped, budgets>>

\* A trigger: pending, counted and queued, ...
IngestTrigger(p) ==
    /\ Ingesting(p) /\ p \in Triggers
    /\ Cardinality(Pend) < MaxPending
    /\ ~Gated(p)
    /\ ingest' = p
    /\ pending' = [pending EXCEPT ![p] = "waiting"]
    /\ wfPending' = [wfPending EXCEPT ![WfOf[p]] = @ + 1]
    /\ Enqueue(p)
    /\ UNCHANGED <<durable, started, floor, persisted, locked, fence, comps, task, stopped,
                   budgets>>

\* ... or skipped: its workflow is cancelled and nothing can have been sealed.
IngestGated(p) ==
    /\ Ingesting(p) /\ p \in Triggers
    /\ Cardinality(Pend) < MaxPending
    /\ Gated(p)
    /\ ingest' = p
    /\ UNCHANGED <<durable, started, floor, persisted, pending, wfPending, handle, locked,
                   fence, workers, comps, task, stopped, budgets>>

\* Any other event is scanned past; a cancel marker sets the fence.
IngestOther(p) ==
    /\ Ingesting(p) /\ p \notin Triggers
    /\ ingest' = p
    /\ fence' = fence \cup Marked(p)
    /\ UNCHANGED <<durable, started, floor, persisted, pending, wfPending, handle, locked,
                   workers, comps, task, stopped, budgets>>

\* The batch is through, or the window is full at the next trigger.
EndBatch ==
    /\ At(Supervisor, "ingest")
    /\ \/ ingest >= task[Supervisor].hi
       \/ /\ ingest + 1 \in Triggers
          /\ Cardinality(Pend) >= MaxPending
    /\ locked' = FALSE
    /\ task' = [task EXCEPT ![Supervisor].pc = "floor", ![Supervisor].tail = TRUE]
    /\ UNCHANGED <<durable, dispatch, fence, workers, comps, stopped, budgets>>

(***************************************************************************)
(* Settle probes: drained(wf, hw).                                         *)
(***************************************************************************)
\* Before the first step the durable cursor is all there is.
Probe(t) ==
    /\ t \in Prober /\ At(t, "idle") /\ ~locked
    /\ \E w \in Workflow, n \in 1 .. tip :
          task' = [task EXCEPT ![t] = [IdleTask EXCEPT
              !.wf = w, !.hw = n,
              !.pc = IF started THEN "reap" ELSE IF checkpoint >= n THEN "yes" ELSE "no"]]
    /\ UNCHANGED <<durable, dispatch, locked, fence, workers, comps, stopped, budgets>>

WrongAnswer(t) ==           \* scanned past the mark is enough
    /\ t \in Prober /\ At(t, "noted") /\ ~locked
    /\ Goto(t, IF ingest >= task[t].hw THEN "yes" ELSE "no")
    /\ UNCHANGED <<durable, dispatch, locked, fence, workers, comps, stopped, budgets>>

Answer(t) ==
    /\ t \in Prober /\ At(t, "noted") /\ ~locked
    /\ Goto(t, IF ingest >= task[t].hw /\ wfPending[task[t].wf] = 0 THEN "yes" ELSE "no")
    /\ UNCHANGED <<durable, dispatch, locked, fence, workers, comps, stopped, budgets>>

Again(t) ==
    /\ t \in Prober /\ (At(t, "yes") \/ At(t, "no"))
    /\ task' = [task EXCEPT ![t] = IdleTask]
    /\ UNCHANGED <<durable, dispatch, locked, fence, workers, comps, stopped, budgets>>

(***************************************************************************)
(* Workers.                                                                *)
(***************************************************************************)
Becomes(g, pc, p) == worker' = [worker EXCEPT ![g] = [pc |-> pc, cur |-> p, used |-> FALSE]]

\* Pop the head of the channel.
Take(g) ==
    /\ queue[g] # <<>>
    /\ queue' = [queue EXCEPT ![g] = Tail(@)]
    /\ Becomes(g, "busy", Head(queue[g]))

\* worker_loop's first try_recv; on halt the worker returns.
TryRecv(g) ==
    /\ worker[g].pc = "loop"
    /\ \/ ~stopped /\ Take(g)
       \/ ~stopped /\ queue[g] = <<>> /\ Becomes(g, "empty", 0) /\ UNCHANGED queue
       \/ stopped /\ Becomes(g, "none", 0) /\ UNCHANGED queue
    /\ UNCHANGED <<durable, dispatch, locked, fence, comps, task, stopped, budgets>>

WrongDeregister(g) ==       \* the channel is not looked at again
    /\ worker[g].pc = "empty" /\ ~locked
    /\ handle' = [k \in Partition |-> IF handle[k] = g THEN 0 ELSE handle[k]]
    /\ Becomes(g, "none", 0)
    /\ UNCHANGED <<durable, started, ingest, floor, persisted, pending, wfPending, locked,
                   fence, queue, comps, task, stopped, budgets>>

\* Empty: look again under the dispatch lock, take or deregister and exit.
Deregister(g) ==
    /\ worker[g].pc = "empty" /\ ~locked
    /\ \/ Take(g) /\ UNCHANGED handle
       \/ /\ queue[g] = <<>>
          /\ handle' = [k \in Partition |-> IF handle[k] = g THEN 0 ELSE handle[k]]
          /\ Becomes(g, "none", 0) /\ UNCHANGED queue
    /\ UNCHANGED <<durable, started, ingest, floor, persisted, pending, wfPending, locked,
                   fence, comps, task, stopped, budgets>>

\* The body writes an entry to the effect store.
Memoize(g) ==
    /\ worker[g].pc = "busy" /\ ~worker[g].used
    /\ memo' = memo \cup {worker[g].cur}
    /\ worker' = [worker EXCEPT ![g].used = TRUE]
    /\ UNCHANGED <<tip, checkpoint, done, dispatch, locked, fence, queue, comps, task,
                   stopped, budgets>>

\* process_trigger is through: the completion is sent.
Complete(g) ==
    /\ worker[g].pc = "busy"
    /\ done' = done \cup {worker[g].cur}
    /\ \E as \in {"parked", IF worker[g].used THEN "memoized" ELSE "acked"} :
          comps' = comps \cup {[pos |-> worker[g].cur, as |-> as]}
    /\ Becomes(g, "loop", 0)
    /\ UNCHANGED <<tip, checkpoint, memo, dispatch, locked, fence, queue, task, stopped, budgets>>

\* process_trigger returns None: halted before it completed.
Abandon(g) ==
    /\ worker[g].pc = "busy" /\ stopped
    /\ Becomes(g, "none", 0)
    /\ UNCHANGED <<durable, dispatch, locked, fence, queue, comps, task, stopped, budgets>>

\* The task is killed out-of-band: its receiver is dropped with what it held.
Die(g) ==
    /\ Alive(g)
    /\ deaths < MaxDeaths /\ deaths' = deaths + 1
    /\ Becomes(g, "none", 0)
    /\ queue' = [queue EXCEPT ![g] = <<>>]
    /\ UNCHANGED <<durable, dispatch, locked, fence, comps, task, stopped, crashes, faults>>

(***************************************************************************)
(* The process.                                                            *)
(***************************************************************************)
\* shutdown and drain halt every consumer; the supervisor leaves its loop.
Halt ==
    /\ ~stopped /\ started
    /\ stopped' = TRUE
    /\ UNCHANGED <<durable, dispatch, locked, fence, workers, comps, task, budgets>>

Markers == {Cancels[p] : p \in 1 .. tip} \ {NoWf}

\* A crash, or the end of the process, and the next boot with its fence.
Crash ==
    /\ crashes < MaxCrashes /\ crashes' = crashes + 1
    /\ started' = FALSE /\ ingest' = 0 /\ floor' = 0 /\ persisted' = 0
    /\ pending' = [p \in Triggers |-> "none"]
    /\ wfPending' = [w \in Workflow |-> 0]
    /\ handle' = [k \in Partition |-> 0]
    /\ locked' = FALSE
    /\ fence' = Markers
    /\ queue' = [g \in Gen |-> <<>>]
    /\ worker' = [g \in Gen |-> IdleWorker]
    /\ comps' = {}
    /\ task' = [t \in Task |-> IdleTask]
    /\ stopped' = FALSE
    /\ UNCHANGED <<durable, faults, deaths>>

(***************************************************************************)
(* Specification.                                                          *)
(***************************************************************************)
Reaping(t) ==
    \/ DrainComps(t) \/ ApplyAcks(t) \/ MoveFloor(t) \/ Persist(t) \/ Note(t)
    \/ CollectMemos(t)

Supervise ==
    \/ Step \/ Reaping(Supervisor) \/ Noted \/ ReadBatch \/ EndBatch
    \/ \E p \in Position : IngestTrigger(p) \/ IngestGated(p) \/ IngestOther(p)

Working(g) == TryRecv(g) \/ Deregister(g) \/ Complete(g)

Next ==
    \/ Arrive
    \/ Supervise \/ PersistFails(Supervisor)
    \/ \E t \in Prober : Reaping(t) \/ PersistFails(t) \/ Probe(t) \/ Answer(t) \/ Again(t)
    \/ \E g \in Gen : Working(g) \/ Memoize(g) \/ Abandon(g) \/ Die(g)
    \/ Halt
    \/ Crash

Spec == Init /\ [][Next]_vars

\* The supervisor loops, spawned workers and pending probes are polled.
Fairness ==
    /\ WF_vars(Supervise)
    /\ \A t \in Prober : WF_vars(Reaping(t))
    /\ \A g \in Gen : WF_vars(Working(g))

FairSpec == Spec /\ Fairness

(***************************************************************************)
(* What it implements.                                                     *)
(***************************************************************************)
\* A trigger of a cancelled workflow may be skipped when nothing is sealed.
Skippable(p) == ~HasStore /\ WfOf[p] \in Markers

Delivery == INSTANCE AtLeastOnce WITH
                length <- tip, cursor <- checkpoint, delivered <- done,
                excused <- {p \in Triggers : Skippable(p)}

(***************************************************************************)
(* Properties.                                                             *)
(***************************************************************************)
\* Every variable holds a value of its kind.
TypeOK ==
    /\ tip \in 0 .. MaxLog /\ checkpoint \in 0 .. MaxLog
    /\ done \subseteq Triggers /\ memo \subseteq Triggers
    /\ started \in BOOLEAN /\ locked \in BOOLEAN
    /\ ingest \in 0 .. MaxLog /\ floor \in 0 .. MaxLog /\ persisted \in 0 .. MaxLog
    /\ pending \in [Triggers -> {"none", "waiting"} \cup Outcome]
    /\ wfPending \in [Workflow -> Nat]
    /\ handle \in [Partition -> Triggers \cup {0}]
    /\ fence \subseteq Workflow
    /\ queue \in [Gen -> Seq(Triggers)]
    /\ worker \in [Gen -> [pc : {"none", "loop", "empty", "busy"}, cur : Triggers \cup {0},
                           used : BOOLEAN]]
    /\ comps \subseteq Completion
    /\ task \in [Task -> [pc : {"idle", "reap", "apply", "floor", "persist", "note", "gc",
                                "noted", "read", "ingest", "yes", "no"},
                          tail : BOOLEAN, acks : SUBSET Completion, hi : 0 .. MaxLog,
                          want : 0 .. MaxLog, gc : SUBSET Triggers,
                          wf : Workflow \cup {NoWf}, hw : 0 .. MaxLog]]
    /\ stopped \in BOOLEAN
    /\ crashes \in 0 .. MaxCrashes /\ faults \in 0 .. MaxFaults /\ deaths \in 0 .. MaxDeaths

\* The durable cursor passes no trigger that some worker has not completed,
\* although workers complete them in any order, several tasks move the floor at
\* once and writes fail (advance_floor).
FloorSafe == \A p \in Triggers : p <= checkpoint => p \in done \/ Skippable(p)

\* What the runner believes is persisted, is: otherwise the last floor of a
\* quiet log would never be written.
PersistedIsDurable == persisted <= checkpoint

\* An effect memo goes only when no redelivery can ask for it.
MemoOutlivesRedelivery == [][\A p \in memo \ memo' : p <= checkpoint]_vars

\* A probe answers yes for a workflow only when every one of its triggers up to
\* the high-water mark is completed.
DrainedSound ==
    \A t \in Prober : At(t, "yes") =>
        \A p \in Triggers : p <= task[t].hw /\ WfOf[p] = task[t].wf
            => p \in done \/ Skippable(p)

\* The triggers of one partition are processed one at a time and in log order:
\* whoever works on p, every earlier trigger of p's partition is through.
PartitionOrder ==
    \A g \in Gen : worker[g].pc = "busy" =>
        \A q \in Triggers :
            /\ q < worker[g].cur /\ PartOf[q] = PartOf[worker[g].cur]
            /\ pending[q] = "waiting"
            => q \in done

\* A trigger whose completion is on its way to the window.
Completing == {c.pos : c \in comps} \cup UNION {{c.pos : c \in task[t].acks} : t \in Task}

Held(g) == {queue[g][i] : i \in DOMAIN queue[g]}
             \cup (IF worker[g].pc = "busy" THEN {worker[g].cur} ELSE {})

\* "So nothing is lost" (enqueue): every pending trigger is in the hands of a
\* worker, or completed.
NothingStranded ==
    ~stopped => \A p \in Triggers :
        pending[p] = "waiting" => p \in Completing \/ \E g \in Gen : Alive(g) /\ p \in Held(g)

\* All of it is at-least-once delivery behind a durable cursor.
ImplementsAtLeastOnce == Delivery!Spec

\* The durable cursor reaches the end of the log and stays there, unless the
\* engine is drained.
EventuallyCaughtUp == <>[](stopped \/ (tip < MaxLog) \/ (started /\ checkpoint = MaxLog))
=============================================================================
