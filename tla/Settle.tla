-------------------------------- MODULE Settle --------------------------------
(***************************************************************************)
(* Waiting for a workflow to come to rest (engine.rs: SettleTracker,       *)
(* Engine::settle, ConsumerHealth).                                        *)
(*                                                                         *)
(* Callers emit a fact into a workflow and may wait until its causal chain *)
(* has drained.  Every reactor output inherits the workflow of its trigger *)
(* and raises the workflow's high-water mark after it is in the log and    *)
(* before the trigger is acked; a waiting caller reads the mark, asks the  *)
(* consumers one after the other whether they are drained up to it, and    *)
(* reads the mark again.  The table of marks is bounded: at its cap, a new *)
(* workflow evicts one that nobody has pinned.                             *)
(*                                                                         *)
(* Consumers are seen from outside: what reactor_runner.rs and             *)
(* projection_runner.rs let `drained` and the wedge probes observe.        *)
(***************************************************************************)
EXTENDS Naturals, Sequences, FiniteSets

CONSTANTS
    Reactor, Projector,
    Order,       \* Engine.consumers: the sequence in which settle asks them
    Workflow, Kind, NoKind,
    Consumes,    \* [Reactor -> Kind]: the trigger kind
    Produces,    \* [Reactor -> Kind \cup {NoKind}]: what one reaction appends
    Caller,
    Plan,        \* [Caller -> [wf, kind, settled]]: what each caller emits
    Stuck,       \* <<reactor, workflow>> pairs that only ever fail transiently
    Broken,      \* projectors whose step fails on every event
    Window,      \* MAX_PENDING
    Cap,         \* SETTLE_TRACKER_CAP
    Wedge,       \* SETTLE_WEDGE_FAILURES
    MaxBlips,    \* bound: failures of reactions that are not stuck
    MaxLog       \* bound: length of the log

Consumer == Reactor \cup Projector
Position == 1 .. MaxLog

\* An engine with no consumer has nothing to wait for.
ASSUME SettleAssumption ==
    /\ Order # <<>>
    /\ Order \in Seq(Consumer) /\ {Order[i] : i \in DOMAIN Order} = Consumer
    /\ Consumes \in [Reactor -> Kind] /\ Produces \in [Reactor -> Kind \cup {NoKind}]
    /\ Plan \in [Caller -> [wf : Workflow, kind : Kind, settled : BOOLEAN]]
    /\ Stuck \subseteq Reactor \X Workflow /\ Broken \subseteq Projector
    /\ Window \in Nat \ {0} /\ Cap \in Nat \ {0} /\ Wedge \in Nat \ {0}
    /\ MaxBlips \in Nat /\ MaxLog \in Nat

VARIABLES
    log,      \* [wf, kind, root]: root is the position of the emitted ancestor
    scanned,  \* ingest_pos of a reactor, the cursor of a projector
    job,      \* what a reactor is doing with each trigger it has ingested
    mark,     \* SettleTracker.hw; 0 when there is no entry
    pinned,   \* SettleTracker.pinned
    failing,  \* worker_stall of a reactor, ConsumerHealth of a projector
    call,     \* the callers
    blips

consumers == <<scanned, job, failing, blips>>
vars == <<log, scanned, job, mark, pinned, failing, call, blips>>

Init ==
    /\ log = <<>>
    /\ scanned = [k \in Consumer |-> 0]
    /\ job = [r \in Reactor |-> [p \in Position |-> [pc |-> "none", out |-> 0]]]
    /\ mark = [w \in Workflow |-> 0]
    /\ pinned = {}
    /\ failing = [k \in Consumer |-> 0]
    /\ call = [c \in Caller |-> [pc |-> "idle", pos |-> 0, hw |-> 0, at |-> 0]]
    /\ blips = 0

(***************************************************************************)
(* Consumers.                                                              *)
(***************************************************************************)
\* Not acked: what wf_pending counts.
Open(r) == {p \in Position : job[r][p].pc \in {"queued", "appended", "bumped"}}

\* Dispatch.pending: an acked trigger stays in it behind one that is not, since
\* advance_floor takes only the acked prefix away.
Held(r) == {p \in Position : /\ job[r][p].pc # "none"
                             /\ \E q \in Open(r) : q <= p}

Matches(r, p) == log[p].kind = Consumes[r]

WrongMoreFailing(k) == failing[k] + 1

\* Consecutive failures are only ever compared with Wedge: the count saturates.
MoreFailing(k) == IF failing[k] < Wedge THEN failing[k] + 1 ELSE Wedge

\* One event of ReactorRunner::step, window permitting.
Ingest(r) ==
    /\ scanned[r] < Len(log)
    /\ Cardinality(Held(r)) < Window
    /\ scanned' = [scanned EXCEPT ![r] = @ + 1]
    /\ job' = IF Matches(r, scanned[r] + 1)
                THEN [job EXCEPT ![r][scanned[r] + 1].pc = "queued"] ELSE job
    /\ UNCHANGED <<log, mark, pinned, failing, call, blips>>

\* The rest of a batch that filled the window: up to the next trigger.
ScanPast(r) ==
    /\ scanned[r] < Len(log)
    /\ Cardinality(Held(r)) >= Window
    /\ ~Matches(r, scanned[r] + 1)
    /\ scanned' = [scanned EXCEPT ![r] = @ + 1]
    /\ UNCHANGED <<log, job, mark, pinned, failing, call, blips>>

WrongAppend(r, p) ==        \* acked before the mark is raised
    /\ job[r][p].pc = "queued" /\ <<r, log[p].wf>> \notin Stuck
    /\ Produces[r] # NoKind /\ Len(log) < MaxLog
    /\ log' = Append(log, [wf |-> log[p].wf, kind |-> Produces[r], root |-> log[p].root])
    /\ job' = [job EXCEPT ![r][p] = [pc |-> "done", out |-> Len(log) + 1]]
    /\ UNCHANGED <<scanned, mark, pinned, failing, call, blips>>

\* append_outputs_once: the output is in the log ...
AppendOutput(r, p) ==
    /\ job[r][p].pc = "queued" /\ <<r, log[p].wf>> \notin Stuck
    /\ Produces[r] # NoKind /\ Len(log) < MaxLog
    /\ log' = Append(log, [wf |-> log[p].wf, kind |-> Produces[r], root |-> log[p].root])
    /\ job' = [job EXCEPT ![r][p] = [pc |-> "appended", out |-> Len(log) + 1]]
    /\ UNCHANGED <<scanned, mark, pinned, failing, call, blips>>

Tracked == {w \in Workflow : mark[w] # 0}

WrongEvictable == Tracked         \* pins ignored

Evictable == Tracked \ pinned

\* SettleTracker::bump: the maximum, or a new entry in place of some victim.
BumpTo(w, p) ==
    IF mark[w] # 0
      THEN mark' = [mark EXCEPT ![w] = IF p > @ THEN p ELSE @]
      ELSE IF Cardinality(Tracked) >= Cap /\ Evictable # {}
        THEN \E v \in Evictable : mark' = [mark EXCEPT ![v] = 0, ![w] = p]
        ELSE mark' = [mark EXCEPT ![w] = p]

\* ... then the workflow's mark is raised to it.
Bump(r, p) ==
    /\ job[r][p].pc = "appended"
    /\ BumpTo(log[p].wf, job[r][p].out)
    /\ job' = [job EXCEPT ![r][p].pc = "bumped"]
    /\ UNCHANGED <<log, scanned, pinned, failing, call, blips>>

\* The trigger is done: the worker's failure run ends, wf_pending drops it.
Ack(r, p) ==
    /\ \/ job[r][p].pc = "bumped"
       \/ job[r][p].pc = "queued" /\ Produces[r] = NoKind /\ <<r, log[p].wf>> \notin Stuck
    /\ job' = [job EXCEPT ![r][p].pc = "done"]
    /\ failing' = [failing EXCEPT ![r] = 0]
    /\ UNCHANGED <<log, scanned, mark, pinned, call, blips>>

\* note_worker_retry: a transient failure that will be retried.
Retry(r, p) ==
    /\ job[r][p].pc = "queued"
    /\ \/ <<r, log[p].wf>> \in Stuck /\ UNCHANGED blips
       \/ <<r, log[p].wf>> \notin Stuck /\ blips < MaxBlips /\ blips' = blips + 1
    /\ failing' = [failing EXCEPT ![r] = MoreFailing(r)]
    /\ UNCHANGED <<log, scanned, job, mark, pinned, call>>

\* ProjectionRunner::step, one event.
Project(k) ==
    /\ scanned[k] < Len(log)
    /\ IF k \in Broken
         THEN /\ failing' = [failing EXCEPT ![k] = MoreFailing(k)]
              /\ UNCHANGED scanned
         ELSE /\ failing' = [failing EXCEPT ![k] = 0]
              /\ scanned' = [scanned EXCEPT ![k] = @ + 1]
    /\ UNCHANGED <<log, job, mark, pinned, call, blips>>

WrongDrained(k, w, hw) == scanned[k] >= hw     \* queued and in-flight work ignored

\* Supervisable::drained.
Drained(k, w, hw) ==
    /\ scanned[k] >= hw
    /\ k \in Reactor => \A p \in Open(k) : log[p].wf # w

(***************************************************************************)
(* Callers.                                                                *)
(***************************************************************************)
Wf(c) == Plan[c].wf
Asked(c) == Order[call[c].at]

\* execute_emit; a caller that does not wait is done.  The mark is not raised.
Emit(c) ==
    /\ call[c].pc = "idle" /\ Len(log) < MaxLog
    /\ log' = Append(log, [wf |-> Wf(c), kind |-> Plan[c].kind, root |-> Len(log) + 1])
    /\ call' = [call EXCEPT ![c].pc = IF Plan[c].settled THEN "pin" ELSE "emitted",
                            ![c].pos = Len(log) + 1]
    /\ UNCHANGED <<mark, pinned, consumers>>

Pin(c) ==
    /\ call[c].pc = "pin"
    /\ pinned' = pinned \cup {Wf(c)}
    /\ call' = [call EXCEPT ![c].pc = "read"]
    /\ UNCHANGED <<log, mark, consumers>>

\* The mark, or the emit position when there is no entry.
ReadMark(c) ==
    /\ call[c].pc = "read"
    /\ call' = [call EXCEPT ![c].pc = "wait", ![c].at = 1,
                    ![c].hw = IF mark[Wf(c)] = 0 THEN call[c].pos ELSE mark[Wf(c)]]
    /\ UNCHANGED <<log, mark, pinned, consumers>>

\* The consumer asked is drained: on to the next.
Next1(c) ==
    /\ call[c].pc = "wait"
    /\ Drained(Asked(c), Wf(c), call[c].hw)
    /\ call' = [call EXCEPT ![c].pc = IF call[c].at = Len(Order) THEN "recheck" ELSE "wait",
                            ![c].at = IF @ = Len(Order) THEN @ ELSE @ + 1]
    /\ UNCHANGED <<log, mark, pinned, consumers>>

NotYet(c) ==
    /\ call[c].pc = "wait"
    /\ ~Drained(Asked(c), Wf(c), call[c].hw)
    /\ call' = [call EXCEPT ![c].pc = "probe"]
    /\ UNCHANGED <<log, mark, pinned, consumers>>

WrongProbe(c) ==            \* the wedge probes are not consulted
    /\ call[c].pc = "probe"
    /\ call' = [call EXCEPT ![c].pc = "wait"]
    /\ UNCHANGED <<log, mark, pinned, consumers>>

\* The wedge probes: enough consecutive failures and the wait is given up.
Probe(c) ==
    /\ call[c].pc = "probe"
    /\ IF failing[Asked(c)] >= Wedge
         THEN /\ call' = [call EXCEPT ![c].pc = "wedged"]
              /\ pinned' = pinned \ {Wf(c)}
         ELSE /\ call' = [call EXCEPT ![c].pc = "wait"]
              /\ UNCHANGED pinned
    /\ UNCHANGED <<log, mark, consumers>>

\* A probe that cannot be answered ends the wait: drained()'s own error (a
\* checkpoint that cannot be read, a floor that cannot be written).
DrainFails(c) ==
    /\ call[c].pc = "wait"
    /\ call' = [call EXCEPT ![c].pc = "failed"]
    /\ pinned' = pinned \ {Wf(c)}
    /\ UNCHANGED <<log, mark, consumers>>

WrongRecheck(c) ==          \* the mark is not read again
    /\ call[c].pc = "recheck"
    /\ call' = [call EXCEPT ![c].pc = "forget"]
    /\ UNCHANGED <<log, mark, pinned, consumers>>

\* The mark again; a missing entry counts as unchanged.
Recheck(c) ==
    /\ call[c].pc = "recheck"
    /\ call' = [call EXCEPT ![c].pc =
                  IF mark[Wf(c)] \in {0, call[c].hw} THEN "forget" ELSE "read"]
    /\ UNCHANGED <<log, mark, pinned, consumers>>

Forget(c) ==
    /\ call[c].pc = "forget"
    /\ mark' = [mark EXCEPT ![Wf(c)] = 0]
    /\ call' = [call EXCEPT ![c].pc = "unpin"]
    /\ UNCHANGED <<log, pinned, consumers>>

\* SettlePin::drop.
Unpin(c) ==
    /\ call[c].pc = "unpin"
    /\ pinned' = pinned \ {Wf(c)}
    /\ call' = [call EXCEPT ![c].pc = "settled"]
    /\ UNCHANGED <<log, mark, consumers>>

(***************************************************************************)
(* Specification.                                                          *)
(***************************************************************************)
Settling(c) ==
    Pin(c) \/ ReadMark(c) \/ Next1(c) \/ NotYet(c) \/ Probe(c) \/ Recheck(c)
           \/ Forget(c) \/ Unpin(c)

Work(r, p) == AppendOutput(r, p) \/ Bump(r, p) \/ Ack(r, p)

Next ==
    \/ \E c \in Caller : Emit(c) \/ Settling(c) \/ DrainFails(c)
    \/ \E r \in Reactor : Ingest(r) \/ ScanPast(r)
    \/ \E r \in Reactor, p \in Position : Work(r, p) \/ Retry(r, p)
    \/ \E k \in Projector : Project(k)

Spec == Init /\ [][Next]_vars

\* Supervisors step every consumer, spawned workers run, callers are polled.
Fairness ==
    /\ \A c \in Caller : WF_vars(Emit(c)) /\ WF_vars(Settling(c))
    /\ \A r \in Reactor : WF_vars(Ingest(r))
    /\ \A r \in Reactor, p \in Position : WF_vars(Work(r, p) \/ Retry(r, p))
    /\ \A k \in Projector : WF_vars(Project(k))

FairSpec == Spec /\ Fairness

(***************************************************************************)
(* Properties.                                                             *)
(***************************************************************************)
CallPC == {"idle", "emitted", "pin", "read", "wait", "probe", "recheck", "forget",
           "unpin", "settled", "wedged", "failed"}

\* Every variable holds a value of its kind.
TypeOK ==
    /\ log \in Seq([wf : Workflow, kind : Kind, root : Position]) /\ Len(log) <= MaxLog
    /\ scanned \in [Consumer -> 0 .. MaxLog]
    /\ job \in [Reactor -> [Position -> [pc : {"none", "queued", "appended", "bumped", "done"},
                                         out : 0 .. MaxLog]]]
    /\ mark \in [Workflow -> 0 .. MaxLog]
    /\ pinned \subseteq Workflow
    /\ failing \in [Consumer -> 0 .. Wedge]
    /\ call \in [Caller -> [pc : CallPC, pos : 0 .. MaxLog, hw : 0 .. MaxLog,
                            at : 0 .. Len(Order)]]
    /\ blips \in 0 .. MaxBlips

\* Consumer k is through with position p: scanned past it, nothing queued.
Observed(k, p) == scanned[k] >= p /\ (k \in Reactor => p \notin Open(k))

\* "Returns only after every registered consumer has observed every event
\* produced by this emit (and any downstream emissions the reactor chain
\* produced from it)" (EmitBuilder::settled).
SettledMeansDrained ==
    \A c \in Caller : call[c].pc = "settled" =>
        \A p \in 1 .. Len(log) : log[p].root = call[c].pos =>
            \A k \in Consumer : Observed(k, p)

\* What a workflow's reactors have acked is under its mark for as long as some
\* caller waits on that workflow, so that the re-read cannot miss it.
MarkCoversAcked ==
    \A c \in Caller : call[c].pc \in {"read", "wait", "probe", "recheck"} =>
        \A r \in Reactor, p \in 1 .. Len(log) :
            job[r][p].pc = "done" /\ log[p].root = call[c].pos /\ job[r][p].out # 0
                => mark[Wf(c)] >= job[r][p].out

InFlight(w) == \E c \in Caller :
    Wf(c) = w /\ call[c].pc \in {"read", "wait", "probe", "recheck", "forget"}

\* "Workflows with an in-flight settle() call.  Their high-water entries MUST
\* NOT be evicted" (SettleTracker): one workflow's bump never drops the entry
\* of a workflow somebody is settling.
EvictionSparesSettling ==
    [][\A v, w \in Workflow :
          mark[w] = 0 /\ mark'[w] # 0 /\ mark[v] # 0 /\ mark'[v] = 0 => ~InFlight(v)]_vars

\* Every settle returns, drained or with an error, even when a reaction fails
\* forever, a window it fills keeps another workflow's trigger from being
\* ingested, or a projector never gets past an event: no silent hang.
SettleReturns ==
    \A c \in Caller : call[c].pc = "pin" ~> call[c].pc \in {"settled", "wedged", "failed"}
=============================================================================
