--------------------------- MODULE ReactorDecision ---------------------------
(***************************************************************************)
(* How one reactor turns a trigger into log rows exactly once, although    *)
(* triggers are delivered at least once (reactor_runner.rs and             *)
(* decision_store.rs).                                                     *)
(*                                                                         *)
(* One consumer, NTriggers matching events already in its log at the       *)
(* positions 1..NTriggers, and a set of Runner executions of that consumer *)
(* that may overlap: the replicas of a deployment without a lease, or a    *)
(* stale lease holder and its successor (an advisory lock carries no       *)
(* fencing token).  For each trigger a runner consults the decision store, *)
(* runs the reactor body when nothing is sealed, seals the whole batch,    *)
(* appends the batch row by row, and acks.  The durable checkpoint follows *)
(* the acked prefix, a crash loses everything volatile, and the retention  *)
(* sweep removes records.                                                  *)
(*                                                                         *)
(* A row's bytes are abstracted to the execution that decided them: two    *)
(* executions of a nondeterministic body give the same identity (kind,     *)
(* subject, nth) different bytes.                                          *)
(***************************************************************************)
EXTENDS Naturals, FiniteSets, Sequences

CONSTANTS
    Runner,        \* executions of the consumer that may overlap
    NTriggers,     \* matching events in the log
    Key,           \* output identities: (kind, subject, nth)
    ParkKey,       \* identity of the terminal-failure fact (nth = u32::MAX)
    NoRecord,      \* "the decision store holds nothing for this trigger"
    Batches,       \* the identity sequences a body may return
    NoOp,          \* triggers the body always decides nothing about
    Doomed,        \* triggers of the workflow that may be cancelled
    AtCeiling,     \* triggers at the causation-depth ceiling or beyond it
    OccKeys,       \* identities in an OCC-required category
    Silent,        \* triggers whose park appends no fact (H7 or mapper-None)
    SealEmpty,     \* seal_empty_decisions
    Canonical,     \* the backend attaches the log's row to a divergence
    MaxInFlight,   \* MAX_IN_FLIGHT permits of one runner
    MaxAttempts,   \* retry_policy.max_attempts
    MaxWaits,      \* transient retries that fit under TRANSIENT_CEILING
    MaxFaults,     \* bound: infrastructure errors
    MaxCrashes,    \* bound: process crashes
    MaxRewinds     \* bound: external regressions of the durable checkpoint

Trigger == 1 .. NTriggers

ASSUME ConstantsAssumption ==
    /\ NTriggers \in Nat /\ MaxInFlight \in Nat \ {0} /\ MaxAttempts \in Nat \ {0}
    /\ MaxWaits \in Nat \ {0}
    /\ MaxFaults \in Nat /\ MaxCrashes \in Nat /\ MaxRewinds \in Nat
    /\ ParkKey \notin Key
    /\ \A b \in Batches :
          /\ b \in Seq(Key)
          /\ \A i, j \in DOMAIN b : b[i] = b[j] => i = j
    /\ SealEmpty \in BOOLEAN /\ Canonical \in BOOLEAN

Row == [key : Key \cup {ParkKey}, by : Runner]
Record == [outs : Seq(Row), parked : BOOLEAN]

ASSUME NoRecordAssumption == NoRecord \notin Record

Rows(rec) == IF rec = NoRecord THEN {} ELSE {rec.outs[i] : i \in DOMAIN rec.outs}

(***************************************************************************)
(* Variables.                                                              *)
(***************************************************************************)
VARIABLES
    logged,      \* durable: the rows of each trigger in the event log
    sealed,      \* durable: the decision store
    attempts,    \* record_reactor_attempt's counter, saturating at MaxAttempts
    checkpoint,  \* durable: the consumer's cursor
    cancelled,   \* durable: the workflow's cancel marker is in the log
    up,          \* volatile: the runner has started
    fence,       \* volatile: the runner's cancelled_workflows holds the workflow
    job,         \* volatile: what the runner is doing with each trigger
    dlq,         \* external: times reactor_terminal_failure fired
    decided,     \* ghost: the first decision ever sealed for the trigger
    preCancel,   \* ghost: triggers whose decision was sealed before the cancel
    faults, crashes, rewinds

durable  == <<logged, sealed, attempts, checkpoint, cancelled>>
ghost    == <<decided, preCancel>>
budgets  == <<faults, crashes, rewinds>>
vars     == <<durable, up, fence, job, dlq, ghost, budgets>>

PC == {"down",    \* the runner is not up
       "passed",  \* at or below the cursor the runner started from
       "queued",  \* in its partition's channel
       "gate",    \* at the head of process_trigger's loop
       "missed",  \* the decision lookup found nothing; the attempt not recorded
       "body",    \* react() is running
       "seal",    \* about to seal job.rec
       "append",  \* appending job.rec.outs from job.next on
       "reseal",  \* diverged record removed, amended job.rec not yet sealed
       "acked"}   \* completion sent

Job == [pc : PC, fenced : BOOLEAN, parking : BOOLEAN, won : BOOLEAN,
        waited : 0 .. MaxWaits, seq : 0 .. MaxAttempts,
        rec : Record \cup {NoRecord}, next : Nat \ {0}]

FreshJob(p) ==
    [pc |-> p, fenced |-> FALSE, parking |-> FALSE, won |-> FALSE,
     waited |-> 0, seq |-> 0, rec |-> NoRecord, next |-> 1]

Init ==
    /\ logged = [t \in Trigger |-> {}]
    /\ sealed = [t \in Trigger |-> NoRecord]
    /\ attempts = [t \in Trigger |-> 0]
    /\ checkpoint = 0
    /\ cancelled = FALSE
    /\ up = [r \in Runner |-> FALSE]
    /\ fence = [r \in Runner |-> FALSE]
    /\ job = [r \in Runner |-> [t \in Trigger |-> FreshJob("down")]]
    /\ dlq = [t \in Trigger |-> 0]
    /\ decided = [t \in Trigger |-> NoRecord]
    /\ preCancel = {}
    /\ faults = 0 /\ crashes = 0 /\ rewinds = 0

(***************************************************************************)
(* Helpers.                                                                *)
(***************************************************************************)
At(r, t, p) == job[r][t].pc = p

Becomes(r, t, j) == job' = [job EXCEPT ![r][t] = j]

\* A MAX_IN_FLIGHT permit spans an executing attempt, not its park.
InFlight(r) ==
    {t \in Trigger : /\ job[r][t].pc \in {"missed", "body", "seal", "append", "reseal"}
                     /\ ~job[r][t].parking}

PermitFree(r) == Cardinality(InFlight(r)) < MaxInFlight

\* The attempt counter is only ever compared with MaxAttempts: it saturates.
OneMore(n) == IF n < MaxAttempts THEN n + 1 ELSE n

\* A batch decided by runner r, as log rows (build_output_events).
Stamp(r, keys) == [i \in DOMAIN keys |-> [key |-> keys[i], by |-> r]]

ParkRecord(r, t) ==
    [outs |-> IF t \in Silent THEN <<>> ELSE Stamp(r, <<ParkKey>>), parked |-> TRUE]

\* Poison after the body: an OCC-required category, or the H7 ceiling.
Rejected(t, b) ==
    b # <<>> /\ (t \in AtCeiling \/ \E i \in DOMAIN b : b[i] \in OccKeys)

\* What the body may decide about t.  Nothing, because the fence it consulted
\* was set; otherwise its emptiness depends on the trigger alone unless empty
\* decisions are sealed too.
BodyReturns(t, consulted) ==
    IF t \in NoOp THEN {<<>>}
    ELSE {b \in Batches : b = <<>> => SealEmpty \/ consulted}

\* Names that begin with Wrong are plausible bugs in the definition after them;
\* nothing uses them here.  Each one is what a property below rules out.
WrongCanon(t, rec) == rec   \* last write wins

\* The canonical row of a seal: the one already there, or ours.
Canon(t, rec) == IF sealed[t] = NoRecord THEN rec ELSE sealed[t]

SealWrites(t, rec) ==
    /\ sealed' = [sealed EXCEPT ![t] = Canon(t, rec)]
    /\ decided' = [decided EXCEPT ![t] = IF @ = NoRecord THEN Canon(t, rec) ELSE @]
    /\ preCancel' = preCancel \cup {x \in {t} : decided[x] = NoRecord /\ ~cancelled}

\* Back to the head of process_trigger's loop after a backoff.
Retry(r, t) ==
    Becomes(r, t, [FreshJob("gate") EXCEPT !.fenced = job[r][t].fenced,
                                           !.waited = job[r][t].waited])

\* park_terminal_failure, up to its seal.
Park(r, t) ==
    Becomes(r, t, [job[r][t] EXCEPT !.pc = "seal", !.parking = TRUE,
                                    !.rec = ParkRecord(r, t)])

(***************************************************************************)
(* One delivery.                                                           *)
(***************************************************************************)
\* worker_loop: take the trigger from its partition; the fence is read once.
Dequeue(r, t) ==
    /\ At(r, t, "queued")
    /\ Becomes(r, t, [FreshJob("gate") EXCEPT !.fenced = fence[r] /\ t \in Doomed])
    /\ UNCHANGED <<durable, up, fence, dlq, ghost, budgets>>

WrongReplay(r, t) ==        \* acked without completing the batch
    /\ At(r, t, "gate") /\ PermitFree(r)
    /\ sealed[t] # NoRecord
    /\ Becomes(r, t, FreshJob("acked"))
    /\ UNCHANGED <<durable, up, fence, dlq, ghost, budgets>>

\* A sealed decision is replayed; the body does not run.
Replay(r, t) ==
    /\ At(r, t, "gate") /\ PermitFree(r)
    /\ sealed[t] # NoRecord
    /\ Becomes(r, t, [job[r][t] EXCEPT !.pc = "append", !.rec = sealed[t], !.seq = 0])
    /\ UNCHANGED <<durable, up, fence, dlq, ghost, budgets>>

WrongFenceAck(r, t) ==      \* the fence is checked before the replay gate
    /\ At(r, t, "gate") /\ PermitFree(r)
    /\ job[r][t].fenced
    /\ Becomes(r, t, FreshJob("acked"))
    /\ UNCHANGED <<durable, up, fence, dlq, ghost, budgets>>

\* Nothing sealed and the workflow cancelled: acked without a decision.
FenceAck(r, t) ==
    /\ At(r, t, "gate") /\ PermitFree(r)
    /\ sealed[t] = NoRecord
    /\ job[r][t].fenced
    /\ Becomes(r, t, FreshJob("acked"))
    /\ UNCHANGED <<durable, up, fence, dlq, ghost, budgets>>

\* Nothing sealed: a first delivery, as far as this execution can tell.
LookupMiss(r, t) ==
    /\ At(r, t, "gate") /\ PermitFree(r)
    /\ sealed[t] = NoRecord
    /\ ~job[r][t].fenced
    /\ Becomes(r, t, [job[r][t] EXCEPT !.pc = "missed"])
    /\ UNCHANGED <<durable, up, fence, dlq, ghost, budgets>>

\* The attempt is recorded, then the body runs; another execution may have
\* sealed since the lookup, which is not repeated.
BeginAttempt(r, t) ==
    /\ At(r, t, "missed")
    /\ attempts' = [attempts EXCEPT ![t] = OneMore(@)]
    /\ Becomes(r, t, [job[r][t] EXCEPT !.pc = "body", !.seq = OneMore(attempts[t])])
    /\ UNCHANGED <<logged, sealed, checkpoint, cancelled, up, fence, dlq, ghost, budgets>>

\* The body returned a batch: the attempt counter is cleared, then the batch
\* goes to the seal, ...
BodyDecides(r, t) ==
    /\ At(r, t, "body")
    /\ \E consulted \in BOOLEAN : \E b \in BodyReturns(t, consulted) :
          /\ ~Rejected(t, b)
          /\ b = <<>> => SealEmpty \/ consulted
          /\ Becomes(r, t, [job[r][t] EXCEPT !.pc = "seal",
                                !.rec = [outs |-> Stamp(r, b), parked |-> FALSE]])
    /\ attempts' = [attempts EXCEPT ![t] = 0]
    /\ UNCHANGED <<logged, sealed, checkpoint, cancelled, up, fence, dlq, ghost, budgets>>

\* ... or, empty and elidable, completes without a record, ...
BodyElides(r, t) ==
    /\ At(r, t, "body")
    /\ ~SealEmpty /\ <<>> \in BodyReturns(t, FALSE)
    /\ Becomes(r, t, FreshJob("acked"))
    /\ attempts' = [attempts EXCEPT ![t] = 0]
    /\ UNCHANGED <<logged, sealed, checkpoint, cancelled, up, fence, dlq, ghost, budgets>>

\* ... or is refused before the seal and parks as poison.
BodyRejected(r, t) ==
    /\ At(r, t, "body")
    /\ \E b \in BodyReturns(t, TRUE) : Rejected(t, b)
    /\ Park(r, t)
    /\ attempts' = [attempts EXCEPT ![t] = 0]
    /\ UNCHANGED <<logged, sealed, checkpoint, cancelled, up, fence, dlq, ghost, budgets>>

\* Poison (a trigger that does not deserialize included) parks at once.
BodyPoison(r, t) ==
    /\ At(r, t, "body")
    /\ Park(r, t)
    /\ UNCHANGED <<durable, up, fence, dlq, ghost, budgets>>

\* Domain and unclassified failures park once the durable budget is spent.
BodyFails(r, t) ==
    /\ At(r, t, "body")
    /\ IF job[r][t].seq >= MaxAttempts THEN Park(r, t) ELSE Retry(r, t)
    /\ UNCHANGED <<durable, up, fence, dlq, ghost, budgets>>

WrongBodyTransient(r, t) == \* no ceiling
    /\ At(r, t, "body")
    /\ Retry(r, t)
    /\ UNCHANGED <<durable, up, fence, dlq, ghost, budgets>>

\* A transient failure starts the ceiling's clock or finds it running; the
\* clock is volatile and the first failure never exhausts it.
BodyTransient(r, t) ==
    /\ At(r, t, "body")
    /\ \/ /\ job[r][t].waited > 0
          /\ Park(r, t)
       \/ /\ job[r][t].waited < MaxWaits
          /\ Becomes(r, t, [FreshJob("gate") EXCEPT !.fenced = job[r][t].fenced,
                                                    !.waited = job[r][t].waited + 1])
    /\ UNCHANGED <<durable, up, fence, dlq, ghost, budgets>>

WrongSeal(r, t) ==          \* goes on with its own batch, not the canonical one
    /\ At(r, t, "seal")
    /\ SealWrites(t, job[r][t].rec)
    /\ Becomes(r, t, [job[r][t] EXCEPT !.pc = "append"])
    /\ UNCHANGED <<logged, attempts, checkpoint, cancelled, up, fence, dlq, budgets>>

\* Insert if absent and go on with the canonical row.
Seal(r, t) ==
    /\ At(r, t, "seal")
    /\ SealWrites(t, job[r][t].rec)
    /\ Becomes(r, t, [job[r][t] EXCEPT
                         !.pc = "append", !.rec = Canon(t, @),
                         !.won = job[r][t].parking /\ Canon(t, job[r][t].rec) = job[r][t].rec])
    /\ UNCHANGED <<logged, attempts, checkpoint, cancelled, up, fence, dlq, budgets>>

\* The log row that already has this identity.
Existing(t, k) == {x \in logged[t] : x.key = k}

Pending(r, t) == job[r][t].rec.outs[job[r][t].next]

\* One output appended, or recognised as the very same row.
AppendRow(r, t) ==
    /\ At(r, t, "append")
    /\ job[r][t].next <= Len(job[r][t].rec.outs)
    /\ Existing(t, Pending(r, t).key) \subseteq {Pending(r, t)}
    /\ logged' = [logged EXCEPT ![t] = @ \cup {Pending(r, t)}]
    /\ Becomes(r, t, [job[r][t] EXCEPT !.next = @ + 1])
    /\ UNCHANGED <<sealed, attempts, checkpoint, cancelled, up, fence, dlq, ghost, budgets>>

WrongDiverge(r, t) ==       \* skips the row and leaves the record as it is
    /\ At(r, t, "append")
    /\ job[r][t].next <= Len(job[r][t].rec.outs)
    /\ \E x \in Existing(t, Pending(r, t).key) : x # Pending(r, t)
    /\ Becomes(r, t, [job[r][t] EXCEPT !.next = @ + 1])
    /\ UNCHANGED <<durable, up, fence, dlq, ghost, budgets>>

\* The record with its diverging output replaced by the log's row.
Amended(rec, i, x) == [rec EXCEPT !.outs = [rec.outs EXCEPT ![i] = x]]

\* DivergentRedelivery: the contradicted record is removed.  With the log's
\* row at hand the record is amended and will be sealed again; without it the
\* append pass stops.
Diverge(r, t) ==
    /\ At(r, t, "append")
    /\ job[r][t].next <= Len(job[r][t].rec.outs)
    /\ \E x \in Existing(t, Pending(r, t).key) :
          /\ x # Pending(r, t)
          /\ IF Canonical
               THEN Becomes(r, t, [job[r][t] EXCEPT
                        !.pc = "reseal",
                        !.rec = Amended(job[r][t].rec, job[r][t].next, x)])
               ELSE Becomes(r, t, [job[r][t] EXCEPT !.next = Len(job[r][t].rec.outs) + 1])
    /\ sealed' = [sealed EXCEPT ![t] = NoRecord]
    /\ UNCHANGED <<logged, attempts, checkpoint, cancelled, up, fence, dlq, ghost, budgets>>

Reseal(r, t) ==
    /\ At(r, t, "reseal")
    /\ SealWrites(t, job[r][t].rec)
    /\ Becomes(r, t, [job[r][t] EXCEPT !.pc = "append", !.rec = Canon(t, @), !.next = 1])
    /\ UNCHANGED <<logged, attempts, checkpoint, cancelled, up, fence, dlq, budgets>>

WrongAppended(r, t) == At(r, t, "append") /\ job[r][t].next >= Len(job[r][t].rec.outs)

Appended(r, t) == At(r, t, "append") /\ job[r][t].next > Len(job[r][t].rec.outs)

\* Every output is in the log: the completion is sent.  A replay (seq = 0)
\* clears the attempt counter if it can; a fresh decision did so before.
Complete(r, t) ==
    /\ Appended(r, t)
    /\ ~job[r][t].parking
    /\ \/ UNCHANGED attempts
       \/ job[r][t].seq = 0 /\ attempts' = [attempts EXCEPT ![t] = 0]
    /\ Becomes(r, t, FreshJob("acked"))
    /\ UNCHANGED <<logged, sealed, checkpoint, cancelled, up, fence, dlq, ghost, budgets>>

WrongFireDlq(r, t) ==       \* fires for an adopted success too
    dlq' = [dlq EXCEPT ![t] = @ + 1]

WrongFireDlqAdopted(r, t) ==  \* fires for an adopted park too
    dlq' = [dlq EXCEPT ![t] = IF job[r][t].rec.parked THEN @ + 1 ELSE @]

\* A park fires the DLQ hook when the record it sealed is the canonical one,
\* then clears the attempt counter and sends the completion.
FireDlq(r, t) ==
    dlq' = [dlq EXCEPT ![t] = IF job[r][t].won /\ job[r][t].rec.parked THEN @ + 1 ELSE @]

CompletePark(r, t) ==
    /\ Appended(r, t)
    /\ job[r][t].parking
    /\ FireDlq(r, t)
    /\ attempts' = [attempts EXCEPT ![t] = 0]
    /\ Becomes(r, t, FreshJob("acked"))
    /\ UNCHANGED <<logged, sealed, checkpoint, cancelled, up, fence, ghost, budgets>>

(***************************************************************************)
(* Infrastructure errors: the attempt goes back to the head of the loop,   *)
(* whether or not the write it was waiting for had landed.                 *)
(***************************************************************************)
Fault ==
    /\ faults < MaxFaults
    /\ faults' = faults + 1
    /\ UNCHANGED <<checkpoint, cancelled, up, fence, crashes, rewinds>>

IoError(r, t) ==
    /\ job[r][t].pc \in {"missed", "body", "seal", "append", "reseal"}
    /\ Retry(r, t)
    /\ UNCHANGED <<logged, sealed, attempts, dlq, ghost>>
    /\ Fault

\* The counter write landed: record_reactor_attempt or clear_reactor_attempts.
CounterReplyLost(r, t) ==
    /\ \/ /\ At(r, t, "missed")
          /\ attempts' = [attempts EXCEPT ![t] = OneMore(@)]
       \/ /\ At(r, t, "body")
          /\ attempts' = [attempts EXCEPT ![t] = 0]
    /\ Retry(r, t)
    /\ UNCHANGED <<logged, sealed, dlq, ghost>>
    /\ Fault

SealReplyLost(r, t) ==
    /\ job[r][t].pc \in {"seal", "reseal"}
    /\ SealWrites(t, job[r][t].rec)
    /\ Retry(r, t)
    /\ UNCHANGED <<logged, attempts, dlq>>
    /\ Fault

AppendReplyLost(r, t) ==
    /\ At(r, t, "append")
    /\ job[r][t].next <= Len(job[r][t].rec.outs)
    /\ Existing(t, Pending(r, t).key) = {}
    /\ logged' = [logged EXCEPT ![t] = @ \cup {Pending(r, t)}]
    /\ Retry(r, t)
    /\ UNCHANGED <<sealed, attempts, dlq, ghost>>
    /\ Fault

\* A park whose final clear fails is retried after the hook has fired.
ParkClearError(r, t) ==
    /\ Appended(r, t)
    /\ job[r][t].parking
    /\ FireDlq(r, t)
    /\ Retry(r, t)
    /\ UNCHANGED <<logged, sealed, attempts, ghost>>
    /\ Fault

(***************************************************************************)
(* The process around the deliveries.                                      *)
(***************************************************************************)
\* ensure_started, after a boot that rebuilt the fence from the control stream.
Start(r) ==
    /\ ~up[r]
    /\ up' = [up EXCEPT ![r] = TRUE]
    /\ fence' = [fence EXCEPT ![r] = cancelled]
    /\ job' = [job EXCEPT ![r] = [t \in Trigger |->
                  FreshJob(IF t <= checkpoint THEN "passed" ELSE "queued")]]
    /\ UNCHANGED <<durable, dlq, ghost, budgets>>

WrongPersist(r) ==          \* stores the position to read next
    /\ up[r]
    /\ \E n \in Trigger :
          /\ n > checkpoint
          /\ \A t \in 1 .. n : job[r][t].pc \in {"passed", "acked"}
          /\ checkpoint' = n + 1
    /\ UNCHANGED <<logged, sealed, attempts, cancelled, up, fence, job, dlq, ghost, budgets>>

\* advance_floor: the floor is some contiguous acked prefix (a completion may
\* still be in the channel), and checkpoint.advance is an atomic maximum.
Persist(r) ==
    /\ up[r]
    /\ \E n \in Trigger :
          /\ n > checkpoint
          /\ \A t \in 1 .. n : job[r][t].pc \in {"passed", "acked"}
          /\ checkpoint' = n
    /\ UNCHANGED <<logged, sealed, attempts, cancelled, up, fence, job, dlq, ghost, budgets>>

\* The stores survive; a backend may keep the attempt counters in memory.
Crash(r) ==
    /\ up[r]
    /\ crashes < MaxCrashes
    /\ crashes' = crashes + 1
    /\ up' = [up EXCEPT ![r] = FALSE]
    /\ fence' = [fence EXCEPT ![r] = FALSE]
    /\ job' = [job EXCEPT ![r] = [t \in Trigger |-> FreshJob("down")]]
    /\ attempts' \in {attempts, [t \in Trigger |-> 0]}
    /\ UNCHANGED <<logged, sealed, checkpoint, cancelled, dlq, ghost, faults, rewinds>>

\* cancel_workflow: the durable marker first, then each process's fence.
Cancel ==
    /\ ~cancelled
    /\ cancelled' = TRUE
    /\ UNCHANGED <<logged, sealed, attempts, checkpoint, up, fence, job, dlq, ghost, budgets>>

LearnCancel(r) ==
    /\ up[r] /\ cancelled /\ ~fence[r]
    /\ fence' = [fence EXCEPT ![r] = TRUE]
    /\ UNCHANGED <<durable, up, job, dlq, ghost, budgets>>

\* remove_reclaimable: aged AND at or below the floor AND not parked.  "Aged"
\* is what the retention window is configured to guarantee: no execution that
\* could still deliver the trigger has outlived it.
Aged(t) == \A r \in Runner : job[r][t].pc \in {"down", "passed", "acked"}

WrongReclaimableByFloor(t) == t <= checkpoint /\ ~sealed[t].parked

WrongReclaimableByAge(t) == Aged(t) /\ ~sealed[t].parked

Reclaimable(t) == Aged(t) /\ t <= checkpoint /\ ~sealed[t].parked

Sweep(t) ==
    /\ sealed[t] # NoRecord
    /\ Reclaimable(t)
    /\ sealed' = [sealed EXCEPT ![t] = NoRecord]
    /\ UNCHANGED <<logged, attempts, checkpoint, cancelled, up, fence, job, dlq, ghost, budgets>>

\* The checkpoint table restored from an older backup while nothing runs.
Rewind ==
    /\ rewinds < MaxRewinds
    /\ rewinds' = rewinds + 1
    /\ \A r \in Runner : ~up[r]
    /\ \E n \in 0 .. checkpoint : n < checkpoint /\ checkpoint' = n
    /\ UNCHANGED <<logged, sealed, attempts, cancelled, up, fence, job, dlq, ghost, faults, crashes>>

(***************************************************************************)
(* Specification.                                                          *)
(***************************************************************************)
\* What the worker of a delivery does when nothing fails.
Work(r, t) ==
    \/ Dequeue(r, t) \/ Replay(r, t) \/ FenceAck(r, t)
    \/ LookupMiss(r, t) \/ BeginAttempt(r, t)
    \/ BodyDecides(r, t) \/ BodyElides(r, t) \/ BodyRejected(r, t) \/ BodyPoison(r, t)
    \/ BodyFails(r, t) \/ BodyTransient(r, t)
    \/ Seal(r, t) \/ AppendRow(r, t) \/ Diverge(r, t) \/ Reseal(r, t)
    \/ Complete(r, t) \/ CompletePark(r, t)

Infra(r, t) ==
    \/ IoError(r, t) \/ CounterReplyLost(r, t) \/ SealReplyLost(r, t)
    \/ AppendReplyLost(r, t) \/ ParkClearError(r, t)

Next ==
    \/ \E r \in Runner, t \in Trigger : Work(r, t) \/ Infra(r, t)
    \/ \E r \in Runner : Start(r) \/ Persist(r) \/ Crash(r) \/ LearnCancel(r)
    \/ \E t \in Trigger : Sweep(t)
    \/ Cancel
    \/ Rewind

Spec == Init /\ [][Next]_vars

\* The scheduler runs every spawned worker, the supervisor restarts and steps
\* every runner.
Fairness ==
    /\ \A r \in Runner : WF_vars(Start(r)) /\ WF_vars(Persist(r))
    /\ \A r \in Runner, t \in Trigger : WF_vars(Work(r, t))

FairSpec == Spec /\ Fairness

(***************************************************************************)
(* What it implements.                                                     *)
(***************************************************************************)
Once == INSTANCE DecideOnce WITH
            Outcome <- Record, NoOutcome <- NoRecord,
            outcome <- decided, visible <- logged, retired <- checkpoint,
            withdrawn <- cancelled, promised <- preCancel

(***************************************************************************)
(* Properties.                                                             *)
(***************************************************************************)
\* Every variable holds a value of its kind.
TypeOK ==
    /\ logged \in [Trigger -> SUBSET Row]
    /\ sealed \in [Trigger -> Record \cup {NoRecord}]
    /\ attempts \in [Trigger -> 0 .. MaxAttempts]
    /\ checkpoint \in 0 .. NTriggers
    /\ cancelled \in BOOLEAN
    /\ up \in [Runner -> BOOLEAN]
    /\ fence \in [Runner -> BOOLEAN]
    /\ job \in [Runner -> [Trigger -> Job]]
    /\ dlq \in [Trigger -> Nat]
    /\ decided \in [Trigger -> Record \cup {NoRecord}]
    /\ preCancel \subseteq Trigger
    /\ faults \in 0 .. MaxFaults /\ crashes \in 0 .. MaxCrashes /\ rewinds \in 0 .. MaxRewinds

FirstRows(rec, n) == {rec.outs[i] : i \in 1 .. n}

Whole(t) == logged[t] = Rows(decided[t])

\* No chimera: whatever executions overlapped, crashed or retried, the rows of
\* a trigger in the log are an initial part of the one batch that was sealed
\* first, in its order, and none of them was there before the seal
\* (decision_store.rs rules 1 and 2).
NoChimera ==
    \A t \in Trigger :
        IF decided[t] = NoRecord
          THEN logged[t] = {}
          ELSE \E n \in 0 .. Len(decided[t].outs) :
                  logged[t] = FirstRows(decided[t], n)

\* The batch a running execution is appending is the sealed one, even when it
\* lost the race to seal or the record has been swept meanwhile.
AppendsOnlySealed ==
    \A r \in Runner, t \in Trigger :
        At(r, t, "append") => job[r][t].rec = decided[t]

\* A decision sealed before its workflow was cancelled is never left half in
\* the log by a cursor that moved past its trigger: the checkpoint passes the
\* trigger only when every row is there (worker_loop's fenced mode).
CheckpointImpliesWhole ==
    \A t \in Trigger :
        t <= checkpoint /\ t \in preCancel => Whole(t)

\* The stronger form a lease buys: with one execution at a time it holds
\* whenever the decision was sealed.
CheckpointImpliesWholeAlways ==
    \A t \in Trigger :
        t <= checkpoint /\ decided[t] # NoRecord => Whole(t)

\* A trigger is never both a success and a dead letter, and reaches the DLQ
\* hook only with a sealed park whose fact is in the log.
DeadLetterIsParked ==
    \A t \in Trigger :
        dlq[t] > 0 => decided[t] # NoRecord /\ decided[t].parked /\ Whole(t)

\* "The DLQ observer fires at-most-once, only on the execution that actually
\* sealed a park" (park_terminal_failure).
DlqAtMostOnce == \A t \in Trigger : dlq[t] <= 1

\* Once a decision exists, no delivery that comes to the replay gate gets past
\* it without the decision: it takes over the decided batch, and neither goes
\* on to run the body nor is acked for its fence, in any process, before or
\* after the record is swept.  (A body whose lookup came before the seal may
\* still start after it: attempt_trigger awaits record_reactor_attempt in
\* between.  What it returns is never appended: AppendsOnlySealed.)
GateSeesDecision ==
    [][\A r \in Runner, t \in Trigger :
          At(r, t, "gate") /\ decided[t] # NoRecord
             => \/ (At(r, t, "gate"))' \/ (At(r, t, "down"))'
                \/ (At(r, t, "append"))' /\ job'[r][t].rec = decided[t]]_vars

\* The sweep takes a record only when nobody needs it any more: every row of
\* the batch is in the log and the durable cursor is past the trigger, so that
\* no restart redelivers it.
SweptIsRetired ==
    [][\A t \in Trigger :
          sealed[t] # NoRecord /\ sealed'[t] = NoRecord
             => t <= checkpoint /\ (t \in preCancel => Whole(t))]_vars

\* With the log's row at hand, reconciliation leaves no record that
\* contradicts the log: nothing an execution has finished appending differs
\* from the row the log holds under the same identity.
NoLyingRecord ==
    \A r \in Runner, t \in Trigger :
        Appended(r, t) => Rows(job[r][t].rec) \subseteq logged[t]

\* All of the machinery above behaves as if each trigger were decided once and
\* its batch appended once, in order, before the cursor moved on.
ImplementsDecideOnce == Once!Spec

\* A divergence met without the log's row at hand ends with the record removed;
\* "never a lying record, never a chimera" (append_decision): the log then
\* holds the rows of one execution only.
FallbackNeverChimera ==
    \A r \in Runner, t \in Trigger :
        Appended(r, t) /\ sealed[t] = NoRecord
            => \A x, y \in logged[t] : x.by = y.by

\* Every trigger is eventually behind the durable cursor, through crashes,
\* infrastructure errors and every kind of failing body.
EventuallyRetired == <>[](checkpoint = NTriggers)

\* What was sealed before a cancel eventually is in the log in full.
SealedBecomesWhole ==
    \A t \in Trigger : t \in preCancel ~> Whole(t)
=============================================================================
