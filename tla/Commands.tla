---------------------------- MODULE Commands ----------------------------
(***************************************************************************)
(* The engine's write path (causal/src/engine.rs: Engine::append,          *)
(* execute_emit, state_of) over the in-memory log, together with the       *)
(* engine's aggregate registry and the snapshots it is restored from       *)
(* (causal/src/aggregator.rs).                                             *)
(*                                                                         *)
(* One aggregate is followed: it lives in the stream Home and folds the    *)
(* kinds in Folds; rows of other kinds may share the stream.  A folded     *)
(* state is the sequence of the revisions that went into it, so that a     *)
(* fact folded twice, skipped or out of order is visible.                  *)
(***************************************************************************)
EXTENDS Naturals, Sequences, FiniteSets

CONSTANTS
    Stream, Home,
    Commander,      \* callers of Engine::append on Home, one command each
    Emitter,        \* callers of emit
    Reader,         \* callers of state_of
    Plan,           \* the facts of a caller, as <<[stream, kind], ...>>
    Supplied,       \* the emitters that supply the id of their (only) fact
    Folds,          \* the kinds the aggregate folds
    OccKinds,       \* the kinds that may be registered with_aggregate: no plain emit
    SnapEvery,      \* with_snapshot_every(n); 0: no snapshots
    Threads,        \* TRUE: a multi-thread runtime; FALSE: what has no await is atomic
    None,
    MaxOcc,         \* MAX_OCC_RETRIES
    MaxCalls,       \* calls of each caller, the repeated ones included
    MaxFaults       \* appends that fail or whose reply is lost, and crashes

Caller == Commander \cup Emitter \cup Reader

ASSUME CallersDiffer ==
    /\ Commander \cap Emitter = {} /\ Commander \cap Reader = {}
    /\ Emitter \cap Reader = {} /\ Supplied \subseteq Emitter
\* An append without facts returns at once; one with a supplied id has one.
ASSUME PlanShape ==
    /\ Home \in Stream
    /\ \A c \in Caller : Plan[c] \in Seq({Plan[c][i] : i \in DOMAIN Plan[c]})
    /\ \A c \in Commander \cup Emitter :
         Plan[c] # <<>> /\ \A i \in DOMAIN Plan[c] : Plan[c][i].stream \in Stream
    /\ \A c \in Commander : \A i \in DOMAIN Plan[c] : Plan[c][i].stream = Home
    /\ \A c \in Supplied : Len(Plan[c]) = 1
ASSUME BoundsAreNaturals ==
    /\ SnapEvery \in Nat /\ MaxOcc \in Nat \ {0}
    /\ MaxFaults \in Nat
    /\ \A c \in Caller : MaxCalls[c] \in Nat

Entry == [state : Seq(Nat), version : Nat, snapAt : Nat]
Snapshot == [rev : Nat, state : Seq(Nat), readable : BOOLEAN]

ASSUME NoneDiffers == None \notin Entry \cup Snapshot

VARIABLES
    occ,            \* the kinds the engine was built with_aggregate (occ_categories)
    log,            \* the event log
    snap,           \* the SnapshotStore row of the aggregate, or None
    reg,            \* the registry entry (StateEntry) of the aggregate, or None
    task,           \* the frame of each caller's running call
    calls,          \* how often each caller has called
    answer,         \* what its last call returned
    faults

vars == <<occ, log, snap, reg, task, calls, answer, faults>>

Log == INSTANCE EventLog

Idle == [pc |-> "idle"]

-----------------------------------------------------------------------------
(* Facts, ids and folds.                                                     *)

\* A fresh uuid for each fact of each attempt, unless the caller supplies it.
Id(c, try, i) ==
    IF c \in Supplied THEN <<c, 0, 0, i>> ELSE <<c, calls[c], try, i>>

\* basis: the length of the stream the fact was decided on.
Event(c, try, i, basis) ==
    [id   |-> Id(c, try, i),
     body |-> [kind |-> Plan[c][i].kind, of |-> c, nth |-> i, basis |-> basis]]

BatchOf(c, try, from, to, basis) ==
    [i \in 1 .. to - from + 1 |-> Event(c, try, from + i - 1, basis)]

HomeRows(r) == Log!StreamFrom(log, Home, r)
HomeLen == Log!NextRev(log, Home)

\* The elements of a set of naturals, the least first.
Ascending(S) ==
    CHOOSE f \in [1 .. Cardinality(S) -> S] :
        \A i, j \in 1 .. Cardinality(S) : i < j => f[i] < f[j]

\* The revisions a fold takes out of rows, in order.
Folded(rows) == Ascending({log[i].rev : i \in {j \in rows : log[j].body.kind \in Folds}})

Version == IF reg = None THEN 0 ELSE reg.version

\* set_state installs only what is ahead of the entry.
SetState(entry) == IF reg = None \/ entry.version > reg.version THEN entry ELSE reg

-----------------------------------------------------------------------------
(* Engine::append: load, decide, append under the revision read, fold.       *)

\* Nothing awaits between the two registry reads of a save: on one thread no
\* other step comes between them.
Saving == ~Threads /\ \E c \in Caller : task[c].pc = "state"
At(c, pc) == task[c].pc = pc /\ ~Saving

\* A caller repeats what failed.
MayCall(c) ==
    /\ At(c, "idle")
    /\ calls[c] < MaxCalls[c]
    /\ answer[c] \notin {"ok", "refused"}

Return(c, what) ==
    /\ task' = [task EXCEPT ![c] = Idle]
    /\ answer' = [answer EXCEPT ![c] = what]

GoOn(c, frame) ==
    /\ task' = [task EXCEPT ![c] = frame]
    /\ answer' = [answer EXCEPT ![c] = "running"]

\* The own facts are looked for in the cached state.
WrongLoadAndDecide(c, try) ==
    LET rows == HomeRows(0) IN
    IF \E i \in rows : log[i].body.of = c /\ log[i].rev < Version
    THEN Return(c, "ok")
    ELSE GoOn(c, [pc |-> "commit", try |-> try, basis |-> HomeLen])

\* The decider is pure and finds its own earlier facts in the state: then it
\* decides nothing, and append returns without writing.
LoadAndDecide(c, try) ==
    LET rows == HomeRows(0) IN
    IF \E i \in rows : log[i].body.of = c
    THEN Return(c, "ok")
    ELSE GoOn(c, [pc |-> "commit", try |-> try, basis |-> HomeLen])

Load(c) ==
    /\ c \in Commander
    /\ \/ MayCall(c) /\ LoadAndDecide(c, 0) /\ calls' = [calls EXCEPT ![c] = @ + 1]
       \/ At(c, "load") /\ LoadAndDecide(c, task[c].try) /\ UNCHANGED calls
    /\ UNCHANGED <<occ, log, snap, reg, faults>>

WrongExpected(c) == Log!AnyState
Expected(c) ==
    IF task[c].basis = 0 THEN Log!NoStream ELSE Log!AtRevision(task[c].basis - 1)

Decision(c) == BatchOf(c, task[c].try, 1, Len(Plan[c]), task[c].basis)

\* The folds that follow the append of batch, as revisions: fact i sits at
\* revision - (n - 1 - i); a kind no aggregator matches folds nothing.
ToFold(batch, last) ==
    Ascending({last - (Len(batch) - i) :
                 i \in {j \in DOMAIN batch : batch[j].body.kind \in Folds}})

\* What is still to be folded, and the fact after the run it belongs to.
Frame(pc, todo, next, round) ==
    [pc |-> pc, todo |-> todo, next |-> next, round |-> round]
Folding(todo, next) == Frame("fold", todo, next, 0)

\* After the last fold: the next run of an emit, or the answer.
FoldOn(c, todo, next) ==
    IF todo # <<>> THEN GoOn(c, Folding(todo, next))
    ELSE IF c \in Emitter /\ next <= Len(Plan[c])
         THEN GoOn(c, [pc |-> "run", next |-> next])
         ELSE Return(c, "ok")

Commit(c) ==
    /\ At(c, "commit")
    /\ LET batch == Decision(c)
           verdict == Log!Verdict(log, Home, Expected(c), batch)
       IN /\ log' = Log!AppendTo(log, Home, Expected(c), batch)
          /\ \/ /\ verdict = "append"
                /\ FoldOn(c, ToFold(batch, Log!RevisionOf(log', batch)), 0)
             \/ /\ verdict = "conflict" /\ task[c].try + 1 < MaxOcc
                /\ GoOn(c, [pc |-> "load", try |-> task[c].try + 1])
             \/ /\ verdict = "conflict" /\ task[c].try + 1 = MaxOcc
                /\ Return(c, "conflict")
    /\ UNCHANGED <<occ, snap, reg, calls, faults>>

\* The append lands, or does not, and the caller sees an error.
CommitError(c) ==
    /\ At(c, "commit") /\ faults < MaxFaults
    /\ log' \in {log, Log!AppendTo(log, Home, Expected(c), Decision(c))}
    /\ Return(c, "error")
    /\ faults' = faults + 1
    /\ UNCHANGED <<occ, snap, reg, calls>>

-----------------------------------------------------------------------------
(* emit: the whole batch is checked, then written run by run.                *)

\* One fact per append.
WrongRunEnd(c, i) == i

\* A run: consecutive facts of one stream, from i to its end.
RunEnd(c, i) ==
    CHOOSE j \in i .. Len(Plan[c]) :
        /\ \A k \in i .. j : Plan[c][k].stream = Plan[c][i].stream
        /\ j = Len(Plan[c]) \/ Plan[c][j + 1].stream # Plan[c][i].stream

Refused(c) == \E i \in DOMAIN Plan[c] : Plan[c][i].kind \in occ

RunStream(c) == Plan[c][task[c].next].stream
RunBatch(c) == BatchOf(c, 0, task[c].next, RunEnd(c, task[c].next), 0)

Emit(c) ==
    /\ c \in Emitter /\ MayCall(c)
    /\ calls' = [calls EXCEPT ![c] = @ + 1]
    /\ IF Refused(c) THEN Return(c, "refused") ELSE GoOn(c, [pc |-> "run", next |-> 1])
    /\ UNCHANGED <<occ, log, snap, reg, faults>>

AppendRun(c) ==
    /\ At(c, "run")
    /\ LET batch == RunBatch(c)
           rows  == Log!AppendTo(log, RunStream(c), Log!AnyState, batch)
           todo  == ToFold(batch, Log!RevisionOf(rows, batch))
       IN /\ log' = rows
          /\ FoldOn(c, IF RunStream(c) = Home THEN todo ELSE <<>>,
                    RunEnd(c, task[c].next) + 1)
    /\ UNCHANGED <<occ, snap, reg, calls, faults>>

RunError(c) ==
    /\ At(c, "run") /\ faults < MaxFaults
    /\ log' \in {log, Log!AppendTo(log, RunStream(c), Log!AnyState, RunBatch(c))}
    /\ Return(c, "error")
    /\ faults' = faults + 1
    /\ UNCHANGED <<occ, snap, reg, calls>>

-----------------------------------------------------------------------------
(* fold_event on the shared registry (not strict: it may run to the tail).   *)

\* apply_event: next in sequence folds, earlier is skipped, later is a gap.
AtFold(c) == At(c, "fold")
Rev(c) == Head(task[c].todo)

FoldNext(c) ==
    /\ AtFold(c) /\ Rev(c) = Version
    /\ reg' = IF reg = None
              THEN [state |-> <<0>>, version |-> 1, snapAt |-> 0]
              ELSE [reg EXCEPT !.state = Append(@, reg.version), !.version = @ + 1]
    /\ IF c \in Emitter /\ SnapEvery > 0
       THEN GoOn(c, Frame("save", Tail(task[c].todo), task[c].next, 0))
       ELSE FoldOn(c, Tail(task[c].todo), task[c].next)
    /\ UNCHANGED <<occ, log, snap, calls, faults>>

FoldSkips(c) ==
    /\ AtFold(c) /\ Rev(c) < Version
    /\ FoldOn(c, Tail(task[c].todo), task[c].next)
    /\ UNCHANGED <<occ, log, snap, reg, calls, faults>>

\* A gap: a vacant entry is restored, another is brought up by the missing
\* stretch of the stream; then the fold is tried again.
FoldGap(c) ==
    /\ AtFold(c) /\ Rev(c) > Version
    /\ task' = [task EXCEPT ![c] =
         IF reg = None THEN Frame("restore", @.todo, @.next, @.round + 1)
         ELSE [pc |-> "repair", todo |-> @.todo, next |-> @.next,
               round |-> @.round + 1, after |-> Version]]
    /\ UNCHANGED <<occ, log, snap, reg, calls, answer, faults>>

\* restore_aggregate: the snapshot, the tail past it, then set_state.
Resume(c) ==
    IF c \in Reader THEN Return(c, "ok")
    ELSE /\ task' = [task EXCEPT ![c] = Frame("fold", @.todo, @.next, @.round)]
         /\ UNCHANGED answer

\* The snapshot and the tail of the stream past it are read one after the
\* other; only the tail can be out of date when the entry is installed.
Usable == snap # None /\ snap.readable
Seed == IF Usable THEN [state |-> snap.state, from |-> snap.rev + 1]
                  ELSE [state |-> <<>>, from |-> 0]

RestoreRead(c) ==
    /\ At(c, "restore")
    /\ LET rows == HomeRows(Seed.from) IN
       IF ~Usable /\ rows = {}
       THEN Resume(c)
       ELSE /\ task' = [task EXCEPT ![c] =
                 [pc |-> "install", todo |-> @.todo, next |-> @.next, round |-> @.round,
                  entry |-> [state   |-> Seed.state \o Folded(rows),
                             version |-> IF rows = {} THEN Seed.from ELSE HomeLen,
                             snapAt  |-> IF snap = None THEN 0 ELSE snap.rev + 1]]]
            /\ UNCHANGED answer
    \* a blob that does not deserialize is deleted and rebuilt from 0
    /\ snap' = IF Usable THEN snap ELSE None
    /\ UNCHANGED <<occ, log, reg, calls, faults>>

RestoreInstall(c) ==
    /\ At(c, "install")
    /\ reg' = SetState(task[c].entry)
    /\ Resume(c)
    /\ UNCHANGED <<occ, log, snap, calls, faults>>

\* repair_gap on an entry: the stream from the gap on, row by row through
\* apply_event; a row of a foreign kind only moves the watermark.
RepairRead(c) ==
    /\ At(c, "repair")
    /\ task' = [task EXCEPT ![c] =
                  [pc |-> "apply", todo |-> @.todo, next |-> @.next, round |-> @.round,
                   rows |-> HomeRows(@.after)]]
    /\ UNCHANGED <<occ, log, snap, reg, calls, answer, faults>>

\* Foreign rows are passed over without a trace.
WrongRepaired(row) ==
    IF row.body.kind \in Folds /\ row.rev = reg.version
    THEN [reg EXCEPT !.state = Append(@, row.rev), !.version = row.rev + 1]
    ELSE reg
Repaired(row) ==
    IF row.rev < reg.version THEN reg
    ELSE IF row.body.kind \notin Folds THEN [reg EXCEPT !.version = row.rev + 1]
    ELSE IF row.rev > reg.version THEN reg
    ELSE [reg EXCEPT !.state = Append(@, row.rev), !.version = row.rev + 1]

FirstOf(rows) == CHOOSE i \in rows : \A j \in rows : log[i].rev <= log[j].rev

RepairRow(c) ==
    /\ At(c, "apply")
    /\ IF task[c].rows = {}
       THEN Resume(c) /\ UNCHANGED reg
       ELSE /\ reg' = Repaired(log[FirstOf(task[c].rows)])
            /\ task' = [task EXCEPT ![c].rows = @ \ {FirstOf(@)}]
            /\ UNCHANGED answer
    /\ UNCHANGED <<occ, log, snap, calls, faults>>

-----------------------------------------------------------------------------
(* maybe_save_snapshots, after a fold that applied (the emit path).          *)

Due == reg.version - reg.snapAt >= SnapEvery

\* The version and the state are two reads of the registry.
SaveVersion(c) ==
    /\ At(c, "save")
    /\ IF ~Due THEN FoldOn(c, task[c].todo, task[c].next)
       ELSE GoOn(c, [pc |-> "state", todo |-> task[c].todo, next |-> task[c].next,
                     version |-> reg.version])
    /\ UNCHANGED <<occ, log, snap, reg, calls, faults>>

SaveState(c) ==
    /\ task[c].pc = "state"
    /\ GoOn(c, [pc |-> "store", todo |-> task[c].todo, next |-> task[c].next,
                version |-> task[c].version, state |-> reg.state])
    /\ UNCHANGED <<occ, log, snap, reg, calls, faults>>

\* The snapshot carries the revision of the last fold, not the count.
WrongSnapRev(version) == version
SnapRev(version) == version - 1

SaveStore(c) ==
    /\ At(c, "store")
    /\ snap' = [rev |-> SnapRev(task[c].version), state |-> task[c].state, readable |-> TRUE]
    /\ reg' = [reg EXCEPT !.snapAt = task[c].version]
    /\ FoldOn(c, task[c].todo, task[c].next)
    /\ UNCHANGED <<occ, log, calls, faults>>

-----------------------------------------------------------------------------
(* state_of and the process.                                                 *)

\* An entry is read as it is; a vacant one is restored first.
StateOf(c) ==
    /\ c \in Reader /\ MayCall(c)
    /\ calls' = [calls EXCEPT ![c] = @ + 1]
    /\ IF reg = None /\ SnapEvery > 0 THEN GoOn(c, Frame("restore", <<>>, 0, 0)) ELSE Return(c, "ok")
    /\ UNCHANGED <<occ, log, snap, reg, faults>>

\* The log and the snapshots outlive the process.  A redeployment may find a
\* snapshot whose schema it no longer reads.
Crash ==
    /\ ~Saving
    /\ faults < MaxFaults
    /\ faults' = faults + 1
    /\ reg' = None
    /\ task' = [c \in Caller |-> Idle]
    /\ answer' = [c \in Caller |-> IF answer[c] = "running" THEN "error" ELSE answer[c]]
    /\ \/ UNCHANGED snap
       \/ snap # None /\ snap' = [snap EXCEPT !.readable = FALSE]
    /\ UNCHANGED <<occ, log, calls>>

Init ==
    /\ occ \in SUBSET OccKinds
    /\ log = <<>>
    /\ snap = None
    /\ reg = None
    /\ task = [c \in Caller |-> Idle]
    /\ calls = [c \in Caller |-> 0]
    /\ answer = [c \in Caller |-> "none"]
    /\ faults = 0

Next ==
    \/ \E c \in Caller :
         \/ Load(c) \/ Commit(c) \/ CommitError(c)
         \/ Emit(c) \/ AppendRun(c) \/ RunError(c)
         \/ FoldNext(c) \/ FoldSkips(c) \/ FoldGap(c)
         \/ RestoreRead(c) \/ RestoreInstall(c)
         \/ RepairRead(c) \/ RepairRow(c)
         \/ SaveVersion(c) \/ SaveState(c) \/ SaveStore(c)
         \/ StateOf(c)
    \/ Crash

Spec == Init /\ [][Next]_vars

-----------------------------------------------------------------------------
TypeOK ==
    /\ occ \subseteq OccKinds
    /\ \A i \in DOMAIN log : log[i].stream \in Stream /\ log[i].rev \in Nat
    /\ snap = None \/ snap \in Snapshot
    /\ reg = None \/ reg \in Entry
    /\ DOMAIN task = Caller
    /\ \A c \in Caller : calls[c] \in 0 .. MaxCalls[c]
    /\ answer \in [Caller -> {"none", "running", "ok", "error", "conflict", "refused"}]
    /\ faults \in 0 .. MaxFaults

\* The write path keeps the log's contract: whole batches, new ids, dense
\* revisions (EventLogBackend::append_to_stream).
ImplementsEventLog == Log!Spec

\* A fact written by Engine::append sits at the revision it was decided on: no
\* other writer of the stream, emits of foreign kinds included, came between
\* the load and the append.
DecidedOnTail ==
    \A i \in DOMAIN log :
        LET row == log[i] IN
        row.body.of \in Commander => row.rev = row.body.basis + row.body.nth - 1

\* A command whose decider recognises its own facts takes effect at most once
\* although append mints fresh ids on every attempt: after a lost reply or a
\* crash it is the fenced load that sees the first decision.
CommandOnce ==
    \A i, j \in DOMAIN log :
        /\ log[i].body.of = log[j].body.of
        /\ log[i].body.of \in Commander
        /\ log[i].body.nth = log[j].body.nth
        => i = j

\* An emit over several streams lands run by run: a fact is in the log only
\* after the facts before it, the facts of one run side by side; and a refused
\* emit or a command that used up its tries left nothing.
SameRun(c, i, j) == \A k \in i .. j : Plan[c][k].stream = Plan[c][i].stream

LandsByRuns ==
    \A p \in DOMAIN log :
        LET c == log[p].body.of
            n == log[p].body.nth
        IN  /\ n > 1 => \E q \in 1 .. p - 1 :
                           /\ log[q].body.of = c /\ log[q].body.nth = n - 1
                           /\ SameRun(c, n - 1, n) => q = p - 1
            /\ n < Len(Plan[c]) /\ SameRun(c, n, n + 1) =>
                  /\ p < Len(log) /\ log[p + 1].body.of = c
                  /\ log[p + 1].body.nth = n + 1
            /\ answer[c] \in {"conflict", "refused"} => log[p].id[2] # calls[c]

FoldOf(version) == Folded({i \in HomeRows(0) : log[i].rev < version})

\* The registry's entry and the snapshot are folds of the stream up to what
\* they say they are: nothing twice, nothing skipped, in order, whatever folds,
\* repairs and restores overlap.  maybe_save_snapshots: "revision is the
\* aggregate stream's last-folded revision".
FoldsArePrefixes ==
    /\ reg # None => reg.state = FoldOf(reg.version)
    /\ snap # None => snap.state = FoldOf(snap.rev + 1)

\* A fold finds its gap closed after one restore or one repair: of the eight
\* rounds of fold_event the second is the last.
RepairConverges ==
    \A c \in Caller : task[c].pc = "fold" => task[c].round <= 1
=============================================================================
