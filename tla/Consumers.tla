---------------------------- MODULE Consumers ----------------------------
(***************************************************************************)
(* The life of an engine's consumers: EngineBuilder::build (clamp, seed,   *)
(* cancel fence; causal/src/engine.rs), the serial projection runners      *)
(* (projection_runner.rs, multi_projector.rs) with their poison-park       *)
(* policy (projection_failure.rs), the reactors' scan for cancel markers,  *)
(* and the durable cursors they share - across crashes, a restore of the   *)
(* event store to an earlier point, and engines that stand by for a lease. *)
(*                                                                         *)
(* A reactor is reduced to the cursor it scans and the one it persists;    *)
(* what happens in between is the subject of Dispatcher and                *)
(* ReactorDecision.                                                        *)
(***************************************************************************)
EXTENDS Naturals, Sequences, FiniteSets

CONSTANTS
    Engine, Projector, Reactor,
    Casts,          \* the sets of consumers an engine may be built with
    DependsOn,      \* the DEPENDS_ON of each projector
    StartAt,        \* the StartPosition of each reactor
    MaxAttempts,    \* attempts of a domain failure before it parks
    Flaky,          \* the kinds that may also fail transiently
    Texts,          \* the error texts a failing attempt of each projector may carry
    Batch,          \* events read in one step
    None,
    MaxEvents,      \* events that are emitted, cancel markers included
    MaxFaults,      \* transient failures and failed checkpoint writes
    MaxLost,        \* park appends that land without a reply
    MaxCrashes, MaxRestores

Consumer == Projector \cup Reactor

ASSUME ConsumersDiffer == Projector \cap Reactor = {} /\ Casts \subseteq SUBSET Consumer
ASSUME DependenciesExist ==
    \A set \in Casts : \A p \in set \cap Projector : DependsOn[p] \subseteq set
ASSUME StartsKnown == \A r \in Reactor : StartAt[r] \in {"resume", "latest", "zero"}
ASSUME FlakyAreBodies == Flaky \subseteq {"fact", "hard"}
ASSUME BoundsAreNaturals ==
    /\ MaxAttempts \in Nat \ {0} /\ Batch \in Nat \ {0} /\ MaxEvents \in Nat
    /\ MaxFaults \in Nat /\ MaxLost \in Nat /\ MaxCrashes \in Nat /\ MaxRestores \in Nat

VARIABLES
    cast,           \* the consumers the engines are built with
    log,            \* the events: [n, kind, by, why]; n is the identity
    cursor,         \* the checkpoint of each consumer, or None
    phase,          \* of each engine: "down", a boot phase, or "run"
    tip,            \* the latest position the boot of each engine read
    fence,          \* the cancel markers each engine knows
    holder,         \* the engine that holds each consumer's lease, or None
    frame,          \* the step each projector is in
    attempts,       \* its failing event and the attempts so far, or None
    reg,            \* the positions its registry has folded; None before hydration
    scan,           \* how far each reactor has scanned (ingest_pos), or None
    handled,        \* the events each consumer has handled, ever
    waived,         \* the events its cursor was seeded past
    next, faults, lost, crashes, restores

stores == <<log, cursor>>
boot   == <<cast, phase, tip, fence, holder>>
memory == <<frame, attempts, reg, scan>>
ghosts == <<handled, waived>>
bounds == <<next, faults, lost, crashes, restores>>
vars   == <<stores, boot, memory, ghosts, bounds>>

-----------------------------------------------------------------------------
(* Events: a good fact, one whose payload no longer deserializes, one the    *)
(* projectors' bodies always refuse, a cancel marker, a projection_failed.   *)

Kinds == {"fact", "bad", "hard", "cancel"}
Event(n, kind) == [n |-> <<n, None>>, kind |-> kind, by |-> None, why |-> None]
Matches(event) == event.kind \in {"fact", "bad", "hard"}

Positions(P(_)) == {i \in DOMAIN log : P(log[i])}
Markers == {log[i].n : i \in Positions(LAMBDA e : e.kind = "cancel")}
Upto(c) == {log[i].n : i \in {j \in Positions(Matches) : j <= c}}

At(c) == IF cursor[c] = None THEN 0 ELSE cursor[c]
ReadFrom(pos) == [i \in 1 .. (IF Len(log) - pos < Batch THEN Len(log) - pos ELSE Batch)
                     |-> pos + i]

\* A cursor moves forward only (CheckpointStore::advance).
Advanced(c, pos) == [cursor EXCEPT ![c] = IF At(c) < pos THEN pos ELSE @]

-----------------------------------------------------------------------------
(* EngineBuilder::build.                                                     *)

\* The fence is read first.
WrongBootOrder == <<"clamp", "fence", "seed", "run">>
BootOrder == <<"clamp", "seed", "fence", "run">>

EnterNext(x) ==
    LET i == CHOOSE j \in DOMAIN BootOrder : BootOrder[j] = phase[x]
    IN  phase' = [phase EXCEPT ![x] = BootOrder[i + 1]]

BootTip(x) ==
    /\ phase[x] = "down"
    /\ phase' = [phase EXCEPT ![x] = BootOrder[1]]
    /\ tip' = [tip EXCEPT ![x] = Len(log)]
    /\ UNCHANGED <<cast, stores, fence, holder, memory, ghosts, bounds>>

\* Both stores are clamped, the projectors' and the reactors'.
WrongClamp(pos) ==
    [c \in Consumer |-> IF c \in Reactor /\ At(c) > pos THEN pos ELSE cursor[c]]
Clamp(pos) == [c \in Consumer |-> IF At(c) > pos THEN pos ELSE cursor[c]]

BootClamp(x) ==
    /\ phase[x] = "clamp"
    /\ cursor' = Clamp(tip[x])
    /\ tip' = [tip EXCEPT ![x] = 0]
    /\ EnterNext(x)
    /\ UNCHANGED <<cast, log, fence, holder, memory, ghosts, bounds>>

\* The position a reactor is seeded at; projectors are never seeded.
Seed(c) ==
    IF c \in Projector \/ c \notin cast THEN cursor[c]
    ELSE CASE StartAt[c] = "resume" -> IF cursor[c] = None THEN Len(log) ELSE cursor[c]
           [] StartAt[c] = "latest" -> Len(log)
           [] StartAt[c] = "zero"   -> 0

BootSeed(x) ==
    /\ phase[x] = "seed"
    /\ cursor' = [c \in Consumer |-> Seed(c)]
    /\ waived' = [c \in Consumer |->
                    waived[c] \cup (IF c \in cast \cap Reactor /\ Seed(c) > At(c)
                                    THEN Upto(Seed(c)) \ Upto(At(c)) ELSE {})]
    /\ EnterNext(x)
    /\ UNCHANGED <<cast, log, tip, fence, holder, memory, handled, bounds>>

BootFence(x) ==
    /\ phase[x] = "fence"
    /\ fence' = [fence EXCEPT ![x] = @ \cup Markers]
    /\ EnterNext(x)
    /\ UNCHANGED <<cast, stores, tip, holder, memory, ghosts, bounds>>

\* The lease is taken before the first read of the cursor and kept for life.
Lease(x, c) ==
    /\ c \in cast /\ phase[x] = "run" /\ holder[c] = None
    /\ holder' = [holder EXCEPT ![c] = x]
    /\ scan' = IF c \in Reactor THEN [scan EXCEPT ![c] = At(c)] ELSE scan
    /\ UNCHANGED <<cast, stores, phase, tip, fence, frame, attempts, reg, ghosts, bounds>>

-----------------------------------------------------------------------------
(* Projectors.                                                               *)

Idle == [pc |-> "idle"]
Working(p, pc) == holder[p] # None /\ frame[p].pc = pc
Row(p) == Head(frame[p].todo)

Leave(p) == frame' = [frame EXCEPT ![p] = Idle]
Become(p, pc) == frame' = [frame EXCEPT ![p].pc = pc]
NextRow(p) ==
    frame' = [frame EXCEPT ![p] =
        IF Len(@.todo) = 1 THEN Idle ELSE [pc |-> "row", todo |-> Tail(@.todo)]]

\* "Every dep must be at least as far as us"; equality is enough.
WrongDepsAllow(p) == \A d \in DependsOn[p] : At(d) > At(p)
DepsAllow(p) == \A d \in DependsOn[p] : At(d) >= At(p)

Foldable(i) == log[i].kind \in {"fact", "hard"}

\* Poison met below the cursor was parked in an earlier life: skipped.
WrongHydrated(p) ==
    {i \in 1 .. At(p) : Foldable(i) /\ \A j \in 1 .. i : log[j].kind # "bad"}
Hydrated(p) == {i \in 1 .. At(p) : Foldable(i)}

\* step: the dependency fence, hydration on the first one, a batch.
BeginStep(p) ==
    /\ Working(p, "idle") /\ DepsAllow(p)
    /\ reg' = [reg EXCEPT ![p] = IF @ = None THEN Hydrated(p) ELSE @]
    /\ LET rows == ReadFrom(At(p)) IN
       frame' = [frame EXCEPT ![p] =
           IF rows = <<>> THEN Idle ELSE [pc |-> "row", todo |-> rows]]
    /\ UNCHANGED <<stores, boot, attempts, scan, ghosts, bounds>>

Fold(p) == reg' = [reg EXCEPT ![p] = @ \cup (IF Foldable(Row(p)) THEN {Row(p)} ELSE {})]

\* FailureState: one slot, kept by event.  The first park of an event lands with
\* a count below CountCap; every count from there on differs from it all the same.
CountCap == MaxAttempts + MaxFaults + 1
Attempt(p) ==
    LET n == log[Row(p)].n IN
    IF attempts[p] # None /\ attempts[p].n = n
    THEN IF attempts[p].count < CountCap THEN attempts[p].count + 1 ELSE CountCap
    ELSE 1
Count(p) == attempts' = [attempts EXCEPT ![p] = [n |-> log[Row(p)].n, count |-> Attempt(p)]]
Clear(p) == attempts' = [attempts EXCEPT ![p] = None]

\* A row of another kind: the cursor passes it.
PassRow(p) ==
    /\ Working(p, "row") /\ ~Matches(log[Row(p)])
    /\ Become(p, "advance")
    /\ UNCHANGED <<stores, boot, attempts, reg, scan, ghosts, bounds>>

Project(p) ==
    /\ Working(p, "row") /\ log[Row(p)].kind = "fact"
    /\ Fold(p)
    /\ handled' = [handled EXCEPT ![p] = @ \cup {log[Row(p)].n}]
    /\ Clear(p)
    /\ Become(p, "advance")
    /\ UNCHANGED <<stores, boot, scan, waived, bounds>>

\* on_failure: poison parks at once, a domain failure after MaxAttempts, a
\* transient one when its ceiling has passed; otherwise the step returns Err.
\* What the error says (bounded_error_chain) is the attempt's own.
Park(p, class) ==
    \E text \in Texts[p] :
        frame' = [frame EXCEPT ![p] =
            [pc |-> "park", todo |-> @.todo, class |-> class, text |-> text]]

Poison(p) ==
    /\ Working(p, "row") /\ log[Row(p)].kind = "bad"
    /\ Count(p) /\ Park(p, "poison")
    /\ UNCHANGED <<stores, boot, reg, scan, ghosts, bounds>>

Refuse(p) ==
    /\ Working(p, "row") /\ log[Row(p)].kind = "hard"
    /\ Fold(p) /\ Count(p)
    /\ IF Attempt(p) >= MaxAttempts THEN Park(p, "domain") ELSE Leave(p)
    /\ UNCHANGED <<stores, boot, scan, ghosts, bounds>>

Transient(p) ==
    /\ Working(p, "row") /\ log[Row(p)].kind \in Flaky /\ faults < MaxFaults
    /\ faults' = faults + 1
    /\ Fold(p) /\ Count(p)
    /\ Leave(p) \/ Park(p, "transient_exhausted")
    /\ UNCHANGED <<stores, boot, scan, ghosts, next, lost, crashes, restores>>

\* The terminal fact: its id is derived from the projector and the event, its
\* payload holds the class, the attempts and the error's text.
Parked(p) ==
    [n |-> <<log[Row(p)].n[1], p>>, kind |-> "parked", by |-> p,
     why |-> <<frame[p].class, attempts[p].count, frame[p].text>>]
Twin(p) == Positions(LAMBDA e : e.n = Parked(p).n)
Divergent(p) == \E i \in Twin(p) : log[i] # Parked(p)
WithPark(p) == IF Twin(p) = {} THEN Append(log, Parked(p)) ELSE log

\* A divergent answer is an error like any other, and so is one that is lost:
\* the step returns Err and is tried again.
ParkAppend(p) ==
    /\ Working(p, "park")
    /\ log' = WithPark(p)
    /\ \E heard \in {TRUE} \cup (IF lost < MaxLost THEN {FALSE} ELSE {}) :
         /\ lost' = IF heard THEN lost ELSE lost + 1
         /\ IF heard /\ ~Divergent(p)
            THEN /\ handled' = [handled EXCEPT ![p] = @ \cup {log[Row(p)].n}]
                 /\ Clear(p)
                 /\ frame' = [frame EXCEPT ![p] = [pc |-> "advance", todo |-> @.todo]]
            ELSE Leave(p) /\ UNCHANGED <<handled, attempts>>
    /\ UNCHANGED <<cursor, boot, reg, scan, waived, next, faults, crashes, restores>>

AdvanceCursor(p) ==
    /\ Working(p, "advance")
    /\ cursor' = Advanced(p, Row(p))
    /\ NextRow(p)
    /\ UNCHANGED <<log, boot, attempts, reg, scan, ghosts, bounds>>

AdvanceFails(p) ==
    /\ Working(p, "advance") /\ faults < MaxFaults
    /\ faults' = faults + 1
    /\ Leave(p)
    /\ UNCHANGED <<stores, boot, attempts, reg, scan, ghosts, next, lost, crashes, restores>>

-----------------------------------------------------------------------------
(* Reactors: the scan learns markers; the floor follows.                     *)

Scan(r) ==
    /\ holder[r] # None /\ ReadFrom(scan[r]) # <<>>
    /\ LET rows == ReadFrom(scan[r])
           upto == rows[Len(rows)]
           read == {log[i] : i \in scan[r] + 1 .. upto}
       IN /\ scan' = [scan EXCEPT ![r] = upto]
          /\ fence' = [fence EXCEPT ![holder[r]] =
                @ \cup {e.n : e \in {f \in read : f.kind = "cancel"}}]
          /\ handled' = [handled EXCEPT ![r] =
                @ \cup {e.n : e \in {f \in read : Matches(f)}}]
    /\ UNCHANGED <<cast, stores, phase, tip, holder, frame, attempts, reg, waived, bounds>>

PersistFloor(r) ==
    /\ holder[r] # None /\ scan[r] > At(r)
    /\ cursor' = Advanced(r, scan[r])
    /\ UNCHANGED <<log, boot, memory, ghosts, bounds>>

-----------------------------------------------------------------------------
(* The outside.                                                              *)

\* Facts come from a running engine; a cancel marker may come from any process.
Emit(kind) ==
    /\ next <= MaxEvents
    /\ kind = "cancel" \/ \E x \in Engine : phase[x] = "run"
    /\ kind \in {"bad", "hard"} => Positions(LAMBDA e : e.kind = kind) = {}
    /\ log' = Append(log, Event(next, kind))
    /\ next' = next + 1
    /\ UNCHANGED <<cursor, boot, memory, ghosts, faults, lost, crashes, restores>>

Lost(x, c) == holder[c] = x

Crash(x) ==
    /\ phase[x] # "down" /\ crashes < MaxCrashes
    /\ crashes' = crashes + 1
    /\ phase' = [phase EXCEPT ![x] = "down"]
    /\ fence' = [fence EXCEPT ![x] = {}]
    /\ holder'   = [c \in Consumer |-> IF Lost(x, c) THEN None ELSE holder[c]]
    /\ frame'    = [p \in Projector |-> IF Lost(x, p) THEN Idle ELSE frame[p]]
    /\ attempts' = [p \in Projector |-> IF Lost(x, p) THEN None ELSE attempts[p]]
    /\ reg'      = [p \in Projector |-> IF Lost(x, p) THEN None ELSE reg[p]]
    /\ scan'     = [r \in Reactor |-> IF Lost(x, r) THEN None ELSE scan[r]]
    /\ UNCHANGED <<cast, stores, tip, ghosts, next, faults, lost, restores>>

\* Point-in-time restore of the event store while nothing runs; the cursors
\* live elsewhere and keep their values.
Restore ==
    /\ \A x \in Engine : phase[x] = "down"
    /\ restores < MaxRestores
    /\ restores' = restores + 1
    /\ \E k \in 0 .. Len(log) - 1 : log' = SubSeq(log, 1, k)
    /\ UNCHANGED <<cursor, boot, memory, ghosts, next, faults, lost, crashes>>

Init ==
    /\ cast \in Casts
    /\ log = <<>>
    /\ cursor = [c \in Consumer |-> None]
    /\ phase = [x \in Engine |-> "down"]
    /\ tip = [x \in Engine |-> 0]
    /\ fence = [x \in Engine |-> {}]
    /\ holder = [c \in Consumer |-> None]
    /\ frame = [p \in Projector |-> Idle]
    /\ attempts = [p \in Projector |-> None]
    /\ reg = [p \in Projector |-> None]
    /\ scan = [r \in Reactor |-> None]
    /\ handled = [c \in Consumer |-> {}]
    /\ waived = [c \in Consumer |-> {}]
    /\ next = 1 /\ faults = 0 /\ lost = 0 /\ crashes = 0 /\ restores = 0

Boot(x) == BootTip(x) \/ BootClamp(x) \/ BootSeed(x) \/ BootFence(x)

Step(p) ==
    \/ BeginStep(p) \/ PassRow(p) \/ Project(p) \/ Poison(p) \/ Refuse(p)
    \/ ParkAppend(p) \/ AdvanceCursor(p)

Next ==
    \/ \E x \in Engine : Boot(x) \/ Crash(x) \/ \E c \in Consumer : Lease(x, c)
    \/ \E p \in Projector :
         Step(p) \/ Transient(p) \/ AdvanceFails(p)
    \/ \E r \in Reactor : Scan(r) \/ PersistFloor(r)
    \/ \E kind \in Kinds : Emit(kind)
    \/ Restore

Spec == Init /\ [][Next]_vars

\* An engine that is down is started again, a lease that is free is taken, and
\* the supervisors keep stepping their consumers (supervise_one).
Fairness ==
    /\ \A x \in Engine : WF_vars(Boot(x)) /\ \A c \in Consumer : WF_vars(Lease(x, c))
    /\ \A p \in Projector : WF_vars(Step(p))
    /\ \A r \in Reactor : WF_vars(Scan(r)) /\ WF_vars(PersistFloor(r))

FairSpec == Spec /\ Fairness

-----------------------------------------------------------------------------
Running(x) == phase[x] = "run"

\* Every cancel marker at or below the position a reactor reads from is in the
\* fence of the engine that runs it: a cancelled workflow is not resurrected,
\* "cancellation is durable across restarts" (build).
FenceCoversCursor ==
    \A r \in Reactor : holder[r] # None =>
        {log[i].n : i \in {j \in Positions(LAMBDA e : e.kind = "cancel") : j <= scan[r]}}
            \subseteq fence[holder[r]]

\* A cursor passes only events its consumer has handled, or was seeded past:
\* also after a restore left the cursors ahead of the log and new events took
\* the positions of the lost ones (clamp_ahead_of).
NothingSkipped ==
    \A c \in Consumer : Upto(At(c)) \subseteq handled[c] \cup waived[c]

\* Whatever was parked, retried or hydrated, a projector's registry holds every
\* foldable event below its cursor and no hole up to the last one folded.
StateIsPrefix ==
    \A p \in Projector : reg[p] # None =>
        \A i \in DOMAIN log :
            Foldable(i) /\ (i <= At(p) \/ \E j \in reg[p] : i < j) => i \in reg[p]

\* "A replay re-parks to the same id and the backend dedupes" (park): no park is
\* refused as divergent.  It fails by itself, in consumers_life too: a park that
\* is repeated carries another text, or another count when the first reply was
\* lost.  EventuallyCaughtUp says what hangs on it.
ReparkDedupes ==
    \A p \in Projector : frame[p].pc = "park" => ~Divergent(p)

\* Poison, failing bodies, dependency cycles, failed cursor writes and crashes
\* notwithstanding, every consumer reaches the end of the log once events stop
\* coming - unless the log refuses some park again and again, which
\* is the one thing that may hold a projector and those that wait for it.
EventuallyCaughtUp ==
    <>[]ReparkDedupes => <>[](\A c \in cast : At(c) = Len(log))
=============================================================================
