-------------------------- MODULE ConsumersProofs --------------------------
(***************************************************************************)
(* For every set of engines, projectors and reactors, and every history of *)
(* boots, crashes, restores, retries and parks: a cursor passes nothing    *)
(* its consumer has not handled or was not seeded past, and a projector's  *)
(* registry has no hole.  With one engine the cancel fence covers what the *)
(* reactors have scanned; StandbyFence shows that two engines break it.    *)
(*                                                                         *)
(* A cursor may lie ahead of the log after a restore, where NothingSkipped *)
(* alone says nothing of the events to come; the invariant adds that       *)
(* whoever is past its clamp sees no such cursor, that facts come only     *)
(* from those, and what each projector's step in progress has behind it.   *)
(***************************************************************************)
EXTENDS Consumers, Integers, SequenceTheorems, TLAPS

-----------------------------------------------------------------------------
(* The inductive invariant.                                                 *)

Class == {"poison", "domain", "transient_exhausted"}
Said == UNION {Texts[p] : p \in Projector}
Names == Nat \X (Projector \cup {None})
Events == [n : Names, kind : Kinds \cup {"parked"}, by : Projector \cup {None},
           why : (Class \X Nat \X Said) \cup {None}]
Frames == {Idle} \cup [pc : {"row", "advance"}, todo : Seq(Nat)]
                 \cup [pc : {"park"}, todo : Seq(Nat), class : Class, text : Said]
Failing == [n : Names, count : Nat]

LogOK == log \in Seq(Events) /\ next \in Nat
CursorOK == cursor \in [Consumer -> Nat \cup {None}]
BootOK ==
    /\ cast \in Casts
    /\ phase \in [Engine -> {"down", "clamp", "seed", "fence", "run"}]
    /\ tip \in [Engine -> Nat] /\ fence \in [Engine -> SUBSET Names]
    /\ holder \in [Consumer -> Engine \cup {None}]
FrameOK == frame \in [Projector -> Frames]
AttemptsOK ==
    /\ attempts \in [Projector -> Failing \cup {None}]
    /\ \A p \in Projector : frame[p].pc = "park" => attempts[p] \in Failing
RegOK == reg \in [Projector -> (SUBSET Nat) \cup {None}]
ScanOK == scan \in [Reactor -> Nat \cup {None}]
GhostsOK == handled \in [Consumer -> SUBSET Names] /\ waived \in [Consumer -> SUBSET Names]

TypeOK ==
    /\ LogOK /\ CursorOK /\ BootOK /\ FrameOK /\ AttemptsOK /\ RegOK /\ ScanOK /\ GhostsOK

\* An engine past its clamp has no cursor ahead of the log.
Clamped(x) == phase[x] \in {"seed", "fence", "run"}

BootSound ==
    /\ \A x \in Engine : phase[x] = "clamp" => tip[x] <= Len(log)
    /\ (\E x \in Engine : Clamped(x)) => \A c \in Consumer : At(c) <= Len(log)

\* A lease is held by a running engine; without one a consumer has no memory.
LeasesSound ==
    /\ \A c \in Consumer : holder[c] # None => holder[c] \in Engine /\ phase[holder[c]] = "run"
    /\ \A p \in Projector : holder[p] = None => frame[p] = Idle /\ reg[p] = None
    /\ \A r \in Reactor : holder[r] # None => scan[r] \in Nat /\ scan[r] <= Len(log)

\* c has handled every event up to pos, or was seeded past it.
Passed(c, pos) ==
    \A i \in DOMAIN log : Matches(log[i]) /\ i <= pos => log[i].n \in handled[c] \cup waived[c]

InStep(p) == frame[p].pc # "idle"

\* The rows of a step follow each other and are in the log; what lies before
\* the present one is passed, and that one too when the cursor is to move.
RowSound(p) ==
    /\ Len(frame[p].todo) > 0 /\ Row(p) > 0
    /\ \A i \in DOMAIN frame[p].todo : frame[p].todo[i] = Row(p) + i - 1
    /\ Row(p) + Len(frame[p].todo) - 1 <= Len(log)
    /\ Passed(p, Row(p) - 1)
    /\ frame[p].pc = "advance" => Passed(p, Row(p))

RowsSound == \A p \in Projector : InStep(p) => RowSound(p)

PassedSound ==
    /\ \A c \in Consumer : Passed(c, At(c))
    /\ \A r \in Reactor : holder[r] # None => Passed(r, scan[r])

\* The registry has every foldable event below the cursor, and no hole up to
\* the last one it has.
Prefix(p) ==
    \A i \in DOMAIN log :
        Foldable(i) /\ (i <= At(p) \/ \E j \in reg[p] : i < j) => i \in reg[p]

\* In a step it has everything before the present row, and that row too once
\* its body has run.
RegistrySound ==
    \A p \in Projector :
        /\ InStep(p) \/ reg[p] # None => reg[p] \subseteq DOMAIN log /\ Prefix(p)
        /\ InStep(p) => \A i \in DOMAIN log : Foldable(i) /\ i < Row(p) => i \in reg[p]
        /\ frame[p].pc \in {"park", "advance"} /\ Foldable(Row(p)) => Row(p) \in reg[p]

IInv ==
    /\ TypeOK /\ BootSound /\ LeasesSound /\ RowsSound /\ PassedSound /\ RegistrySound

\* x knows the cancel markers up to pos.
Known(x, pos) ==
    \A i \in DOMAIN log : log[i].kind = "cancel" /\ i <= pos => log[i].n \in fence[x]

OneEngine == \A x, y \in Engine : x = y

\* With one engine, from the fence on nobody seeds a cursor past a marker.
FenceSound ==
    /\ \A x \in Engine, r \in Reactor : phase[x] = "run" => Known(x, At(r))
    /\ \A r \in Reactor : holder[r] # None => Known(holder[r], scan[r])

-----------------------------------------------------------------------------
(* Which steps move what.                                                   *)

LEMMA WhoMoves ==
    ASSUME [Next]_vars
    PROVE  /\ cast' = cast
           /\ \/ UNCHANGED <<log, next>> \/ Restore
              \/ \E kind \in Kinds : Emit(kind)
              \/ \E p \in Projector : ParkAppend(p)
           /\ \/ cursor' = cursor
              \/ \E x \in Engine : BootClamp(x) \/ BootSeed(x)
              \/ \E p \in Projector : AdvanceCursor(p)
              \/ \E r \in Reactor : PersistFloor(r)
           /\ \/ UNCHANGED <<phase, tip>>
              \/ \E x \in Engine : Boot(x) \/ Crash(x)
           /\ \/ fence' = fence
              \/ \E x \in Engine : BootFence(x) \/ Crash(x)
              \/ \E r \in Reactor : Scan(r)
           /\ \/ UNCHANGED <<holder, scan>>
              \/ \E x \in Engine : Crash(x) \/ \E c \in Consumer : Lease(x, c)
              \/ \E r \in Reactor : Scan(r)
           /\ \/ UNCHANGED <<frame, attempts, reg>>
              \/ \E x \in Engine : Crash(x)
              \/ \E p \in Projector : Step(p) \/ Transient(p) \/ AdvanceFails(p)
           /\ \/ handled' = handled
              \/ \E p \in Projector : Project(p) \/ ParkAppend(p)
              \/ \E r \in Reactor : Scan(r)
           /\ \/ waived' = waived
              \/ \E x \in Engine : BootSeed(x)
<1> USE DEF vars, stores, boot, memory, ghosts, bounds
<1>1. CASE \E x \in Engine : Boot(x) \/ Crash(x) \/ \E c \in Consumer : Lease(x, c)
  BY <1>1 DEF Boot, BootTip, BootClamp, BootSeed, BootFence, Crash, Lease
<1>2. CASE \E p \in Projector : Step(p) \/ Transient(p) \/ AdvanceFails(p)
  BY <1>2 DEF Step, BeginStep, PassRow, Project, Poison, Refuse, Transient, ParkAppend,
     AdvanceCursor, AdvanceFails
<1>3. CASE \E r \in Reactor : Scan(r) \/ PersistFloor(r)
  BY <1>3 DEF Scan, PersistFloor
<1>4. CASE \E kind \in Kinds : Emit(kind)
  BY <1>4 DEF Emit
<1>5. CASE Restore
  BY <1>5 DEF Restore
<1>6. CASE UNCHANGED vars
  BY <1>6
<1> QED
  BY <1>1, <1>2, <1>3, <1>4, <1>5, <1>6 DEF Next

\* What one step of a projector does to the frame and the registry of another: nothing.
LEMMA OwnStep ==
    ASSUME FrameOK, AttemptsOK, RegOK, NEW q \in Projector, NEW p \in Projector, p # q,
           Step(q) \/ Transient(q) \/ AdvanceFails(q)
    PROVE  frame'[p] = frame[p] /\ attempts'[p] = attempts[p] /\ reg'[p] = reg[p]
<1> USE DEF FrameOK, AttemptsOK, RegOK, stores, boot, memory, ghosts, bounds
<1>1. CASE BeginStep(q)
  BY <1>1 DEF BeginStep
<1>2. CASE PassRow(q)
  BY <1>2 DEF PassRow, Become
<1>3. CASE Project(q)
  BY <1>3 DEF Project, Become, Fold, Clear
<1>4. CASE Poison(q)
  BY <1>4 DEF Poison, Count, Park
<1>5. CASE Refuse(q)
  BY <1>5 DEF Refuse, Count, Park, Fold, Leave
<1>6. CASE ParkAppend(q)
  BY <1>6 DEF ParkAppend, Clear, Leave
<1>7. CASE AdvanceCursor(q)
  BY <1>7 DEF AdvanceCursor, NextRow
<1>8. CASE Transient(q)
  BY <1>8 DEF Transient, Count, Park, Fold, Leave
<1>9. CASE AdvanceFails(q)
  BY <1>9 DEF AdvanceFails, Leave
<1> QED
  BY <1>1, <1>2, <1>3, <1>4, <1>5, <1>6, <1>7, <1>8, <1>9 DEF Step

LEMMA NextPhase ==
    ASSUME NEW x \in Engine, EnterNext(x)
    PROVE  /\ phase[x] = "clamp" => phase' = [phase EXCEPT ![x] = "seed"]
           /\ phase[x] = "seed" => phase' = [phase EXCEPT ![x] = "fence"]
           /\ phase[x] = "fence" => phase' = [phase EXCEPT ![x] = "run"]
<1>1. /\ DOMAIN BootOrder = 1 .. 4 /\ BootOrder[1] = "clamp" /\ BootOrder[2] = "seed"
      /\ BootOrder[3] = "fence" /\ BootOrder[4] = "run"
  BY DEF BootOrder
<1> DEFINE here == CHOOSE j \in DOMAIN BootOrder : BootOrder[j] = phase[x]
<1>2. ASSUME NEW i \in 1 .. 4, BootOrder[i] = phase[x] PROVE here = i
  BY <1>1, <1>2
<1>3. phase' = [phase EXCEPT ![x] = BootOrder[here + 1]]
  BY DEF EnterNext
<1> HIDE DEF here
<1>4. CASE phase[x] = "clamp"
  <2>1. here = 1
    BY <1>1, <1>2, <1>4
  <2>2. BootOrder[here + 1] = "seed"
    BY <1>1, <2>1
  <2> QED
    BY <1>3, <1>4, <2>2
<1>5. CASE phase[x] = "seed"
  <2>1. here = 2
    BY <1>1, <1>2, <1>5
  <2>2. BootOrder[here + 1] = "fence"
    BY <1>1, <2>1
  <2> QED
    BY <1>3, <1>5, <2>2
<1>6. CASE phase[x] = "fence"
  <2>1. here = 3
    BY <1>1, <1>2, <1>6
  <2>2. BootOrder[here + 1] = "run"
    BY <1>1, <2>1
  <2> QED
    BY <1>3, <1>6, <2>2
<1> QED
  BY <1>4, <1>5, <1>6

-----------------------------------------------------------------------------
(* What a step reads, and the shapes of a frame.                            *)

LEMMA ReadsOn ==
    ASSUME LogOK, NEW pos \in Nat, NEW rows, rows = ReadFrom(pos), rows # <<>>
    PROVE  /\ rows \in Seq(Nat) /\ Len(rows) \in Nat \ {0}
           /\ \A i \in DOMAIN rows : rows[i] = pos + i
           /\ pos + Len(rows) <= Len(log)
<1>1. Len(log) \in Nat /\ Batch \in Nat \ {0}
  BY BoundsAreNaturals DEF LogOK
<1> DEFINE n == IF Len(log) - pos < Batch THEN Len(log) - pos ELSE Batch
<1>2. n \in Int /\ rows = [i \in 1 .. n |-> pos + i] /\ pos + n <= Len(log)
  BY <1>1 DEF ReadFrom
<1> HIDE DEF n
<1>3. n > 0
  <2>1. SUFFICES ASSUME n <= 0 PROVE FALSE
    BY <1>2
  <2>2. rows \in [1 .. 0 -> Nat]
    BY <1>2, <2>1
  <2>3. rows \in Seq(Nat) /\ Len(rows) = 0
    BY <2>2, SeqDef
  <2> QED
    BY <2>3, EmptySeq
<1>4. rows \in [1 .. n -> Nat] /\ n \in Nat
  BY <1>2, <1>3
<1>5. rows \in Seq(Nat)
  BY <1>4, SeqDef
<1>6. Len(rows) = n
  BY <1>4, <1>5, LenProperties
<1> QED
  BY <1>2, <1>3, <1>5, <1>6

LEMMA Shapes ==
    ASSUME FrameOK, NEW p \in Projector
    PROVE  /\ InStep(p) \/ frame[p] = Idle
           /\ InStep(p) => frame[p].todo \in Seq(Nat)
           /\ frame[p].pc \in {"row", "advance"} =>
                 frame[p] \in [pc : {"row", "advance"}, todo : Seq(Nat)]
           /\ frame[p].pc = "park" =>
                 frame[p] \in [pc : {"park"}, todo : Seq(Nat), class : Class, text : Said]
           /\ frame[p].pc \in {"idle", "row", "advance", "park"}
  BY DEF FrameOK, Frames, Idle, InStep

\* The row a step is at, and how the step goes on.
LEMMA RowIs ==
    ASSUME FrameOK, LogOK, NEW p \in Projector, InStep(p), RowSound(p)
    PROVE  /\ Row(p) \in Nat /\ Row(p) \in DOMAIN log
           /\ frame[p].todo \in Seq(Nat) /\ Row(p) = frame[p].todo[1]
           /\ log[Row(p)] \in Events
<1>1. frame[p].todo \in Seq(Nat) /\ Len(frame[p].todo) > 0
  BY Shapes DEF RowSound
<1>2. Row(p) = frame[p].todo[1] /\ Row(p) \in Nat
  BY <1>1 DEF Row
<1>3. Row(p) > 0 /\ Row(p) + Len(frame[p].todo) - 1 <= Len(log)
  BY DEF RowSound
<1>4. Row(p) \in DOMAIN log
  BY <1>1, <1>2, <1>3 DEF LogOK
<1> QED
  BY <1>1, <1>2, <1>4 DEF LogOK

LEMMA ParkIs ==
    ASSUME FrameOK, NEW p \in Projector, frame[p].pc = "row", NEW class \in Class,
           Park(p, class)
    PROVE  /\ frame'[p].pc = "park" /\ frame'[p].todo = frame[p].todo
           /\ frame'[p] \in Frames
<1>1. frame[p] \in [pc : {"row", "advance"}, todo : Seq(Nat)]
  BY Shapes
<1>2. PICK text \in Texts[p] :
        frame'[p] = [pc |-> "park", todo |-> frame[p].todo, class |-> class, text |-> text]
  BY DEF Park, FrameOK
<1>3. text \in Said
  BY <1>2 DEF Said
<1> QED
  BY <1>1, <1>2, <1>3 DEF Frames

LEMMA BecomeIs ==
    ASSUME FrameOK, NEW p \in Projector, frame[p].pc = "row", Become(p, "advance")
    PROVE  /\ frame'[p].pc = "advance" /\ frame'[p].todo = frame[p].todo
           /\ frame'[p] \in Frames
<1>1. frame[p] \in [pc : {"row", "advance"}, todo : Seq(Nat)]
  BY Shapes
<1>2. frame'[p] = [frame[p] EXCEPT !.pc = "advance"]
  BY DEF Become, FrameOK
<1> QED
  BY <1>1, <1>2 DEF Frames

-----------------------------------------------------------------------------
(* The log, and what is passed in it.                                       *)

LEMMA LogNext ==
    ASSUME TypeOK, RowsSound, [Next]_vars
    PROVE  LogOK'
<1>0. log \in Seq(Events) /\ next \in Nat /\ FrameOK
  BY DEF TypeOK, LogOK
<1>1. ASSUME NEW kind \in Kinds, Emit(kind) PROVE LogOK'
  <2>1. Event(next, kind) \in Events
    BY <1>0 DEF Event, Events, Names
  <2> QED
    BY <1>0, <1>1, <2>1 DEF Emit, LogOK
<1>2. ASSUME NEW p \in Projector, ParkAppend(p) PROVE LogOK'
  <2>1. frame[p].pc = "park" /\ InStep(p) /\ RowSound(p)
    BY <1>2 DEF ParkAppend, Working, InStep, RowsSound
  <2>2. frame[p].class \in Class /\ frame[p].text \in Said /\ log[Row(p)].n \in Names /\ attempts[p].count \in Nat
    BY <1>0, <2>1, Shapes, RowIs DEF TypeOK, LogOK, AttemptsOK, Failing, Events
  <2>3. log[Row(p)].n[1] \in Nat
    BY <2>2 DEF Names
  <2>4. Parked(p) \in Events
    BY <2>2, <2>3 DEF Parked, Events, Names
  <2> QED
    BY <1>0, <1>2, <2>4 DEF ParkAppend, WithPark, LogOK
<1>3. CASE Restore
  BY <1>0, <1>3 DEF Restore, LogOK
<1> QED
  BY <1>0, <1>1, <1>2, <1>3, WhoMoves DEF LogOK

\* Only a restore cuts the log; what is appended is no fact, or a running engine's.
LEMMA LogMoves ==
    ASSUME LogOK, [Next]_vars
    PROVE  /\ ~Restore =>
                /\ Len(log') >= Len(log)
                /\ \A i \in DOMAIN log : i \in DOMAIN log' /\ log'[i] = log[i]
                /\ \A i \in DOMAIN log' : i \notin DOMAIN log =>
                      /\ i = Len(log) + 1
                      /\ Matches(log'[i]) => \E x \in Engine : phase[x] = "run"
           /\ Restore =>
                \A i \in DOMAIN log' : i \in DOMAIN log /\ log'[i] = log[i]
<1>0. log \in Seq(Events) /\ Len(log) \in Nat /\ DOMAIN log = 1 .. Len(log)
  BY DEF LogOK
<1>1. ASSUME NEW e, log' = Append(log, e),
             Matches(e) => \E x \in Engine : phase[x] = "run"
      PROVE  /\ Len(log') >= Len(log)
             /\ \A i \in DOMAIN log : i \in DOMAIN log' /\ log'[i] = log[i]
             /\ \A i \in DOMAIN log' : i \notin DOMAIN log =>
                   /\ i = Len(log) + 1
                   /\ Matches(log'[i]) => \E x \in Engine : phase[x] = "run"
  <2>1. /\ DOMAIN log' = 1 .. Len(log) + 1 /\ Len(log') = Len(log) + 1
        /\ \A i \in 1 .. Len(log) : log'[i] = log[i]
        /\ log'[Len(log) + 1] = e
    BY <1>0, <1>1
  <2> QED
    BY <1>0, <1>1, <2>1
<1>2. ASSUME NEW kind \in Kinds, Emit(kind)
      PROVE  /\ log' = Append(log, Event(next, kind))
             /\ Matches(Event(next, kind)) => \E x \in Engine : phase[x] = "run"
  BY <1>2 DEF Emit, Event, Matches
<1>3. ASSUME NEW p \in Projector, ParkAppend(p)
      PROVE  log' = log \/ (log' = Append(log, Parked(p)) /\ ~Matches(Parked(p)))
  BY <1>3 DEF ParkAppend, WithPark, Parked, Matches
<1>4. ASSUME Restore
      PROVE  \A i \in DOMAIN log' : i \in DOMAIN log /\ log'[i] = log[i]
  <2> PICK k \in 0 .. Len(log) - 1 : log' = SubSeq(log, 1, k)
    BY <1>4 DEF Restore
  <2>1. k \in Nat /\ k <= Len(log)
    BY <1>0
  <2> QED
    BY <1>0, <2>1
<1>5. CASE log' = log
  BY <1>0, <1>4, <1>5
<1>6. CASE ~Restore /\ log' # log
  <2>1. CASE \E kind \in Kinds : Emit(kind)
    BY <1>1, <1>2, <1>6, <2>1
  <2>2. CASE \E p \in Projector : ParkAppend(p)
    BY <1>1, <1>3, <1>6, <2>2
  <2> QED
    BY <1>6, <2>1, <2>2, WhoMoves
<1> QED
  BY <1>4, <1>5, <1>6

\* One scan of a reactor: the events after its last position, up to a new one.
LEMMA ScanIs ==
    ASSUME TypeOK, LeasesSound, NEW r \in Reactor, Scan(r)
    PROVE  \E upto \in Nat :
             /\ holder[r] \in Engine /\ scan[r] \in Nat
             /\ scan[r] < upto /\ upto <= Len(log)
             /\ scan' = [scan EXCEPT ![r] = upto]
             /\ \A i \in scan[r] + 1 .. upto : i \in DOMAIN log /\ log[i] \in Events
             /\ fence' = [fence EXCEPT ![holder[r]] = @ \cup
                    {log[i].n : i \in {j \in scan[r] + 1 .. upto : log[j].kind = "cancel"}}]
             /\ handled' = [handled EXCEPT ![r] = @ \cup
                    {log[i].n : i \in {j \in scan[r] + 1 .. upto : Matches(log[j])}}]
<1>1. r \in Consumer /\ holder[r] # None /\ holder[r] \in Engine
  BY DEF Scan, LeasesSound, Consumer
<1>2. scan[r] \in Nat /\ LogOK /\ log \in Seq(Events) /\ Len(log) \in Nat
  BY <1>1 DEF LeasesSound, TypeOK, LogOK
<1> DEFINE rows == ReadFrom(scan[r])
           upto == rows[Len(rows)]
<1>3. rows # <<>>
  BY DEF Scan
<1>4. Len(rows) \in Nat \ {0} /\ Len(rows) \in DOMAIN rows /\ upto = scan[r] + Len(rows)
      /\ scan[r] + Len(rows) <= Len(log)
  BY <1>2, <1>3, ReadsOn
<1>5. upto \in Nat /\ scan[r] < upto /\ upto <= Len(log)
  BY <1>2, <1>4
<1>6. \A i \in scan[r] + 1 .. upto : i \in DOMAIN log /\ log[i] \in Events
  BY <1>2, <1>5
<1>7. /\ scan' = [scan EXCEPT ![r] = upto]
      /\ fence' = [fence EXCEPT ![holder[r]] = @ \cup
             {e.n : e \in {f \in {log[i] : i \in scan[r] + 1 .. upto} : f.kind = "cancel"}}]
      /\ handled' = [handled EXCEPT ![r] = @ \cup
             {e.n : e \in {f \in {log[i] : i \in scan[r] + 1 .. upto} : Matches(f)}}]
  BY DEF Scan
<1> HIDE DEF upto
<1>8. {e.n : e \in {f \in {log[i] : i \in scan[r] + 1 .. upto} : f.kind = "cancel"}}
        = {log[i].n : i \in {j \in scan[r] + 1 .. upto : log[j].kind = "cancel"}}
  OBVIOUS
<1>9. {e.n : e \in {f \in {log[i] : i \in scan[r] + 1 .. upto} : Matches(f)}}
        = {log[i].n : i \in {j \in scan[r] + 1 .. upto : Matches(log[j])}}
  OBVIOUS
<1> QED
  BY <1>1, <1>2, <1>5, <1>6, <1>7, <1>8, <1>9

LEMMA GhostsNext ==
    ASSUME TypeOK, RowsSound, LeasesSound, [Next]_vars
    PROVE  /\ GhostsOK'
           /\ \A c \in Consumer : handled[c] \subseteq handled'[c] /\ waived[c] \subseteq waived'[c]
<1>0. GhostsOK /\ LogOK /\ FrameOK /\ BootOK /\ \A i \in DOMAIN log : log[i].n \in Names
  <2>1. \A i \in DOMAIN log : log[i] \in Events
    BY DEF TypeOK, LogOK
  <2> QED
    BY <2>1 DEF TypeOK, Events
<1>1. ASSUME NEW p \in Projector, Project(p) \/ ParkAppend(p)
      PROVE  /\ handled' \in [Consumer -> SUBSET Names]
             /\ \A c \in Consumer : handled[c] \subseteq handled'[c]
  <2>1. log[Row(p)].n \in Names
    BY <1>0, <1>1, RowIs DEF Project, ParkAppend, Working, InStep, RowsSound
  <2>2. \/ handled' = handled
        \/ handled' = [handled EXCEPT ![p] = @ \cup {log[Row(p)].n}]
    BY <1>1 DEF Project, ParkAppend
  <2> QED
    BY <1>0, <2>1, <2>2 DEF GhostsOK, Consumer
<1>2. ASSUME NEW r \in Reactor, Scan(r)
      PROVE  /\ handled' \in [Consumer -> SUBSET Names]
             /\ \A c \in Consumer : handled[c] \subseteq handled'[c]
  <2> PICK upto \in Nat :
         /\ \A i \in scan[r] + 1 .. upto : i \in DOMAIN log
         /\ handled' = [handled EXCEPT ![r] = @ \cup
                {log[i].n : i \in {j \in scan[r] + 1 .. upto : Matches(log[j])}}]
    BY <1>2, ScanIs
  <2> QED
    BY <1>0 DEF GhostsOK, Consumer
<1>3. ASSUME NEW x \in Engine, BootSeed(x)
      PROVE  /\ waived' \in [Consumer -> SUBSET Names]
             /\ \A c \in Consumer : waived[c] \subseteq waived'[c]
  <2>1. \A pos : Upto(pos) \subseteq Names
    BY <1>0 DEF Upto, Positions
  <2> QED
    BY <1>0, <1>3, <2>1 DEF BootSeed, GhostsOK
<1> QED
  BY <1>0, <1>1, <1>2, <1>3, WhoMoves DEF GhostsOK

LEMMA PassedStays ==
    ASSUME TypeOK, RowsSound, LeasesSound, [Next]_vars,
           NEW c \in Consumer, NEW pos \in Nat, Passed(c, pos),
           (\E x \in Engine : Clamped(x)) => pos <= Len(log)
    PROVE  Passed(c, pos)'
<1>0. LogOK /\ Len(log) \in Nat
  BY DEF TypeOK, LogOK
<1>1. handled[c] \cup waived[c] \subseteq handled'[c] \cup waived'[c]
  BY GhostsNext
<1> SUFFICES ASSUME NEW i \in DOMAIN log', Matches(log'[i]), i <= pos
             PROVE  log'[i].n \in handled'[c] \cup waived'[c]
  BY DEF Passed, Matches
<1>2. i \in DOMAIN log /\ log'[i] = log[i]
  <2>1. CASE Restore
    BY <1>0, <2>1, LogMoves
  <2>2. CASE ~Restore
    <3>1. SUFFICES ASSUME i \notin DOMAIN log PROVE FALSE
      BY <1>0, <2>2, LogMoves
    <3>2. i = Len(log) + 1 /\ \E x \in Engine : phase[x] = "run"
      BY <1>0, <2>2, <3>1, LogMoves
    <3> QED
      BY <1>0, <3>2 DEF Clamped
  <2> QED
    BY <2>1, <2>2
<1> QED
  BY <1>1, <1>2 DEF Passed

-----------------------------------------------------------------------------
(* Boots, leases and cursors.                                               *)

LEMMA AtIs ==
    ASSUME CursorOK, NEW c \in Consumer
    PROVE  At(c) \in Nat /\ cursor[c] \in Nat \cup {None}
  BY DEF CursorOK, At

\* Where a cursor goes: down to a tip, to a seed, or up to a row or a scanned position.
LEMMA CursorMoves ==
    ASSUME TypeOK, RowsSound, LeasesSound, [Next]_vars, NEW c \in Consumer
    PROVE  /\ cursor' \in [Consumer -> Nat \cup {None}]
           /\ \/ cursor'[c] = cursor[c]
              \/ \E x \in Engine : BootClamp(x) /\ cursor'[c] = tip[x] /\ tip[x] < At(c)
              \/ \E x \in Engine : BootSeed(x) /\ c \in cast \cap Reactor /\ cursor'[c] = Seed(c)
              \/ c \in Projector /\ AdvanceCursor(c) /\ cursor'[c] = Row(c) /\ At(c) < Row(c)
              \/ c \in Reactor /\ PersistFloor(c) /\ cursor'[c] = scan[c] /\ At(c) < scan[c]
<1>0. /\ CursorOK /\ cursor \in [Consumer -> Nat \cup {None}] /\ tip \in [Engine -> Nat]
      /\ LogOK /\ Len(log) \in Nat /\ FrameOK
      /\ \A d \in Consumer : At(d) \in Nat
  BY AtIs DEF TypeOK, CursorOK, BootOK, LogOK
<1>1. ASSUME NEW x \in Engine, BootClamp(x)
      PROVE  /\ cursor' \in [Consumer -> Nat \cup {None}]
             /\ \/ cursor'[c] = cursor[c]
                \/ cursor'[c] = tip[x] /\ tip[x] < At(c)
  BY <1>0, <1>1 DEF BootClamp, Clamp
<1>2. ASSUME NEW x \in Engine, BootSeed(x)
      PROVE  /\ cursor' \in [Consumer -> Nat \cup {None}]
             /\ \/ cursor'[c] = cursor[c]
                \/ c \in cast \cap Reactor /\ cursor'[c] = Seed(c)
  <2>1. \A d \in Consumer : Seed(d) \in Nat \cup {None}
    BY <1>0, StartsKnown DEF Seed, Consumer
  <2>2. cursor' = [d \in Consumer |-> Seed(d)]
    BY <1>2 DEF BootSeed
  <2>3. c \in Projector \/ c \notin cast => Seed(c) = cursor[c]
    BY DEF Seed
  <2> QED
    BY <2>1, <2>2, <2>3 DEF Consumer
<1>3. ASSUME NEW p \in Projector, AdvanceCursor(p)
      PROVE  /\ cursor' \in [Consumer -> Nat \cup {None}]
             /\ \/ cursor'[c] = cursor[c]
                \/ c = p /\ cursor'[c] = Row(c) /\ At(c) < Row(c)
  <2>1. Row(p) \in Nat
    BY <1>0, <1>3, RowIs DEF AdvanceCursor, Working, RowsSound, InStep
  <2>2. cursor' = [cursor EXCEPT ![p] = IF At(p) < Row(p) THEN Row(p) ELSE @]
    BY <1>3 DEF AdvanceCursor, Advanced
  <2> QED
    BY <1>0, <2>1, <2>2
<1>4. ASSUME NEW r \in Reactor, PersistFloor(r)
      PROVE  /\ cursor' \in [Consumer -> Nat \cup {None}]
             /\ \/ cursor'[c] = cursor[c]
                \/ c = r /\ cursor'[c] = scan[c] /\ At(c) < scan[c]
  <2>1. scan[r] \in Nat
    BY <1>4 DEF PersistFloor, LeasesSound
  <2>2. cursor' = [cursor EXCEPT ![r] = IF At(r) < scan[r] THEN scan[r] ELSE @]
    BY <1>4 DEF PersistFloor, Advanced
  <2> QED
    BY <1>0, <2>1, <2>2
<1>5. CASE cursor' = cursor
  BY <1>0, <1>5
<1> QED
  BY <1>1, <1>2, <1>3, <1>4, <1>5, WhoMoves

LEMMA BootKind ==
    ASSUME TypeOK, LeasesSound, [Next]_vars
    PROVE  BootOK'
<1> DEFINE PhasesOK == /\ phase \in [Engine -> {"down", "clamp", "seed", "fence", "run"}]
                       /\ tip \in [Engine -> Nat]
           FenceOK == fence \in [Engine -> SUBSET Names]
<1>0. BootOK /\ LogOK /\ Len(log) \in Nat
  BY DEF TypeOK, LogOK
<1>1. PhasesOK'
  <2>1. ASSUME NEW x \in Engine, BootTip(x) PROVE PhasesOK'
    BY <1>0, <2>1 DEF BootTip, BootOK, BootOrder
  <2>2. ASSUME NEW x \in Engine, BootClamp(x) \/ BootSeed(x) \/ BootFence(x) PROVE PhasesOK'
    BY <1>0, <2>2, NextPhase DEF BootClamp, BootSeed, BootFence, BootOK
  <2>3. ASSUME NEW x \in Engine, Crash(x) PROVE PhasesOK'
    BY <1>0, <2>3 DEF Crash, BootOK
  <2> QED
    BY <1>0, <2>1, <2>2, <2>3, WhoMoves DEF Boot, BootOK
<1>2. FenceOK'
  <2>1. ASSUME NEW x \in Engine, BootFence(x) PROVE FenceOK'
    <3>1. \A i \in DOMAIN log : log[i] \in Events
      BY <1>0 DEF LogOK
    <3>2. Markers \subseteq Names
      BY <3>1 DEF Markers, Positions, Events
    <3> QED
      BY <1>0, <2>1, <3>2 DEF BootFence, BootOK
  <2>2. ASSUME NEW x \in Engine, Crash(x) PROVE FenceOK'
    BY <1>0, <2>2 DEF Crash, BootOK
  <2>3. ASSUME NEW r \in Reactor, Scan(r) PROVE FenceOK'
    <3> PICK upto \in Nat :
           /\ \A i \in scan[r] + 1 .. upto : i \in DOMAIN log /\ log[i] \in Events
           /\ fence' = [fence EXCEPT ![holder[r]] = @ \cup
                {log[i].n : i \in {j \in scan[r] + 1 .. upto : log[j].kind = "cancel"}}]
      BY <2>3, ScanIs
    <3>1. {log[i].n : i \in {j \in scan[r] + 1 .. upto : log[j].kind = "cancel"}} \subseteq Names
      BY DEF Events
    <3> QED
      BY <1>0, <3>1 DEF BootOK
  <2> QED
    BY <1>0, <2>1, <2>2, <2>3, WhoMoves DEF BootOK
<1>3. holder' \in [Consumer -> Engine \cup {None}]
  BY <1>0, WhoMoves DEF BootOK, Crash, Lease, Scan, Lost
<1> QED
  BY <1>0, <1>1, <1>2, <1>3, WhoMoves DEF BootOK

LEMMA PhaseMoves ==
    ASSUME BootOK, [Next]_vars, NEW x \in Engine
    PROVE  /\ phase'[x] = "clamp" => BootTip(x) \/ (phase[x] = "clamp" /\ tip'[x] = tip[x])
           /\ Clamped(x)' => Clamped(x) \/ BootClamp(x)
           /\ phase'[x] = "run" => phase[x] = "run" \/ BootFence(x)
           /\ phase[x] = "run" => phase'[x] = "run" \/ Crash(x)
<1> USE DEF BootOK, Clamped
<1>1. ASSUME NEW y \in Engine, y # x, Boot(y) \/ Crash(y)
      PROVE  phase'[x] = phase[x] /\ tip'[x] = tip[x]
  BY <1>1 DEF Boot, BootTip, BootClamp, BootSeed, BootFence, Crash, EnterNext
<1>2. CASE BootTip(x)
  <2>1. BootOrder[1] = "clamp"
    BY DEF BootOrder
  <2>2. phase[x] = "down" /\ phase'[x] = "clamp"
    BY <1>2, <2>1 DEF BootTip
  <2> QED
    BY <1>2, <2>2
<1>3. CASE BootClamp(x)
  BY <1>3, NextPhase DEF BootClamp
<1>4. CASE BootSeed(x)
  BY <1>4, NextPhase DEF BootSeed
<1>5. CASE BootFence(x)
  BY <1>5, NextPhase DEF BootFence
<1>6. CASE Crash(x)
  BY <1>6 DEF Crash
<1>7. CASE phase'[x] = phase[x] /\ tip'[x] = tip[x]
  BY <1>7
<1> QED
  BY <1>1, <1>2, <1>3, <1>4, <1>5, <1>6, <1>7, WhoMoves DEF Boot

LEMMA BootNext ==
    ASSUME TypeOK, BootSound, RowsSound, LeasesSound, [Next]_vars
    PROVE  BootSound'
<1>0. /\ BootOK /\ LogOK /\ Len(log) \in Nat /\ CursorOK /\ FrameOK
      /\ tip \in [Engine -> Nat] /\ \A c \in Consumer : At(c) \in Nat
  BY AtIs DEF TypeOK, LogOK, BootOK
<1>1. ASSUME NEW x \in Engine, phase'[x] = "clamp" \/ Clamped(x)'
      PROVE  Len(log) <= Len(log') /\ Len(log') \in Nat
  <2>1. ~Restore
    BY <1>1 DEF Restore, boot, Clamped
  <2>2. Len(log') \in Nat
    BY LogNext DEF LogOK
  <2> QED
    BY <1>0, <2>1, <2>2, LogMoves
<1>2. ASSUME NEW x \in Engine, phase'[x] = "clamp" PROVE tip'[x] <= Len(log')
  <2>1. CASE BootTip(x)
    BY <1>0, <1>1, <1>2, <2>1 DEF BootTip, BootOK
  <2>2. CASE phase[x] = "clamp" /\ tip'[x] = tip[x]
    BY <1>0, <1>1, <1>2, <2>2 DEF BootSound
  <2> QED
    BY <1>0, <1>2, <2>1, <2>2, PhaseMoves
<1>3. ASSUME NEW x \in Engine, Clamped(x)', NEW c \in Consumer PROVE At(c)' <= Len(log')
  <2>0. Len(log) <= Len(log') /\ Len(log') \in Nat
    BY <1>1, <1>3
  <2>1. CASE BootClamp(x)
    <3>1. tip[x] <= Len(log) /\ tip[x] \in Nat
      BY <1>0, <2>1 DEF BootClamp, BootSound
    <3>2. cursor'[c] = IF At(c) > tip[x] THEN tip[x] ELSE cursor[c]
      BY <2>1 DEF BootClamp, Clamp
    <3> QED
      BY <1>0, <2>0, <3>1, <3>2 DEF At
  <2>2. CASE Clamped(x)
    <3>1. At(c) <= Len(log) /\ c \in Consumer
      BY <2>2 DEF BootSound
    <3>2. CASE cursor'[c] = cursor[c]
      BY <1>0, <2>0, <3>1, <3>2 DEF At
    <3>3. ASSUME NEW y \in Engine, cursor'[c] = tip[y], tip[y] < At(c)
          PROVE  At(c)' <= Len(log')
      BY <1>0, <2>0, <3>1, <3>3 DEF At
    <3>4. ASSUME c \in cast \cap Reactor, cursor'[c] = Seed(c) PROVE At(c)' <= Len(log')
      BY <1>0, <2>0, <3>1, <3>4, StartsKnown DEF At, Seed
    <3>5. ASSUME c \in Projector, AdvanceCursor(c), cursor'[c] = Row(c)
          PROVE  At(c)' <= Len(log')
      <4>1. Row(c) \in DOMAIN log
        BY <1>0, <3>5, RowIs DEF AdvanceCursor, Working, RowsSound, InStep
      <4>2. Row(c) \in Nat /\ Row(c) <= Len(log)
        BY <1>0, <4>1 DEF LogOK
      <4> QED
        BY <1>0, <2>0, <3>5, <4>2 DEF At
    <3>6. ASSUME c \in Reactor, PersistFloor(c), cursor'[c] = scan[c]
          PROVE  At(c)' <= Len(log')
      <4>1. scan[c] \in Nat /\ scan[c] <= Len(log)
        BY <3>6 DEF PersistFloor, LeasesSound
      <4> QED
        BY <1>0, <2>0, <3>6, <4>1 DEF At
    <3> QED
      BY <3>2, <3>3, <3>4, <3>5, <3>6, CursorMoves
  <2> QED
    BY <1>0, <1>3, <2>1, <2>2, PhaseMoves
<1> QED
  BY <1>2, <1>3 DEF BootSound

\* A consumer keeps its lease until its engine crashes.
LEMMA HolderMoves ==
    ASSUME BootOK, [Next]_vars, NEW c \in Consumer
    PROVE  \/ holder'[c] = holder[c] /\ \A x \in Engine : Crash(x) => holder[c] # x
           \/ \E x \in Engine : Crash(x) /\ holder[c] = x /\ holder'[c] = None
           \/ \E x \in Engine : Lease(x, c) /\ holder'[c] = x
<1>1. ASSUME NEW x \in Engine, Crash(x)
      PROVE  \/ holder'[c] = holder[c] /\ holder[c] # x
             \/ holder[c] = x /\ holder'[c] = None
  BY <1>1 DEF Crash, Lost
<1>2. ASSUME NEW x \in Engine, NEW d \in Consumer, Lease(x, d)
      PROVE  holder'[c] = IF c = d THEN x ELSE holder[c]
  BY <1>2 DEF Lease, BootOK
<1>3. ASSUME NEW r \in Reactor, Scan(r) PROVE holder' = holder
  BY <1>3 DEF Scan
<1>4. ASSUME NEW x \in Engine, NEW y \in Engine, Crash(x), Crash(y) PROVE x = y
  BY <1>4 DEF Crash, BootOK
<1> QED
  BY <1>1, <1>2, <1>3, <1>4, WhoMoves

\* What a reactor has scanned changes with its lease and its scans only.
LEMMA ScanStays ==
    ASSUME BootOK, ScanOK, [Next]_vars, NEW r \in Reactor, holder'[r] # None,
           \A x \in Engine : ~Lease(x, r), ~Scan(r)
    PROVE  holder'[r] = holder[r] /\ scan'[r] = scan[r]
<1>0. r \in Consumer /\ scan \in [Reactor -> Nat \cup {None}]
  BY DEF ScanOK, Consumer
<1>1. /\ holder'[r] = holder[r]
      /\ \A x \in Engine : Crash(x) => holder[r] # x
  BY <1>0, HolderMoves
<1>2. ASSUME NEW x \in Engine, Crash(x) PROVE scan'[r] = scan[r]
  BY <1>0, <1>1, <1>2 DEF Crash, Lost
<1>3. ASSUME NEW x \in Engine, NEW d \in Consumer, d # r, Lease(x, d)
      PROVE  scan'[r] = scan[r]
  BY <1>0, <1>3 DEF Lease
<1>4. ASSUME NEW q \in Reactor, q # r, Scan(q) PROVE scan'[r] = scan[r]
  BY <1>0, <1>4 DEF Scan
<1> QED
  BY <1>1, <1>2, <1>3, <1>4, WhoMoves

LEMMA LeasesNext ==
    ASSUME TypeOK, BootSound, RowsSound, LeasesSound, [Next]_vars
    PROVE  LeasesSound'
<1>0. /\ BootOK /\ LogOK /\ Len(log) \in Nat /\ CursorOK /\ FrameOK /\ AttemptsOK /\ RegOK
      /\ ScanOK /\ scan \in [Reactor -> Nat \cup {None}] /\ Len(log') \in Nat
      /\ Projector \subseteq Consumer /\ Reactor \subseteq Consumer
  BY LogNext DEF TypeOK, LogOK, Consumer, ScanOK
<1>1. ASSUME NEW c \in Consumer, holder'[c] # None
      PROVE  holder'[c] \in Engine /\ phase'[holder'[c]] = "run"
  <2>1. CASE holder'[c] = holder[c] /\ \A x \in Engine : Crash(x) => holder[c] # x
    <3>1. holder[c] \in Engine /\ phase[holder[c]] = "run"
      BY <1>1, <2>1 DEF LeasesSound
    <3> QED
      BY <1>0, <2>1, <3>1, PhaseMoves
  <2>2. CASE \E x \in Engine : Lease(x, c) /\ holder'[c] = x
    BY <2>2 DEF Lease
  <2> QED
    BY <1>0, <1>1, <2>1, <2>2, HolderMoves
<1>2. ASSUME NEW p \in Projector, holder'[p] = None PROVE frame'[p] = Idle /\ reg'[p] = None
  <2>1. CASE holder[p] = None /\ \A x \in Engine : ~Crash(x)
    <3>1. ~Working(p, "row") /\ ~Working(p, "idle") /\ ~Working(p, "park") /\ ~Working(p, "advance")
      BY <2>1 DEF Working
    <3>2. ~(Step(p) \/ Transient(p) \/ AdvanceFails(p))
      BY <3>1 DEF Step, BeginStep, PassRow, Project, Poison, Refuse, ParkAppend, AdvanceCursor,
         Transient, AdvanceFails
    <3>3. frame'[p] = frame[p] /\ reg'[p] = reg[p]
      BY <1>0, <2>1, <3>2, OwnStep, WhoMoves
    <3> QED
      BY <2>1, <3>3 DEF LeasesSound
  <2>2. ASSUME NEW x \in Engine, Crash(x) PROVE frame'[p] = Idle /\ reg'[p] = None
    <3>1. holder[p] = x \/ holder[p] = None
      BY <1>0, <1>2, <2>2 DEF Crash, Lost
    <3> QED
      BY <2>2, <3>1 DEF Crash, Lost, LeasesSound
  <2>3. \A x \in Engine : Lease(x, p) /\ holder'[p] = x => x = None /\ holder[p] = None
    BY <1>2 DEF Lease
  <2> QED
    BY <1>0, <1>2, <2>1, <2>2, <2>3, HolderMoves
<1>3. ASSUME NEW r \in Reactor, holder'[r] # None
      PROVE  scan'[r] \in Nat /\ scan'[r] <= Len(log')
  <2>0. r \in Consumer
    BY <1>0
  <2>1. ~Restore /\ Len(log) <= Len(log')
    <3>1. holder'[r] \in Engine /\ phase'[holder'[r]] = "run"
      BY <1>1, <1>3, <2>0
    <3>2. ~Restore
      BY <3>1 DEF Restore, boot
    <3> QED
      BY <1>0, <3>2, LogMoves
  <2>2. CASE \E x \in Engine : Lease(x, r)
    <3>1. At(r) \in Nat /\ At(r) <= Len(log) /\ scan' = [scan EXCEPT ![r] = At(r)]
      BY <1>0, <2>0, <2>2, AtIs DEF Lease, BootSound, Clamped
    <3> QED
      BY <1>0, <2>1, <3>1
  <2>3. CASE Scan(r)
    <3> PICK upto \in Nat : upto <= Len(log) /\ scan' = [scan EXCEPT ![r] = upto]
      BY <2>3, ScanIs
    <3> QED
      BY <1>0, <2>1
  <2>4. CASE holder'[r] = holder[r] /\ scan'[r] = scan[r]
    BY <1>0, <1>3, <2>1, <2>4 DEF LeasesSound
  <2> QED
    BY <1>0, <1>3, <2>0, <2>2, <2>3, <2>4, ScanStays
<1> QED
  BY <1>1, <1>2, <1>3 DEF LeasesSound

-----------------------------------------------------------------------------
(* The projectors' steps.                                                   *)

LEMMA StepPc ==
    ASSUME NEW p \in Projector
    PROVE  /\ BeginStep(p) => Step(p) /\ frame[p].pc = "idle"
           /\ AdvanceCursor(p) => Step(p) /\ frame[p].pc = "advance"
           /\ PassRow(p) \/ Project(p) \/ Poison(p) \/ Refuse(p) \/ Transient(p)
                 => frame[p].pc = "row"
           /\ ParkAppend(p) => frame[p].pc = "park"
  BY DEF Step, Working, BeginStep, AdvanceCursor, PassRow, Project, Poison, Refuse, Transient,
     ParkAppend

\* How a step changes the frame of its projector.
LEMMA FrameMoves ==
    ASSUME TypeOK, RowsSound, NEW p \in Projector, Step(p) \/ Transient(p) \/ AdvanceFails(p)
    PROVE  \/ frame'[p] = Idle
           \/ /\ BeginStep(p) /\ frame'[p].pc = "row" /\ frame'[p].todo = ReadFrom(At(p))
              /\ frame'[p] \in Frames /\ frame'[p].todo # <<>>
           \/ /\ PassRow(p) \/ Project(p) \/ ParkAppend(p)
              /\ frame'[p].pc = "advance" /\ frame'[p].todo = frame[p].todo
              /\ frame'[p] \in Frames /\ InStep(p)
           \/ /\ Poison(p) \/ Refuse(p) \/ Transient(p)
              /\ frame'[p].pc = "park" /\ frame'[p].todo = frame[p].todo
              /\ frame'[p] \in Frames /\ InStep(p)
           \/ /\ AdvanceCursor(p) /\ Len(frame[p].todo) > 1
              /\ frame'[p].pc = "row" /\ frame'[p].todo = Tail(frame[p].todo)
              /\ frame'[p] \in Frames /\ InStep(p)
<1>0. FrameOK /\ LogOK /\ frame \in [Projector -> Frames] /\ CursorOK
  BY DEF TypeOK, FrameOK
<1>1. CASE BeginStep(p)
  <2>1. CASE ReadFrom(At(p)) = <<>>
    BY <1>0, <1>1, <2>1 DEF BeginStep
  <2>2. CASE ReadFrom(At(p)) # <<>>
    <3>1. ReadFrom(At(p)) \in Seq(Nat)
      BY <1>0, <2>2, AtIs, ReadsOn DEF Consumer
    <3>2. frame'[p] = [pc |-> "row", todo |-> ReadFrom(At(p))]
      BY <1>0, <1>1, <2>2 DEF BeginStep
    <3> QED
      BY <1>1, <2>2, <3>1, <3>2 DEF Frames
  <2> QED
    BY <2>1, <2>2
<1>2. CASE PassRow(p) \/ Project(p)
  <2>1. frame[p].pc = "row" /\ InStep(p) /\ Become(p, "advance")
    BY <1>2 DEF PassRow, Project, Working, InStep
  <2> QED
    BY <1>0, <1>2, <2>1, BecomeIs
<1>3. CASE Poison(p) \/ Refuse(p) \/ Transient(p)
  <2>1. frame[p].pc = "row" /\ InStep(p)
    BY <1>3 DEF Poison, Refuse, Transient, Working, InStep
  <2>2. Leave(p) \/ \E class \in Class : Park(p, class)
    BY <1>3 DEF Poison, Refuse, Transient, Class
  <2>3. CASE Leave(p)
    BY <1>0, <2>3 DEF Leave
  <2>4. ASSUME NEW class \in Class, Park(p, class)
        PROVE  /\ frame'[p].pc = "park" /\ frame'[p].todo = frame[p].todo
               /\ frame'[p] \in Frames
    BY <1>0, <2>1, <2>4, ParkIs
  <2> QED
    BY <1>3, <2>1, <2>2, <2>3, <2>4
<1>4. CASE ParkAppend(p)
  <2>1. frame[p].pc = "park" /\ InStep(p) /\ frame[p].todo \in Seq(Nat)
    BY <1>0, <1>4, Shapes DEF ParkAppend, Working, InStep
  <2>2. frame'[p] = Idle \/ frame'[p] = [pc |-> "advance", todo |-> frame[p].todo]
    BY <1>0, <1>4 DEF ParkAppend, Leave
  <2> QED
    BY <1>4, <2>1, <2>2 DEF Frames
<1>5. CASE AdvanceCursor(p)
  <2>1. InStep(p) /\ frame[p].todo \in Seq(Nat) /\ Len(frame[p].todo) > 0
    BY <1>0, <1>5, Shapes DEF AdvanceCursor, Working, InStep, RowsSound, RowSound
  <2>2. frame'[p] = IF Len(frame[p].todo) = 1 THEN Idle
                    ELSE [pc |-> "row", todo |-> Tail(frame[p].todo)]
    BY <1>0, <1>5 DEF AdvanceCursor, NextRow
  <2>3. CASE Len(frame[p].todo) = 1
    BY <2>2, <2>3
  <2>4. CASE Len(frame[p].todo) # 1
    <3>0. frame[p].todo # <<>>
      BY <2>1, EmptySeq
    <3>1. Tail(frame[p].todo) \in Seq(Nat)
      BY <2>1, <3>0, HeadTailProperties
    <3>2. PICK n \in Nat : n = Len(frame[p].todo)
      BY <2>1, LenProperties
    <3>3. n # 1
      BY <2>4, <3>2
    <3>4. n > 0
      BY <2>1, <3>2
    <3>5. n > 1
      BY <3>3, <3>4
    <3>6. frame'[p] = [pc |-> "row", todo |-> Tail(frame[p].todo)]
      BY <2>2, <2>4
    <3> QED
      BY <1>5, <2>1, <3>1, <3>2, <3>5, <3>6 DEF Frames
  <2> QED
    BY <2>3, <2>4
<1>6. CASE AdvanceFails(p)
  BY <1>0, <1>6 DEF AdvanceFails, Leave
<1> QED
  BY <1>1, <1>2, <1>3, <1>4, <1>5, <1>6 DEF Step

LEMMA FrameNext ==
    ASSUME TypeOK, RowsSound, [Next]_vars
    PROVE  FrameOK'
<1>0. FrameOK /\ frame \in [Projector -> Frames] /\ AttemptsOK /\ RegOK /\ Idle \in Frames
  BY DEF TypeOK, FrameOK, Frames
<1>1. ASSUME NEW p \in Projector, Step(p) \/ Transient(p) \/ AdvanceFails(p),
             NEW q \in Projector
      PROVE  frame'[q] \in Frames
  <2>1. CASE q = p
    BY <1>0, <1>1, <2>1, FrameMoves
  <2>2. CASE q # p
    BY <1>0, <1>1, <2>2, OwnStep
  <2> QED
    BY <2>1, <2>2
<1>2. ASSUME NEW p \in Projector, Step(p) \/ Transient(p) \/ AdvanceFails(p)
      PROVE  \E f : frame' = [frame EXCEPT ![p] = f]
  BY <1>2 DEF Step, BeginStep, PassRow, Project, Poison, Refuse, Transient, ParkAppend,
     AdvanceCursor, AdvanceFails, Leave, Become, Park, NextRow, memory
<1>3. ASSUME NEW x \in Engine, Crash(x) PROVE frame' \in [Projector -> Frames]
  BY <1>0, <1>3 DEF Crash
<1>4. ASSUME NEW p \in Projector, Step(p) \/ Transient(p) \/ AdvanceFails(p)
      PROVE  frame' \in [Projector -> Frames]
  <2>1. PICK f : frame' = [frame EXCEPT ![p] = f]
    BY <1>2, <1>4
  <2> QED
    BY <1>0, <1>1, <1>4, <2>1
<1> QED
  BY <1>0, <1>3, <1>4, WhoMoves DEF FrameOK

\* The two slots of a projector besides its frame: failing event and registry.
LEMMA SlotsNext ==
    ASSUME TypeOK, RowsSound, RegistrySound, [Next]_vars
    PROVE  AttemptsOK' /\ RegOK'
<1>0. /\ FrameOK /\ AttemptsOK /\ RegOK /\ LogOK /\ CursorOK
      /\ attempts \in [Projector -> Failing \cup {None}]
      /\ reg \in [Projector -> (SUBSET Nat) \cup {None}]
      /\ FrameOK'
  BY FrameNext DEF TypeOK, AttemptsOK, RegOK
<1>1. ASSUME NEW p \in Projector, Working(p, "row") \/ Working(p, "park")
      PROVE  /\ Row(p) \in Nat /\ Row(p) \in DOMAIN log /\ log[Row(p)].n \in Names
             /\ InStep(p)
  <2>1. InStep(p) /\ RowSound(p)
    BY <1>1 DEF Working, InStep, RowsSound
  <2> QED
    BY <1>0, <2>1, RowIs DEF Events
<1>2. ASSUME NEW p \in Projector, Working(p, "row"), Count(p)
      PROVE  /\ attempts' \in [Projector -> Failing \cup {None}]
             /\ attempts'[p] \in Failing
  <2>1. log[Row(p)].n \in Names
    BY <1>1, <1>2
  <2>2. Attempt(p) \in Nat
    BY <1>0, BoundsAreNaturals DEF Attempt, CountCap, Failing
  <2>3. [n |-> log[Row(p)].n, count |-> Attempt(p)] \in Failing
    BY <2>1, <2>2 DEF Failing
  <2> QED
    BY <1>0, <1>2, <2>3 DEF Count
<1>3. attempts' \in [Projector -> Failing \cup {None}]
  <2>1. ASSUME NEW p \in Projector, Step(p) \/ Transient(p) \/ AdvanceFails(p)
        PROVE  attempts' \in [Projector -> Failing \cup {None}]
    <3>1. attempts' = attempts \/ attempts' = [attempts EXCEPT ![p] = None]
            \/ (Working(p, "row") /\ Count(p))
      BY <2>1 DEF Step, BeginStep, PassRow, Project, Poison, Refuse, Transient, ParkAppend,
         AdvanceCursor, AdvanceFails, Clear
    <3> QED
      BY <1>0, <1>2, <3>1
  <2>2. ASSUME NEW x \in Engine, Crash(x) PROVE attempts' \in [Projector -> Failing \cup {None}]
    BY <1>0, <2>2 DEF Crash
  <2> QED
    BY <1>0, <2>1, <2>2, WhoMoves
<1>4. ASSUME NEW p \in Projector, frame'[p].pc = "park" PROVE attempts'[p] \in Failing
  <2>1. CASE Step(p) \/ Transient(p) \/ AdvanceFails(p)
    <3>1. Poison(p) \/ Refuse(p) \/ Transient(p)
      BY <1>4, <2>1, FrameMoves DEF Idle
    <3>2. Working(p, "row") /\ Count(p)
      BY <3>1 DEF Poison, Refuse, Transient
    <3> QED
      BY <1>2, <3>2
  <2>2. CASE frame'[p] = frame[p] /\ attempts'[p] = attempts[p]
    BY <1>0, <1>4, <2>2 DEF AttemptsOK
  <2>3. ASSUME NEW x \in Engine, Crash(x)
        PROVE  frame'[p] = Idle \/ (frame'[p] = frame[p] /\ attempts'[p] = attempts[p])
    BY <2>3 DEF Crash
  <2>4. Idle.pc # "park"
    BY DEF Idle
  <2> QED
    BY <1>0, <1>4, <2>1, <2>2, <2>3, <2>4, OwnStep, WhoMoves
<1>5. reg' \in [Projector -> (SUBSET Nat) \cup {None}]
  <2>1. ASSUME NEW p \in Projector, Step(p) \/ Transient(p) \/ AdvanceFails(p)
        PROVE  reg' \in [Projector -> (SUBSET Nat) \cup {None}]
    <3>1. CASE BeginStep(p)
      <4>1. Hydrated(p) \in SUBSET Nat
        BY DEF Hydrated
      <4> QED
        BY <1>0, <3>1, <4>1 DEF BeginStep
    <3>2. CASE Working(p, "row") /\ Fold(p)
      <4>1. reg[p] \in SUBSET Nat
        BY <1>0, <1>1, <3>2 DEF RegistrySound, LogOK
      <4> QED
        BY <1>0, <1>1, <3>2, <4>1 DEF Fold
    <3>3. reg' = reg \/ BeginStep(p) \/ (Working(p, "row") /\ Fold(p))
      BY <2>1 DEF Step, PassRow, Project, Poison, Refuse, Transient, ParkAppend,
         AdvanceCursor, AdvanceFails
    <3> QED
      BY <1>0, <3>1, <3>2, <3>3
  <2>2. ASSUME NEW x \in Engine, Crash(x) PROVE reg' \in [Projector -> (SUBSET Nat) \cup {None}]
    BY <1>0, <2>2 DEF Crash
  <2> QED
    BY <1>0, <2>1, <2>2, WhoMoves
<1> QED
  BY <1>3, <1>4, <1>5 DEF AttemptsOK, RegOK

LEMMA ScanNext ==
    ASSUME TypeOK, LeasesSound, [Next]_vars
    PROVE  ScanOK'
<1>0. scan \in [Reactor -> Nat \cup {None}] /\ CursorOK
  BY DEF TypeOK, ScanOK
<1>1. ASSUME NEW x \in Engine, NEW c \in Consumer, Lease(x, c)
      PROVE  scan' \in [Reactor -> Nat \cup {None}]
  BY <1>0, <1>1, AtIs DEF Lease
<1>2. ASSUME NEW r \in Reactor, Scan(r) PROVE scan' \in [Reactor -> Nat \cup {None}]
  <2> PICK upto \in Nat : scan' = [scan EXCEPT ![r] = upto]
    BY <1>2, ScanIs
  <2> QED
    BY <1>0
<1>3. ASSUME NEW x \in Engine, Crash(x) PROVE scan' \in [Reactor -> Nat \cup {None}]
  BY <1>0, <1>3 DEF Crash
<1> QED
  BY <1>0, <1>1, <1>2, <1>3, WhoMoves DEF ScanOK

\* The log is not cut under a consumer that has its lease.
LEMMA LogStands ==
    ASSUME TypeOK, BootSound, RowsSound, LeasesSound, [Next]_vars, NEW c \in Consumer,
           holder'[c] # None
    PROVE  /\ ~Restore /\ Len(log) \in Nat /\ Len(log') \in Nat /\ Len(log) <= Len(log')
           /\ \A i \in DOMAIN log : i \in DOMAIN log' /\ log'[i] = log[i]
<1>1. holder'[c] \in Engine /\ phase'[holder'[c]] = "run"
  BY LeasesNext DEF LeasesSound
<1>2. ~Restore
  BY <1>1 DEF Restore, boot
<1>3. LogOK /\ LogOK'
  BY LogNext DEF TypeOK
<1> QED
  BY <1>2, <1>3, LogMoves DEF LogOK

LEMMA RowsNext ==
    ASSUME TypeOK, BootSound, LeasesSound, RowsSound, PassedSound, [Next]_vars
    PROVE  RowsSound'
<1>0. FrameOK /\ LogOK /\ CursorOK /\ AttemptsOK /\ RegOK /\ FrameOK' /\ LeasesSound' /\ LogOK'
  BY FrameNext, LogNext, LeasesNext DEF TypeOK
<1> SUFFICES ASSUME NEW p \in Projector, InStep(p)' PROVE RowSound(p)'
  BY DEF RowsSound
<1>1. p \in Consumer /\ holder'[p] # None
  BY <1>0 DEF LeasesSound, InStep, Idle, Consumer
<1>2. /\ ~Restore /\ Len(log) \in Nat /\ Len(log') \in Nat /\ Len(log) <= Len(log')
      /\ \A i \in DOMAIN log : i \in DOMAIN log' /\ log'[i] = log[i]
  BY <1>1, LogStands
<1>3. ASSUME NEW row \in Nat \ {0}, NEW rows, frame'[p].todo = rows, Len(rows) > 0,
             \A i \in DOMAIN rows : rows[i] = row + i - 1,
             row + Len(rows) - 1 <= Len(log'),
             Passed(p, row - 1)', frame'[p].pc = "advance" => Passed(p, row)'
      PROVE  RowSound(p)'
  <2>1. rows \in Seq(Nat)
    BY <1>0, <1>3 DEF FrameOK, Frames, Idle, InStep
  <2>2. PICK n \in Nat : n = Len(rows) /\ DOMAIN rows = 1 .. n
    BY <2>1, LenProperties
  <2>3. n > 0
    BY <1>3, <2>2
  <2>4. rows[1] = row
    BY <1>3, <2>2, <2>3
  <2>5. Row(p)' = row
    BY <1>3, <2>1, <2>4 DEF Row
  <2> QED
    BY <1>3, <2>5 DEF RowSound, Passed
<1>4. ASSUME NEW row \in Nat \ {0}, InStep(p), row = Row(p), frame'[p].todo = frame[p].todo,
             frame'[p].pc = "advance" => Passed(p, row)'
      PROVE  RowSound(p)'
  <2>1. RowSound(p) /\ frame[p].todo \in Seq(Nat) /\ Len(frame[p].todo) \in Nat
    BY <1>0, <1>4, Shapes, LenProperties DEF RowsSound
  <2>2. PICK n \in Nat : n = Len(frame[p].todo)
    BY <2>1
  <2>3. /\ n > 0 /\ \A i \in DOMAIN frame[p].todo : frame[p].todo[i] = row + i - 1
        /\ row + n - 1 <= Len(log) /\ Passed(p, row - 1)
    BY <1>4, <2>1, <2>2 DEF RowSound
  <2>4. row - 1 \in Nat /\ row - 1 <= Len(log)
    BY <1>2, <2>2, <2>3
  <2>5. Passed(p, row - 1)'
    BY <1>1, <2>3, <2>4, PassedStays
  <2>6. row + n - 1 <= Len(log')
    BY <1>2, <2>3
  <2> QED
    BY <1>3, <1>4, <2>2, <2>3, <2>5, <2>6
<1>5. ASSUME InStep(p) PROVE \E row \in Nat \ {0} : row = Row(p) /\ row \in DOMAIN log
  BY <1>0, <1>5, RowIs DEF RowsSound, RowSound
<1>6. CASE frame'[p] = frame[p]
  <2>1. InStep(p)
    BY <1>6 DEF InStep
  <2> PICK row \in Nat \ {0} : row = Row(p) /\ row \in DOMAIN log
    BY <1>5, <2>1
  <2>2. ASSUME frame[p].pc = "advance" PROVE Passed(p, row)'
    <3>1. Passed(p, row) /\ row <= Len(log)
      BY <1>0, <2>1, <2>2 DEF RowsSound, RowSound, LogOK
    <3> QED
      BY <1>1, <3>1, PassedStays
  <2> QED
    BY <1>4, <1>6, <2>1, <2>2
<1>7. CASE BeginStep(p) /\ frame'[p].todo = ReadFrom(At(p)) /\ frame'[p].todo # <<>>
          /\ frame'[p].pc = "row"
  <2> PICK at \in Nat : at = At(p)
    BY <1>0, <1>1, AtIs
  <2>1. PICK rows : rows = frame'[p].todo
    OBVIOUS
  <2>2. /\ rows \in Seq(Nat) /\ Len(rows) \in Nat \ {0}
        /\ \A i \in DOMAIN rows : rows[i] = at + i
        /\ at + Len(rows) <= Len(log)
    BY <1>0, <1>7, <2>1, ReadsOn
  <2>3. Passed(p, at)'
    BY <1>1, <1>2, <2>2, PassedStays DEF PassedSound
  <2>4. PICK row \in Nat \ {0} : row = at + 1 /\ at = row - 1
    OBVIOUS
  <2>5. DOMAIN rows = 1 .. Len(rows) /\ \A i \in DOMAIN rows : rows[i] = row + i - 1
    BY <2>2, <2>4
  <2>6. row + Len(rows) - 1 <= Len(log')
    BY <1>2, <2>2, <2>4
  <2>7. Passed(p, row - 1)'
    BY <2>3, <2>4
  <2>8. Len(rows) > 0 /\ frame'[p].pc # "advance"
    BY <1>7, <2>2
  <2> QED
    BY <1>3, <2>1, <2>5, <2>6, <2>7, <2>8
<1>8. CASE /\ PassRow(p) \/ Project(p) \/ ParkAppend(p)
           /\ frame'[p].pc = "advance" /\ frame'[p].todo = frame[p].todo /\ InStep(p)
  <2> PICK row \in Nat \ {0} : row = Row(p) /\ row \in DOMAIN log
    BY <1>5, <1>8
  <2>1. Passed(p, row - 1)'
    <3>1. Passed(p, row - 1) /\ row - 1 \in Nat /\ row - 1 <= Len(log)
      BY <1>0, <1>8 DEF RowsSound, RowSound, LogOK
    <3> QED
      BY <1>1, <3>1, PassedStays
  <2>2. log'[row] = log[row]
    BY <1>2
  <2>3. Matches(log'[row]) => log'[row].n \in handled'[p] \cup waived'[p]
    <3>1. CASE PassRow(p)
      BY <2>2, <3>1 DEF PassRow
    <3>2. CASE Project(p) \/ ParkAppend(p)
      <4>1. handled' = [handled EXCEPT ![p] = @ \cup {log[row].n}]
        <5>1. CASE Project(p)
          BY <5>1 DEF Project
        <5>2. CASE ParkAppend(p)
          <6>1. ~Leave(p)
            BY <1>0, <1>8 DEF Leave, FrameOK, Idle
          <6> QED
            BY <5>2, <6>1 DEF ParkAppend
        <5> QED
          BY <3>2, <5>1, <5>2
      <4>2. handled \in [Consumer -> SUBSET Names]
        BY DEF TypeOK, GhostsOK
      <4> QED
        BY <1>1, <2>2, <4>1, <4>2
    <3> QED
      BY <1>8, <3>1, <3>2
  <2>4. Passed(p, row)'
    BY <1>0, <2>1, <2>3 DEF Passed, LogOK
  <2> QED
    BY <1>4, <1>8, <2>4
<1>9. CASE frame'[p].pc = "park" /\ frame'[p].todo = frame[p].todo /\ InStep(p)
  BY <1>4, <1>5, <1>9
<1>10. CASE AdvanceCursor(p) /\ Len(frame[p].todo) > 1 /\ InStep(p)
            /\ frame'[p].pc = "row" /\ frame'[p].todo = Tail(frame[p].todo)
  <2> PICK row \in Nat \ {0} : row = Row(p) /\ row \in DOMAIN log
    BY <1>5, <1>10
  <2>1. /\ RowSound(p) /\ frame[p].todo \in Seq(Nat) /\ frame[p].pc = "advance"
        /\ frame[p].todo # <<>>
    BY <1>0, <1>10, Shapes, EmptySeq DEF RowsSound, AdvanceCursor, Working
  <2>2. PICK rest : rest = Tail(frame[p].todo)
    OBVIOUS
  <2>3. /\ rest \in Seq(Nat) /\ Len(rest) = Len(frame[p].todo) - 1
        /\ \A i \in 1 .. Len(rest) : rest[i] = frame[p].todo[i + 1]
    BY <2>1, <2>2, HeadTailProperties
  <2>4. PICK n \in Nat : n = Len(frame[p].todo) /\ DOMAIN frame[p].todo = 1 .. n
    BY <2>1, LenProperties
  <2>5. n > 1 /\ Len(rest) = n - 1 /\ DOMAIN rest = 1 .. n - 1
    BY <1>10, <2>3, <2>4, LenProperties
  <2>6. /\ \A i \in 1 .. n : frame[p].todo[i] = row + i - 1
        /\ row + n - 1 <= Len(log) /\ Passed(p, row)
    BY <2>1, <2>4 DEF RowSound
  <2>7. ASSUME NEW i \in DOMAIN rest PROVE rest[i] = (row + 1) + i - 1
    <3>0. i \in 1 .. Len(rest) /\ i \in 1 .. n - 1
      BY <2>5, <2>7
    <3>1. i \in Nat /\ i + 1 \in 1 .. n /\ rest[i] = frame[p].todo[i + 1]
      <4>1. rest[i] = frame[p].todo[i + 1]
        BY <2>3, <3>0
      <4> QED
        BY <3>0, <4>1
    <3>2. \A j \in 1 .. n : frame[p].todo[j] = row + j - 1
      BY <2>6
    <3>3. rest[i] = row + (i + 1) - 1
      BY <3>1, <3>2
    <3> QED
      BY <3>1, <3>3
  <2>8. row + 1 \in Nat \ {0} /\ (row + 1) - 1 = row /\ row <= Len(log)
        /\ (row + 1) + (n - 1) - 1 <= Len(log')
    <3>1. PICK old \in Nat, new \in Nat : old = Len(log) /\ new = Len(log') /\ old <= new
      BY <1>2
    <3>2. row + n - 1 <= old /\ n > 1
      BY <2>5, <2>6, <3>1
    <3>3. row <= old /\ (row + 1) + (n - 1) - 1 <= new
      BY <3>1, <3>2
    <3> QED
      BY <3>1, <3>3
  <2>9. Passed(p, (row + 1) - 1)'
    BY <1>1, <2>6, <2>8, PassedStays
  <2>10. Len(rest) > 0 /\ (row + 1) + Len(rest) - 1 <= Len(log')
    BY <2>5, <2>8
  <2> QED
    BY <1>3, <1>10, <2>2, <2>7, <2>8, <2>9, <2>10
<1>11. CASE Step(p) \/ Transient(p) \/ AdvanceFails(p)
  BY <1>7, <1>8, <1>9, <1>10, <1>11, FrameMoves DEF InStep, Idle
<1>12. ASSUME NEW x \in Engine, Crash(x) PROVE frame'[p] = frame[p]
  BY <1>12 DEF Crash, InStep, Idle
<1> QED
  BY <1>0, <1>6, <1>11, <1>12, OwnStep, WhoMoves

LEMMA PassedNext ==
    ASSUME TypeOK, BootSound, LeasesSound, RowsSound, PassedSound, [Next]_vars
    PROVE  PassedSound'
<1>0. /\ FrameOK /\ LogOK /\ CursorOK /\ LogOK' /\ LeasesSound' /\ Len(log) \in Nat
      /\ handled \in [Consumer -> SUBSET Names] /\ waived \in [Consumer -> SUBSET Names]
  BY LogNext, LeasesNext DEF TypeOK, LogOK, GhostsOK
<1>1. ASSUME NEW c \in Consumer PROVE Passed(c, At(c))'
  <2>0. PICK at \in Nat : at = At(c)
    BY <1>0, AtIs
  <2>1. ASSUME NEW pos \in Nat, Passed(c, pos)', cursor'[c] \in {pos, cursor[c]},
               cursor'[c] = cursor[c] => at <= pos
        PROVE  Passed(c, At(c))'
    <3>1. PICK new \in Nat : new = At(c)' /\ new <= pos
      BY <1>0, <2>0, <2>1 DEF At, CursorOK
    <3>2. Len(log') \in Nat /\ DOMAIN log' = 1 .. Len(log')
      BY <1>0 DEF LogOK
    <3> QED
      BY <2>1, <3>1, <3>2 DEF Passed
  <2>2. Passed(c, at)'
    <3>1. Passed(c, at) /\ ((\E x \in Engine : Clamped(x)) => at <= Len(log))
      BY <2>0 DEF PassedSound, BootSound
    <3> QED
      BY <3>1, PassedStays
  <2>3. CASE cursor'[c] = cursor[c]
    BY <2>1, <2>2, <2>3
  <2>4. ASSUME NEW x \in Engine, cursor'[c] = tip[x], tip[x] < At(c) PROVE Passed(c, At(c))'
    <3>1. PICK low \in Nat : low = tip[x] /\ low <= at
      BY <2>0, <2>4 DEF TypeOK, BootOK
    <3>2. Len(log') \in Nat /\ DOMAIN log' = 1 .. Len(log')
      BY <1>0 DEF LogOK
    <3>3. Passed(c, low)'
      BY <2>2, <3>1, <3>2 DEF Passed
    <3>4. CASE cursor'[c] # cursor[c]
      BY <2>1, <2>4, <3>1, <3>3, <3>4
    <3> QED
      BY <2>3, <3>4
  <2>5. ASSUME NEW x \in Engine, BootSeed(x), c \in cast \cap Reactor, cursor'[c] = Seed(c)
        PROVE  Passed(c, At(c))'
    <3>1. log' = log /\ handled' = handled
      BY <2>5 DEF BootSeed, ghosts, bounds
    <3>2. CASE cursor'[c] # cursor[c]
      <4>1. PICK seed \in Nat : seed = Seed(c) /\ cursor'[c] = seed
        BY <1>0, <2>5, <3>2, StartsKnown DEF Seed
      <4>2. waived'[c] = waived[c] \cup (IF seed > at THEN Upto(seed) \ Upto(at) ELSE {})
        BY <2>0, <2>5, <4>1 DEF BootSeed
      <4>3. Passed(c, seed)'
        <5> SUFFICES ASSUME NEW i \in DOMAIN log, Matches(log[i]), i <= seed
                     PROVE  log[i].n \in handled[c] \cup waived'[c]
          BY <3>1 DEF Passed, Matches
        <5>1. i \in Nat
          BY <1>0 DEF LogOK
        <5>2. log[i].n \in Upto(seed)
          BY DEF Upto, Positions
        <5>3. Upto(at) \subseteq handled[c] \cup waived[c]
          BY <2>0 DEF Upto, Positions, PassedSound, Passed
        <5>4. CASE i <= at
          <6>1. log[i].n \in Upto(at)
            BY <5>4 DEF Upto, Positions
          <6> QED
            BY <4>2, <5>3, <6>1
        <5>5. CASE i > at
          <6>1. seed > at
            BY <5>1, <5>5
          <6> QED
            BY <4>2, <5>2, <5>3, <6>1
        <5> QED
          BY <5>1, <5>4, <5>5
      <4> QED
        BY <2>1, <3>2, <4>1, <4>3
    <3> QED
      BY <2>3, <3>2
  <2>6. ASSUME c \in Projector, AdvanceCursor(c), cursor'[c] = Row(c), At(c) < Row(c)
        PROVE  Passed(c, At(c))'
    <3>1. InStep(c) /\ frame[c].pc = "advance" /\ RowSound(c)
      BY <2>6 DEF AdvanceCursor, Working, InStep, RowsSound
    <3>2. PICK row \in Nat : row = Row(c) /\ row <= Len(log) /\ at < row
      BY <1>0, <2>0, <2>6, <3>1, RowIs DEF LogOK
    <3>3. Passed(c, row)'
      BY <3>1, <3>2, PassedStays DEF RowSound
    <3> QED
      BY <2>0, <2>1, <2>6, <3>2, <3>3
  <2>7. ASSUME c \in Reactor, PersistFloor(c), cursor'[c] = scan[c], At(c) < scan[c]
        PROVE  Passed(c, At(c))'
    <3>1. holder[c] # None
      BY <2>7 DEF PersistFloor
    <3>2. PICK pos \in Nat : pos = scan[c] /\ pos <= Len(log) /\ at < pos
      BY <2>0, <2>7, <3>1 DEF LeasesSound
    <3>3. Passed(c, pos)'
      BY <2>7, <3>1, <3>2, PassedStays DEF PassedSound
    <3> QED
      BY <2>0, <2>1, <2>7, <3>2, <3>3
  <2> QED
    BY <2>3, <2>4, <2>5, <2>6, <2>7, CursorMoves
<1>2. ASSUME NEW r \in Reactor, holder'[r] # None PROVE Passed(r, scan[r])'
  <2>0. r \in Consumer
    BY DEF Consumer
  <2>1. ~Restore /\ \A i \in DOMAIN log : i \in DOMAIN log' /\ log'[i] = log[i]
    BY <1>2, <2>0, LogStands
  <2>2. CASE \E x \in Engine : Lease(x, r)
    <3>1. cursor' = cursor /\ scan'[r] = At(r)
      BY <2>2 DEF Lease, stores, TypeOK, ScanOK
    <3>2. scan'[r] = At(r)'
      BY <3>1 DEF At
    <3>3. Passed(r, At(r))'
      BY <1>1, <2>0
    <3> QED
      BY <3>2, <3>3 DEF Passed
  <2>3. CASE Scan(r)
    <3> PICK upto \in Nat :
           /\ holder[r] \in Engine /\ scan[r] \in Nat
           /\ scan[r] < upto /\ upto <= Len(log)
           /\ scan' = [scan EXCEPT ![r] = upto]
           /\ handled' = [handled EXCEPT ![r] = @ \cup
                  {log[i].n : i \in {j \in scan[r] + 1 .. upto : Matches(log[j])}}]
      BY <2>3, ScanIs
    <3>1. log' = log /\ waived' = waived /\ holder' = holder
      BY <2>3 DEF Scan, stores
    <3>2. Passed(r, scan[r])
      BY <1>2, <3>1 DEF PassedSound
    <3>3. scan'[r] = upto
      BY DEF TypeOK, ScanOK
    <3>4. handled'[r] = handled[r] \cup
             {log[i].n : i \in {j \in scan[r] + 1 .. upto : Matches(log[j])}}
      BY <1>0, <2>0
    <3>5. ASSUME NEW i \in DOMAIN log, Matches(log[i]), i <= upto
          PROVE  log[i].n \in handled'[r] \cup waived[r]
      <4>1. i \in Nat
        BY <1>0 DEF LogOK
      <4>2. CASE i <= scan[r]
        BY <3>2, <3>4, <3>5, <4>2 DEF Passed
      <4>3. CASE i > scan[r]
        <5>1. i \in scan[r] + 1 .. upto
          BY <3>5, <4>1, <4>3
        <5> QED
          BY <3>4, <3>5, <5>1
      <4> QED
        BY <4>1, <4>2, <4>3
    <3> QED
      BY <3>1, <3>3, <3>5 DEF Passed, Matches
  <2>4. CASE holder'[r] = holder[r] /\ scan'[r] = scan[r]
    <3>1. PICK pos \in Nat : pos = scan[r] /\ pos <= Len(log)
      BY <1>2, <2>4 DEF LeasesSound
    <3>2. Passed(r, pos)'
      BY <1>2, <2>0, <2>4, <3>1, PassedStays DEF PassedSound
    <3> QED
      BY <2>4, <3>1, <3>2 DEF Passed
  <2> QED
    BY <1>2, <2>2, <2>3, <2>4, ScanStays DEF TypeOK
<1> QED
  BY <1>1, <1>2 DEF PassedSound

-----------------------------------------------------------------------------
(* The registry.                                                            *)

\* How a step changes the registry of its projector: hydration, or a fold.
LEMMA RegMoves ==
    ASSUME RegOK, NEW p \in Projector, Step(p) \/ Transient(p) \/ AdvanceFails(p)
    PROVE  \/ reg'[p] = reg[p]
           \/ BeginStep(p) /\ reg'[p] = Hydrated(p) /\ reg[p] = None
           \/ /\ Working(p, "row")
              /\ reg'[p] = reg[p] \cup (IF Foldable(Row(p)) THEN {Row(p)} ELSE {})
<1>0. reg \in [Projector -> (SUBSET Nat) \cup {None}]
  BY DEF RegOK
<1>1. CASE BeginStep(p)
  BY <1>0, <1>1 DEF BeginStep
<1>2. CASE Project(p) \/ Refuse(p) \/ Transient(p)
  <2>1. Working(p, "row") /\ Fold(p)
    BY <1>2 DEF Project, Refuse, Transient
  <2> QED
    BY <1>0, <2>1 DEF Fold
<1>3. CASE PassRow(p) \/ Poison(p) \/ ParkAppend(p) \/ AdvanceCursor(p) \/ AdvanceFails(p)
  BY <1>3 DEF PassRow, Poison, ParkAppend, AdvanceCursor, AdvanceFails
<1> QED
  BY <1>1, <1>2, <1>3 DEF Step

\* A row whose body has run is folded, or not foldable.
LEMMA RowIsFolded ==
    ASSUME RegOK, NEW p \in Projector, RegistrySound,
           \/ PassRow(p) \/ Project(p) \/ ParkAppend(p)
           \/ Poison(p) \/ Refuse(p) \/ Transient(p),
           Foldable(Row(p))
    PROVE  Row(p) \in reg'[p]
<1>0. reg \in [Projector -> (SUBSET Nat) \cup {None}]
  BY DEF RegOK
<1>1. CASE Project(p) \/ Refuse(p) \/ Transient(p)
  BY <1>0, <1>1 DEF Project, Refuse, Transient, Fold
<1>2. CASE PassRow(p) \/ Poison(p)
  BY <1>2 DEF PassRow, Poison, Foldable, Matches
<1>3. CASE ParkAppend(p)
  BY <1>3 DEF ParkAppend, Working, RegistrySound
<1> QED
  BY <1>1, <1>2, <1>3

\* What is at or below a projector's new cursor was below the old one, or is
\* at most the row its step has finished.
LEMMA CursorOfProjector ==
    ASSUME TypeOK, RowsSound, LeasesSound, [Next]_vars, NEW p \in Projector
    PROVE  \/ At(p)' <= At(p) /\ At(p)' \in Nat
           \/ AdvanceCursor(p) /\ At(p)' \in Nat /\ At(p)' <= Row(p)
<1>0. p \in Consumer /\ p \notin Reactor /\ CursorOK /\ FrameOK /\ LogOK
  BY ConsumersDiffer DEF Consumer, TypeOK
<1>1. At(p) \in Nat
  BY <1>0, AtIs
<1>2. CASE cursor'[p] = cursor[p]
  BY <1>1, <1>2 DEF At
<1>3. ASSUME NEW x \in Engine, cursor'[p] = tip[x], tip[x] < At(p)
      PROVE  At(p)' <= At(p) /\ At(p)' \in Nat
  BY <1>1, <1>3 DEF At, TypeOK, BootOK
<1>4. ASSUME AdvanceCursor(p), cursor'[p] = Row(p)
      PROVE  At(p)' \in Nat /\ At(p)' <= Row(p)
  <2>1. Row(p) \in Nat
    BY <1>0, <1>4, RowIs DEF AdvanceCursor, Working, InStep, RowsSound
  <2> QED
    BY <1>4, <2>1 DEF At
<1> QED
  BY <1>0, <1>2, <1>3, <1>4, CursorMoves

LEMMA RegistryNext ==
    ASSUME TypeOK, BootSound, LeasesSound, RowsSound, RegistrySound, [Next]_vars
    PROVE  RegistrySound'
<1>0. /\ FrameOK /\ LogOK /\ LogOK' /\ RegOK /\ CursorOK /\ BootOK /\ AttemptsOK
      /\ LeasesSound' /\ RowsSound
  BY LogNext, LeasesNext DEF TypeOK
<1> SUFFICES ASSUME NEW p \in Projector, InStep(p)' \/ reg'[p] # None
             PROVE  /\ reg'[p] \subseteq DOMAIN log' /\ Prefix(p)'
                    /\ InStep(p)' => \A i \in DOMAIN log' :
                           Foldable(i)' /\ i < Row(p)' => i \in reg'[p]
                    /\ frame'[p].pc \in {"park", "advance"} /\ Foldable(Row(p))'
                           => Row(p)' \in reg'[p]
  BY DEF RegistrySound, InStep
<1>1. p \in Consumer /\ holder'[p] # None
  BY <1>0 DEF LeasesSound, InStep, Idle, Consumer
<1>2. /\ ~Restore /\ Len(log) \in Nat /\ Len(log') \in Nat /\ Len(log) <= Len(log')
      /\ DOMAIN log = 1 .. Len(log) /\ DOMAIN log' = 1 .. Len(log')
      /\ \A i \in DOMAIN log : i \in DOMAIN log' /\ log'[i] = log[i]
  BY <1>0, <1>1, LogStands DEF LogOK
<1>3. At(p) \in Nat /\ At(p) <= Len(log)
  <2>1. holder'[p] \in Engine /\ phase'[holder'[p]] = "run"
    BY <1>0, <1>1 DEF LeasesSound
  <2>2. \E x \in Engine : Clamped(x)
    BY <1>0, <2>1, PhaseMoves DEF BootFence, Clamped
  <2> QED
    BY <1>0, <1>1, <2>2, AtIs DEF BootSound
<1>4. ASSUME reg'[p] \subseteq DOMAIN log, At(p)' \in Nat, At(p)' <= Len(log),
             \A i \in DOMAIN log :
                 Foldable(i) /\ (i <= At(p)' \/ \E j \in reg'[p] : i < j) => i \in reg'[p]
      PROVE  reg'[p] \subseteq DOMAIN log' /\ Prefix(p)'
  <2> SUFFICES ASSUME NEW i \in DOMAIN log', Foldable(i)',
                      i <= At(p)' \/ \E j \in reg'[p] : i < j
               PROVE  i \in reg'[p]
    BY <1>2, <1>4 DEF Prefix
  <2>1. i \in DOMAIN log
    BY <1>2, <1>4
  <2>2. Foldable(i)
    BY <1>2, <2>1 DEF Foldable
  <2> QED
    BY <1>4, <2>1, <2>2
<1>5. ASSUME InStep(p)
      PROVE  /\ reg[p] \subseteq DOMAIN log /\ Prefix(p) /\ RowSound(p)
             /\ \A i \in DOMAIN log : Foldable(i) /\ i < Row(p) => i \in reg[p]
             /\ \E row \in Nat : row = Row(p) /\ row \in DOMAIN log
  BY <1>0, <1>5, RowIs DEF RegistrySound, RowsSound

\* Nothing happens to the projector's memory.
<1>6. CASE frame'[p] = frame[p] /\ reg'[p] = reg[p] /\ ~AdvanceCursor(p)
  <2>1. InStep(p) \/ reg[p] # None
    BY <1>6 DEF InStep
  <2>2. reg[p] \subseteq DOMAIN log /\ Prefix(p) /\ At(p)' \in Nat /\ At(p)' <= At(p)
    BY <1>6, <2>1, CursorOfProjector DEF RegistrySound
  <2>3. reg'[p] \subseteq DOMAIN log' /\ Prefix(p)'
    <3>1. \A i \in DOMAIN log : i <= At(p)' => i <= At(p)
      BY <1>2, <1>3, <2>2
    <3>2. At(p)' <= Len(log)
      BY <1>2, <1>3, <2>2
    <3> QED
      BY <1>4, <1>6, <2>2, <3>1, <3>2 DEF Prefix
  <2>4. Row(p)' = Row(p)
    BY <1>6 DEF Row
  <2>5. CASE InStep(p)
    <3> PICK row \in Nat : row = Row(p) /\ row \in DOMAIN log
      BY <1>5, <2>5
    <3>1. ASSUME NEW i \in DOMAIN log', Foldable(i)', i < row PROVE i \in reg'[p]
      <4>1. i \in DOMAIN log
        BY <1>2, <3>1
      <4>2. Foldable(i)
        BY <1>2, <3>1, <4>1 DEF Foldable
      <4> QED
        BY <1>5, <1>6, <2>5, <3>1, <4>1, <4>2
    <3>2. Foldable(Row(p))' => Foldable(row)
      BY <1>2, <2>4 DEF Foldable
    <3>3. frame'[p].pc \in {"park", "advance"} /\ Foldable(row) => row \in reg'[p]
      BY <1>6 DEF RegistrySound
    <3> QED
      BY <2>3, <2>4, <3>1, <3>2, <3>3
  <2>6. CASE ~InStep(p)
    <3>1. ~InStep(p)' /\ frame'[p].pc \notin {"park", "advance"}
      BY <1>6, <2>6 DEF InStep
    <3> QED
      BY <2>3, <3>1
  <2> QED
    BY <2>5, <2>6

\* A step that keeps the registry or folds its row into it.
<1>7. ASSUME InStep(p), ~AdvanceCursor(p),
             \/ reg'[p] = reg[p]
             \/ reg'[p] = reg[p] \cup (IF Foldable(Row(p)) THEN {Row(p)} ELSE {})
      PROVE  reg'[p] \subseteq DOMAIN log' /\ Prefix(p)'
  <2> PICK row \in Nat : row = Row(p) /\ row \in DOMAIN log
    BY <1>5, <1>7
  <2>1. At(p)' \in Nat /\ At(p)' <= At(p) /\ At(p)' <= Len(log)
    BY <1>0, <1>2, <1>3, <1>7, CursorOfProjector
  <2>2. reg[p] \subseteq reg'[p] /\ reg'[p] \subseteq reg[p] \cup {row} /\ reg[p] \subseteq DOMAIN log
    BY <1>5, <1>7
  <2>3. ASSUME NEW i \in DOMAIN log, Foldable(i), i <= At(p)' \/ \E j \in reg'[p] : i < j
        PROVE  i \in reg'[p]
    <3>1. CASE i <= At(p)'
      <4>1. i <= At(p)
        BY <1>2, <1>3, <2>1, <3>1
      <4> QED
        BY <1>5, <1>7, <2>2, <2>3, <4>1 DEF Prefix
    <3>2. ASSUME NEW j \in reg'[p], i < j PROVE i \in reg'[p]
      <4>1. CASE j = row
        BY <1>5, <1>7, <2>2, <2>3, <3>2, <4>1
      <4>2. CASE j \in reg[p]
        BY <1>5, <1>7, <2>2, <2>3, <3>2, <4>2 DEF Prefix
      <4> QED
        BY <2>2, <4>1, <4>2
    <3> QED
      BY <2>3, <3>1, <3>2
  <2> QED
    BY <1>4, <2>1, <2>2, <2>3
<1>8. CASE BeginStep(p)
  <2>1. reg'[p] = (IF reg[p] = None THEN Hydrated(p) ELSE reg[p]) /\ cursor' = cursor
    BY <1>0, <1>8 DEF BeginStep, RegOK, stores
  <2>2. At(p)' = At(p)
    BY <2>1 DEF At
  <2>3. reg'[p] \subseteq DOMAIN log' /\ Prefix(p)'
    <3>1. CASE reg[p] = None
      <4>1. reg'[p] = {i \in 1 .. At(p) : Foldable(i)}
        BY <2>1, <3>1 DEF Hydrated
      <4>2. reg'[p] \subseteq DOMAIN log
        BY <1>2, <1>3, <4>1
      <4>3. ASSUME NEW i \in DOMAIN log, Foldable(i), i <= At(p)' \/ \E j \in reg'[p] : i < j
            PROVE  i \in reg'[p]
        <5>1. i <= At(p)
          BY <1>2, <1>3, <2>2, <4>1, <4>3
        <5> QED
          BY <1>2, <1>3, <4>1, <4>3, <5>1
      <4> QED
        BY <1>3, <1>4, <2>2, <4>2, <4>3
    <3>2. CASE reg[p] # None
      <4>1. reg'[p] = reg[p] /\ reg[p] \subseteq DOMAIN log /\ Prefix(p)
        BY <2>1, <3>2 DEF RegistrySound
      <4> QED
        BY <1>3, <1>4, <2>2, <4>1 DEF Prefix
    <3> QED
      BY <3>1, <3>2
  <2>4. CASE frame'[p] = Idle
    BY <2>3, <2>4 DEF InStep, Idle
  <2>5. CASE frame'[p].pc = "row" /\ frame'[p].todo = ReadFrom(At(p)) /\ frame'[p].todo # <<>>
    <3> PICK rows : rows = frame'[p].todo
      OBVIOUS
    <3>1. /\ rows \in Seq(Nat) /\ Len(rows) \in Nat \ {0} /\ DOMAIN rows = 1 .. Len(rows)
          /\ \A i \in DOMAIN rows : rows[i] = At(p) + i
      BY <1>0, <1>3, <2>5, ReadsOn, LenProperties
    <3>2. rows[1] = At(p) + 1
      BY <3>1
    <3>3. Row(p)' = At(p) + 1
      BY <3>1, <3>2 DEF Row
    <3>4. ASSUME NEW i \in DOMAIN log', i < Row(p)' PROVE i <= At(p)'
      BY <1>2, <1>3, <2>2, <3>3, <3>4
    <3> QED
      BY <2>3, <2>5, <3>4 DEF Prefix
  <2> QED
    BY <1>8, <2>4, <2>5, FrameMoves, StepPc

\* The steps at a row.
<1>9. CASE /\ PassRow(p) \/ Project(p) \/ ParkAppend(p) \/ Poison(p) \/ Refuse(p) \/ Transient(p)
           /\ frame'[p].todo = frame[p].todo /\ InStep(p)
  <2> PICK row \in Nat : row = Row(p) /\ row \in DOMAIN log
    BY <1>5, <1>9
  <2>1. ~AdvanceCursor(p) /\ ~BeginStep(p)
    BY <1>9, StepPc
  <2>2. \/ reg'[p] = reg[p]
        \/ reg'[p] = reg[p] \cup (IF Foldable(Row(p)) THEN {Row(p)} ELSE {})
    BY <1>0, <1>9, <2>1, RegMoves DEF Step
  <2>3. reg'[p] \subseteq DOMAIN log' /\ Prefix(p)' /\ reg[p] \subseteq reg'[p]
    BY <1>7, <1>9, <2>1, <2>2
  <2>4. Row(p)' = row
    BY <1>9 DEF Row
  <2>5. ASSUME NEW i \in DOMAIN log', Foldable(i)', i < row PROVE i \in reg'[p]
    <3>1. i \in DOMAIN log
      BY <1>2, <2>5
    <3>2. Foldable(i)
      BY <1>2, <2>5, <3>1 DEF Foldable
    <3> QED
      BY <1>5, <1>9, <2>3, <2>5, <3>1, <3>2
  <2>6. Foldable(Row(p))' => row \in reg'[p]
    <3>1. Foldable(Row(p))' => Foldable(Row(p))
      BY <1>2, <2>4 DEF Foldable
    <3> QED
      BY <1>0, <1>9, <3>1, RowIsFolded
  <2> QED
    BY <2>3, <2>4, <2>5, <2>6
<1>10. CASE AdvanceCursor(p)
  <2>1. InStep(p) /\ frame[p].pc = "advance" /\ reg'[p] = reg[p]
    BY <1>10 DEF AdvanceCursor, Working, InStep
  <2> PICK row \in Nat : row = Row(p) /\ row \in DOMAIN log
    BY <1>5, <2>1
  <2>2. \A i \in DOMAIN log : Foldable(i) /\ i <= row => i \in reg[p]
    <3>1. Foldable(row) => row \in reg[p]
      BY <2>1 DEF RegistrySound
    <3> QED
      BY <1>2, <1>5, <2>1, <3>1
  <2>3. reg'[p] \subseteq DOMAIN log' /\ Prefix(p)'
    <3>1. At(p)' \in Nat /\ At(p)' <= Len(log)
      BY <1>0, <1>2, <1>3, CursorOfProjector
    <3>2. \A i \in DOMAIN log : i <= At(p)' => i <= At(p) \/ i <= row
      BY <1>0, <1>2, <1>3, CursorOfProjector
    <3> QED
      BY <1>4, <1>5, <2>1, <2>2, <3>1, <3>2 DEF Prefix
  <2>4. CASE ~InStep(p)'
    BY <2>3, <2>4 DEF InStep
  <2>5. CASE InStep(p)'
    <3>1. /\ Len(frame[p].todo) > 1 /\ frame'[p].pc = "row"
          /\ frame'[p].todo = Tail(frame[p].todo)
      BY <1>10, <2>5, FrameMoves, StepPc DEF InStep, Idle
    <3>2. frame[p].todo \in Seq(Nat) /\ frame[p].todo # <<>>
      BY <1>0, <2>1, <3>1, Shapes, EmptySeq
    <3>3. PICK rest : rest = Tail(frame[p].todo)
      OBVIOUS
    <3>4. /\ rest \in Seq(Nat) /\ Len(rest) = Len(frame[p].todo) - 1
          /\ \A i \in 1 .. Len(rest) : rest[i] = frame[p].todo[i + 1]
      BY <3>2, <3>3, HeadTailProperties
    <3>5. PICK n \in Nat : n = Len(frame[p].todo) /\ DOMAIN frame[p].todo = 1 .. n
      BY <3>2, LenProperties
    <3>6. n > 1 /\ 1 \in 1 .. Len(rest) /\ 2 \in DOMAIN frame[p].todo
      BY <3>1, <3>4, <3>5
    <3>7. frame[p].todo[2] = row + 2 - 1
      BY <1>5, <2>1, <3>6 DEF RowSound
    <3>8. rest[1] = row + 1
      BY <3>4, <3>6, <3>7
    <3>9. Row(p)' = row + 1
      BY <3>1, <3>3, <3>4, <3>8 DEF Row
    <3>10. ASSUME NEW i \in DOMAIN log', Foldable(i)', i < Row(p)' PROVE i \in reg'[p]
      <4>1. i \in DOMAIN log /\ i <= row
        BY <1>2, <3>9, <3>10
      <4>2. Foldable(i)
        BY <1>2, <3>10, <4>1 DEF Foldable
      <4> QED
        BY <2>1, <2>2, <4>1, <4>2
    <3> QED
      BY <2>3, <3>1, <3>10
  <2> QED
    BY <2>4, <2>5
<1>11. CASE frame'[p] = Idle /\ ~AdvanceCursor(p) /\ ~BeginStep(p)
            /\ (Step(p) \/ Transient(p) \/ AdvanceFails(p))
  <2>1. InStep(p)
    BY <1>11 DEF Step, Working, PassRow, Project, ParkAppend, Poison, Refuse, Transient,
       AdvanceFails, InStep
  <2>2. reg'[p] \subseteq DOMAIN log' /\ Prefix(p)'
    BY <1>0, <1>7, <1>11, <2>1, RegMoves
  <2>3. ~InStep(p)' /\ frame'[p].pc \notin {"park", "advance"}
    BY <1>11 DEF InStep, Idle
  <2> QED
    BY <2>2, <2>3
<1>12. CASE Step(p) \/ Transient(p) \/ AdvanceFails(p)
  BY <1>8, <1>9, <1>10, <1>11, <1>12, FrameMoves
<1>13. ASSUME NEW x \in Engine, Crash(x)
       PROVE  frame'[p] = frame[p] /\ reg'[p] = reg[p] /\ ~AdvanceCursor(p)
  <2>1. ~Lost(x, p)
    BY <1>1, <1>13 DEF Crash
  <2> QED
    BY <1>13, <2>1 DEF Crash, AdvanceCursor, bounds
<1> QED
  BY <1>0, <1>6, <1>10, <1>12, <1>13, OwnStep, WhoMoves

-----------------------------------------------------------------------------
(* The cancel fence of a single engine.                                     *)

LEMMA KnownStays ==
    ASSUME TypeOK, LeasesSound, [Next]_vars, NEW x \in Engine, ~Crash(x),
           NEW pos \in Nat, Known(x, pos), pos <= Len(log)
    PROVE  Known(x, pos)'
<1>0. LogOK /\ Len(log) \in Nat /\ DOMAIN log = 1 .. Len(log) /\ fence \in [Engine -> SUBSET Names]
  BY DEF TypeOK, LogOK, BootOK
<1>1. fence[x] \subseteq fence'[x]
  <2>1. ASSUME NEW y \in Engine, BootFence(y) PROVE fence[x] \subseteq fence'[x]
    BY <1>0, <2>1 DEF BootFence
  <2>2. ASSUME NEW y \in Engine, Crash(y) PROVE fence[x] \subseteq fence'[x]
    BY <1>0, <2>2 DEF Crash
  <2>3. ASSUME NEW r \in Reactor, Scan(r) PROVE fence[x] \subseteq fence'[x]
    <3> PICK upto : fence' = [fence EXCEPT ![holder[r]] = @ \cup
               {log[i].n : i \in {j \in scan[r] + 1 .. upto : log[j].kind = "cancel"}}]
      BY <2>3, ScanIs
    <3> QED
      BY <1>0
  <2> QED
    BY <1>0, <2>1, <2>2, <2>3, WhoMoves
<1>2. ASSUME NEW i \in DOMAIN log', i <= pos PROVE i \in DOMAIN log /\ log'[i] = log[i]
  BY <1>0, <1>2, LogMoves
<1> QED
  BY <1>1, <1>2 DEF Known

LEMMA FenceNext ==
    ASSUME OneEngine, TypeOK, BootSound, LeasesSound, RowsSound, FenceSound, [Next]_vars
    PROVE  FenceSound'
<1>0. /\ LogOK /\ LogOK' /\ BootOK /\ ScanOK /\ CursorOK /\ LeasesSound'
      /\ Len(log) \in Nat /\ DOMAIN log = 1 .. Len(log)
      /\ fence \in [Engine -> SUBSET Names]
  BY LogNext, LeasesNext DEF TypeOK, LogOK, BootOK
<1>1. ASSUME NEW x \in Engine, NEW r \in Reactor, phase'[x] = "run" PROVE Known(x, At(r))'
  <2>0. r \in Consumer /\ r \notin Projector /\ At(r) \in Nat
    BY <1>0, ConsumersDiffer, AtIs DEF Consumer
  <2>1. CASE BootFence(x)
    <3>1. log' = log /\ fence'[x] = fence[x] \cup Markers
      BY <1>0, <2>1 DEF BootFence, stores
    <3>2. \A i \in DOMAIN log : log[i].kind = "cancel" => log[i].n \in Markers
      BY DEF Markers, Positions
    <3> QED
      BY <3>1, <3>2 DEF Known
  <2>2. CASE phase[x] = "run"
    <3>1. /\ Known(x, At(r)) /\ At(r) <= Len(log)
          /\ \A y \in Engine : ~BootClamp(y) /\ ~BootSeed(y)
      BY <2>0, <2>2 DEF FenceSound, BootSound, Clamped, OneEngine, BootClamp, BootSeed
    <3>2. ~Crash(x)
      BY <1>0, <1>1 DEF Crash, BootOK
    <3>3. CASE cursor'[r] = cursor[r]
      <4>1. PICK at \in Nat : at = At(r) /\ at = At(r)'
        BY <2>0, <3>3 DEF At
      <4>2. Known(x, at)'
        BY <3>1, <3>2, <4>1, KnownStays
      <4> QED
        BY <4>1, <4>2 DEF Known
    <3>4. CASE PersistFloor(r) /\ cursor'[r] = scan[r]
      <4>1. holder[r] = x
        BY <2>0, <3>4 DEF PersistFloor, LeasesSound, OneEngine
      <4>2. PICK pos \in Nat : pos = scan[r] /\ pos <= Len(log) /\ Known(x, pos)
        BY <3>4, <4>1 DEF PersistFloor, LeasesSound, FenceSound
      <4>3. Known(x, pos)'
        BY <3>2, <4>2, KnownStays
      <4>4. PICK new \in Nat : new = At(r)' /\ new <= pos
        BY <3>4, <4>2 DEF At
      <4>5. \A i \in DOMAIN log' : i \in Nat
        BY <1>0 DEF LogOK
      <4> QED
        BY <4>3, <4>4, <4>5 DEF Known
    <3> QED
      BY <2>0, <3>1, <3>3, <3>4, CursorMoves
  <2> QED
    BY <1>0, <1>1, <2>1, <2>2, PhaseMoves
<1>2. ASSUME NEW r \in Reactor, holder'[r] # None PROVE Known(holder[r], scan[r])'
  <2>0. r \in Consumer
    BY DEF Consumer
  <2>1. PICK x \in Engine : x = holder'[r] /\ phase'[x] = "run"
    BY <1>0, <1>2, <2>0 DEF LeasesSound
  <2>2. CASE \E y \in Engine : Lease(y, r)
    <3>1. scan'[r] = At(r)'
      BY <1>0, <2>2 DEF Lease, ScanOK, stores, At
    <3>2. Known(x, At(r))'
      BY <1>1, <2>1
    <3> QED
      BY <2>1, <3>1, <3>2 DEF Known
  <2>3. CASE Scan(r)
    <3> PICK upto \in Nat :
           /\ scan[r] \in Nat /\ scan[r] < upto
           /\ scan' = [scan EXCEPT ![r] = upto]
           /\ fence' = [fence EXCEPT ![holder[r]] = @ \cup
                  {log[i].n : i \in {j \in scan[r] + 1 .. upto : log[j].kind = "cancel"}}]
      BY <2>3, ScanIs
    <3>1. log' = log /\ holder'[r] = holder[r] /\ holder[r] = x
      BY <2>1, <2>3 DEF Scan, stores
    <3>2. Known(x, scan[r]) /\ scan'[r] = upto
      BY <1>0, <1>2, <3>1 DEF FenceSound, ScanOK
    <3>3. fence'[x] = fence[x] \cup
             {log[i].n : i \in {j \in scan[r] + 1 .. upto : log[j].kind = "cancel"}}
      BY <1>0, <3>1
    <3>4. ASSUME NEW i \in DOMAIN log, log[i].kind = "cancel", i <= upto
          PROVE  log[i].n \in fence'[x]
      <4>1. CASE i <= scan[r]
        BY <3>2, <3>3, <3>4, <4>1 DEF Known
      <4>2. CASE i > scan[r]
        <5>1. i \in scan[r] + 1 .. upto
          BY <1>0, <3>4, <4>2
        <5> QED
          BY <3>3, <3>4, <5>1
      <4> QED
        BY <1>0, <4>1, <4>2
    <3> QED
      BY <3>1, <3>2, <3>4 DEF Known
  <2>4. CASE holder'[r] = holder[r] /\ scan'[r] = scan[r]
    <3>1. PICK pos \in Nat : pos = scan[r] /\ pos <= Len(log) /\ Known(x, pos)
      BY <1>2, <2>1, <2>4 DEF LeasesSound, FenceSound
    <3>2. ~Crash(x)
      BY <1>0, <2>1 DEF Crash, BootOK
    <3>3. Known(x, pos)'
      BY <3>1, <3>2, KnownStays
    <3> QED
      BY <2>1, <2>4, <3>1, <3>3 DEF Known
  <2> QED
    BY <1>0, <1>2, <2>2, <2>3, <2>4, ScanStays
<1> QED
  BY <1>1, <1>2 DEF FenceSound

-----------------------------------------------------------------------------
(* The theorems.                                                            *)

LEMMA InitIsSound == Init => IInv /\ FenceSound
<1> SUFFICES ASSUME Init PROVE IInv /\ FenceSound
  OBVIOUS
<1> USE DEF Init
<1>1. log = <<>> /\ log \in Seq(Events) /\ Len(log) = 0 /\ DOMAIN log = {}
  OBVIOUS
<1>2. \A c \in Consumer : At(c) = 0
  BY DEF At
<1>3. TypeOK
  BY <1>1 DEF TypeOK, LogOK, CursorOK, BootOK, FrameOK, AttemptsOK, RegOK, ScanOK, GhostsOK,
     Frames, Idle
<1>4. BootSound /\ LeasesSound
  BY <1>1, <1>2 DEF BootSound, LeasesSound, Clamped, Consumer
<1>5. RowsSound /\ PassedSound /\ RegistrySound /\ FenceSound
  BY <1>1 DEF RowsSound, PassedSound, RegistrySound, FenceSound, InStep, Idle, Passed, Consumer
<1> QED
  BY <1>3, <1>4, <1>5 DEF IInv

LEMMA NextIsSound == IInv /\ [Next]_vars => IInv'
<1> SUFFICES ASSUME IInv, [Next]_vars PROVE IInv'
  OBVIOUS
<1>1. TypeOK /\ BootSound /\ LeasesSound /\ RowsSound /\ PassedSound /\ RegistrySound
  BY DEF IInv
<1>2. CursorOK'
  <2>1. CASE Consumer = {}
    <3>1. Projector = {} /\ Reactor = {}
      BY <2>1 DEF Consumer
    <3>2. ASSUME NEW x \in Engine, BootClamp(x)
          PROVE  CursorOK'
      BY <2>1, <3>2 DEF BootClamp, Clamp, CursorOK
    <3>3. ASSUME NEW x \in Engine, BootSeed(x)
          PROVE  CursorOK'
      BY <2>1, <3>3 DEF BootSeed, CursorOK
    <3>4. CASE cursor' = cursor
      BY <1>1, <3>4 DEF TypeOK, CursorOK
    <3> QED
      BY <1>1, <3>1, <3>2, <3>3, <3>4, WhoMoves
  <2>2. CASE Consumer # {}
    BY <1>1, <2>2, CursorMoves DEF CursorOK
  <2> QED
    BY <2>1, <2>2
<1>3. TypeOK'
  BY <1>1, <1>2, LogNext, BootKind, FrameNext, SlotsNext, ScanNext, GhostsNext DEF TypeOK
<1>4. BootSound' /\ LeasesSound' /\ RowsSound' /\ PassedSound' /\ RegistrySound'
  BY <1>1, BootNext, LeasesNext, RowsNext, PassedNext, RegistryNext
<1> QED
  BY <1>3, <1>4 DEF IInv

LEMMA IInvHolds == Spec => []IInv
<1>1. Init => IInv
  BY InitIsSound
<1> QED
  BY <1>1, NextIsSound, PTL DEF Spec

\* A projector or a reactor never moves its durable cursor past an event it has
\* not handled, parked ones included, unless its boot seeded it past that
\* event: ProjectionRunner::step, on_failure, clamp_ahead_of.
THEOREM NothingIsSkipped == Spec => []NothingSkipped
<1>1. IInv => NothingSkipped
  <2> SUFFICES ASSUME IInv, NEW c \in Consumer
               PROVE  Upto(At(c)) \subseteq handled[c] \cup waived[c]
    BY DEF NothingSkipped
  <2> QED
    BY DEF IInv, PassedSound, Passed, Upto, Positions
<1> QED
  BY <1>1, IInvHolds, PTL

\* A registry never lacks a foldable event below its cursor or before one it
\* has, however its step ended: hydrate, fold, park and retry in
\* ProjectionRunner::step.
THEOREM RegistriesHaveNoHole == Spec => []StateIsPrefix
<1>1. IInv => StateIsPrefix
  BY DEF IInv, RegistrySound, Prefix, StateIsPrefix
<1> QED
  BY <1>1, IInvHolds, PTL

\* Where one engine runs the consumers, "cancellation is durable across
\* restarts": EngineBuilder::build reads the fence after it has seeded the
\* reactors, and a scan adds what it reads.  The hypothesis is needed: a
\* standby engine's fence can be older than the cursor it takes over.
THEOREM FenceCoversTheCursor ==
    ASSUME OneEngine
    PROVE  Spec => []FenceCoversCursor
<1>1. Init => IInv /\ FenceSound
  BY InitIsSound
<1>2. IInv /\ FenceSound /\ [Next]_vars => FenceSound'
  BY FenceNext DEF IInv
<1>3. FenceSound => FenceCoversCursor
  BY DEF FenceSound, FenceCoversCursor, Known, Positions
<1> QED
  BY <1>1, <1>2, <1>3, NextIsSound, PTL DEF Spec

=============================================================================
