--------------------------- MODULE KurrentLog ---------------------------
(***************************************************************************)
(* Appends to one stream of the Kurrent backend                            *)
(* (causal_replay/src/kurrent_event_log.rs), with the event id registry    *)
(* (causal/src/event_id_registry.rs) in front of it and the shared         *)
(* classification of a batch against a window (causal_replay/src/          *)
(* reconcile.rs).  The server is external: it appends a batch atomically   *)
(* when the expected head is the head, and serves reads.  Everything else  *)
(* is a separate round trip, between which other calls and foreign writers *)
(* move the stream.                                                        *)
(*                                                                         *)
(* A batch is [events, want]: a sequence of [id, body] and the number of   *)
(* rows it expects the stream to hold, or AnyHead.  A caller repeats a     *)
(* batch with the expectation of its first attempt.                        *)
(***************************************************************************)
EXTENDS Naturals, Sequences, FiniteSets

CONSTANTS Caller, Batch, AnyHead, NoBatch,
          Other,                  \* the id of every row of a foreign writer
          HasRegistry,            \* with_event_id_registry was called
          Window,                 \* max(4 * batch, 64), scaled down
          Attempts,               \* 16 in the code
          MaxLog, MaxCalls, MaxFaults     \* bounds of the exploration

VARIABLES log,                    \* the stream: rows [id, body] by revision + 1
          registry,               \* id -> coordinates, 0 when not registered
          call,                   \* the call each caller is in
          acked,                  \* history: batches some call answered Ok
          calls, faults
vars == <<log, registry, call, acked, calls, faults>>

IdsOf(b) == {b.events[i].id : i \in DOMAIN b.events}
Ids == UNION {IdsOf(b) : b \in Batch}
LastId(b) == b.events[Len(b.events)].id
Here(id) == {p \in DOMAIN log : log[p].id = id}
Smallest(S) == CHOOSE x \in S : \A y \in S : x <= y

Bodies == UNION {{b.events[i].body : i \in DOMAIN b.events} : b \in Batch}
Row == [id : Ids \cup {Other}, body : Bodies \cup {Other}]

\* What callers do: batches are not empty and mint an id once; a batch that
\* expects a revision is only ever sent with that expectation.
ASSUME BatchAssumption ==
    /\ AnyHead \notin Nat /\ NoBatch \notin Batch /\ Other \notin Ids
    /\ Window \in Nat /\ Attempts \in Nat
    /\ \A b \in Batch :
         /\ b.events \in Seq(Row) /\ b.events # <<>>
         /\ b.want \in Nat \cup {AnyHead}
         /\ \A i, j \in DOMAIN b.events : b.events[i].id = b.events[j].id => i = j
         /\ b.want # AnyHead => \A c \in Batch \ {b} : IdsOf(b) \cap IdsOf(c) = {}

Busy == {"lookup", "scan", "cas", "register", "exact", "window"}
Answered == {"ok", "error", "overlap", "divergent", "conflict"}
Idle == [pc |-> "idle", batch |-> NoBatch, head |-> 0, tries |-> 0, at |-> 0,
         known |-> FALSE, landed |-> FALSE]

TypeOK ==
    /\ log \in Seq(Row)
    /\ registry \in [Ids -> Nat]
    /\ call \in [Caller -> [pc : {"idle"} \cup Busy \cup Answered,
                            batch : Batch \cup {NoBatch}, head : Nat, tries : Nat,
                            at : Nat, known : BOOLEAN, landed : BOOLEAN]]
    /\ acked \subseteq Batch

Init ==
    /\ log = <<>>
    /\ registry = [id \in Ids |-> 0]
    /\ call = [c \in Caller |-> Idle]
    /\ acked = {}
    /\ calls = 0
    /\ faults = 0

-----------------------------------------------------------------------------
(* Classifications.                                                         *)

\* A batch against the rows lo .. hi: whole and in order, partly, not at all.
\* As the first version did: the last id decides.
WrongReconcile(b, lo, hi) ==
    IF \E p \in lo .. hi : log[p].id = LastId(b) THEN "redelivery" ELSE "absent"

Reconcile(b, lo, hi) ==
    IF \E f \in [DOMAIN b.events -> lo .. hi] :
          /\ \A i \in DOMAIN f : log[f[i]].id = b.events[i].id
          /\ \A i, j \in DOMAIN f : i < j => f[i] < f[j]
    THEN "redelivery"
    ELSE IF \E p \in lo .. hi : log[p].id \in IdsOf(b) THEN "overlap" ELSE "absent"

First(id, lo, hi) == Smallest(Here(id) \cap lo .. hi)

\* Every row of the window the batch redelivers says the same.
Identical(b, lo, hi) ==
    \A i \in DOMAIN b.events :
        LET id == b.events[i].id
        IN  Here(id) \cap lo .. hi # {} => log[First(id, lo, hi)].body = b.events[i].body

\* A batch against the registry.
Classify(b) ==
    LET found == {id \in IdsOf(b) : registry[id] # 0}
    IN  IF found = {} THEN "absent"
        ELSE IF found = IdsOf(b) THEN "redelivery" ELSE "overlap"

-----------------------------------------------------------------------------
(* Calls.                                                                   *)

Answer(c, pc, at) == [call EXCEPT ![c].pc = pc, ![c].at = at]
Acked(c, pc) == acked' = acked \cup (IF pc = "ok" THEN {call[c].batch} ELSE {})

\* append_to_stream is called: Any appends take the scan-then-CAS path.
Begin(c, b) ==
    /\ call[c].pc \notin Busy
    /\ calls < MaxCalls
    /\ calls' = calls + 1
    /\ call' = [call EXCEPT ![c] =
            [pc |-> IF b.want # AnyHead THEN "exact"
                    ELSE IF HasRegistry THEN "lookup" ELSE "scan",
             batch |-> b, head |-> 0, tries |-> 0, at |-> 0,
             known |-> b \in acked, landed |-> FALSE]]
    /\ UNCHANGED <<log, registry, acked, faults>>

\* The registry is asked once, before the first scan.
Lookup(c) ==
    LET b == call[c].batch
        pc == CASE Classify(b) = "redelivery" -> "ok"
                [] Classify(b) = "absent" -> "scan" [] OTHER -> "overlap"
    IN  /\ call[c].pc = "lookup"
        /\ call' = Answer(c, pc, IF pc = "ok" THEN registry[LastId(b)] ELSE 0)
        /\ Acked(c, pc)
        /\ UNCHANGED <<log, registry, calls, faults>>

\* What a window says of the batch, and the row a redelivery is answered with.
Seen(c, lo, hi, absent) ==
    LET b == call[c].batch
        found == Reconcile(b, lo, hi)
    IN  CASE found = "absent" -> Answer(c, absent, 0)
          [] found = "redelivery" /\ ~Identical(b, lo, hi) -> Answer(c, "divergent", 0)
          [] found = "redelivery" /\ Identical(b, lo, hi) ->
               Answer(c, IF b.want = AnyHead THEN "register" ELSE "ok",
                      First(LastId(b), lo, hi))
          [] OTHER -> Answer(c, "overlap", 0)

\* The tail window and the head are read.
Scan(c) ==
    LET lo == IF Len(log) > Window THEN Len(log) - Window + 1 ELSE 1
    IN  /\ call[c].pc = "scan"
        /\ IF call[c].tries = Attempts
           THEN call' = Answer(c, "error", 0)
           ELSE call' = [Seen(c, lo, Len(log), "cas") EXCEPT ![c].head = Len(log)]
        /\ UNCHANGED <<log, registry, acked, calls, faults>>

Landed(c, pc) ==
    /\ log' = log \o call[c].batch.events
    /\ Len(log') <= MaxLog
    /\ call' = [call EXCEPT ![c].pc = pc, ![c].at = Len(log'), ![c].landed = TRUE]

\* The append at the head that was observed; a head that moved is scanned again.
WrongCasAny(c) ==
    /\ call[c].pc = "cas"
    /\ Landed(c, "register")
    /\ UNCHANGED <<registry, acked, calls, faults>>

CasAny(c) ==
    /\ call[c].pc = "cas"
    /\ \/ call[c].head = Len(log) /\ Landed(c, "register")
       \/ /\ call[c].head # Len(log)
          /\ call' = [call EXCEPT ![c].pc = "scan", ![c].tries = @ + 1]
          /\ UNCHANGED log
    /\ UNCHANGED <<registry, acked, calls, faults>>

\* Only an append registers: a redelivery found in the window does not heal.
WrongRegister(c) ==
    /\ call[c].pc = "register"
    /\ registry' = [id \in Ids |->
            IF HasRegistry /\ call[c].landed /\ id \in IdsOf(call[c].batch) /\ registry[id] = 0
            THEN call[c].at ELSE registry[id]]
    /\ call' = Answer(c, "ok", call[c].at)
    /\ Acked(c, "ok")
    /\ UNCHANGED <<log, calls, faults>>

\* register_batch: the first coordinates of an id stay; then the call answers.
Register(c) ==
    /\ call[c].pc = "register"
    /\ registry' = [id \in Ids |->
            IF HasRegistry /\ id \in IdsOf(call[c].batch) /\ registry[id] = 0
            THEN call[c].at ELSE registry[id]]
    /\ call' = Answer(c, "ok", call[c].at)
    /\ Acked(c, "ok")
    /\ UNCHANGED <<log, calls, faults>>

\* The append of a caller that expects a revision.
CasExact(c) ==
    /\ call[c].pc = "exact"
    /\ IF call[c].batch.want = Len(log)
       THEN Landed(c, "ok") /\ Acked(c, "ok")
       ELSE /\ call' = [Answer(c, IF Len(log) > call[c].batch.want
                                  THEN "window" ELSE "conflict", 0)
                         EXCEPT ![c].head = Len(log)]
            /\ UNCHANGED <<log, acked>>
    /\ UNCHANGED <<registry, calls, faults>>

\* The rows past the expectation, up to the head the refusal named.
ReadWindow(c) ==
    /\ call[c].pc = "window"
    /\ call' = Seen(c, call[c].batch.want + 1, call[c].head, "conflict")
    /\ Acked(c, call'[c].pc)
    /\ UNCHANGED <<log, registry, calls, faults>>

\* A round trip fails, or the caller dies: nothing more of the call happens.
Fails(c) ==
    /\ call[c].pc \in Busy
    /\ faults < MaxFaults
    /\ faults' = faults + 1
    /\ call' = Answer(c, "error", 0)
    /\ UNCHANGED <<log, registry, acked, calls>>

\* The append lands and its reply is lost.
ReplyLost(c) ==
    /\ \/ call[c].pc = "cas" /\ call[c].head = Len(log)
       \/ call[c].pc = "exact" /\ call[c].batch.want = Len(log)
    /\ faults < MaxFaults
    /\ faults' = faults + 1
    /\ Landed(c, "error")
    /\ UNCHANGED <<registry, acked, calls>>

\* Somebody else writes to the stream.
Foreign ==
    /\ Len(log) < MaxLog
    /\ log' = Append(log, [id |-> Other, body |-> Other])
    /\ UNCHANGED <<registry, call, acked, calls, faults>>

Next ==
    \/ \E c \in Caller :
         \/ \E b \in Batch : Begin(c, b)
         \/ Lookup(c) \/ Scan(c) \/ CasAny(c) \/ Register(c)
         \/ CasExact(c) \/ ReadWindow(c) \/ Fails(c) \/ ReplyLost(c)
    \/ Foreign

Spec == Init /\ [][Next]_vars

-----------------------------------------------------------------------------
(* Properties.                                                              *)

\* A batch some call answered Ok is not appended by any call that starts after
\* the answer, whatever was written over it since: the answer comes after the
\* ids are registered (append, or heal of a redelivery the window recognised).
AnsweredNeverRepeated ==
    \A c \in Caller : call[c].known => ~call[c].landed

\* An id is in the stream twice only when more than a window of rows lies
\* between: the append goes to the head the scan saw, so what a racing call
\* wrote in between is scanned before anything lands.
DuplicatesAreFar ==
    \A p, q \in DOMAIN log :
        p < q /\ log[p].id = log[q].id /\ log[p].id # Other => q - p > Window

\* Ok means every event of the batch is in the stream; a conflict, which makes
\* Engine::append decide again, means none is.
AnswersAreTrue ==
    [][\A c \in Caller : call[c].pc \in Busy =>
          /\ call'[c].pc = "ok" => \A id \in IdsOf(call[c].batch) : Here(id)' # {}
          /\ call'[c].pc = "conflict" => \A id \in IdsOf(call[c].batch) : Here(id) = {}]_vars
=============================================================================
