--------------------------- MODULE KurrentProofs ---------------------------
(***************************************************************************)
(* For every number of callers, set of batches and window size: a batch    *)
(* that was answered Ok is never appended by a later call                  *)
(* (AnsweredNeverRepeated), an id repeats only further apart than the      *)
(* window (DuplicatesAreFar), and an answer says what is in the stream     *)
(* (AnswersAreTrue).                                                       *)
(***************************************************************************)
EXTENDS KurrentLog, WellFoundedInduction, TLAPS

\* The least of some naturals.
LEMMA SmallestIsLeast ==
    ASSUME NEW S \in SUBSET Nat, S # {}
    PROVE  Smallest(S) \in S
<1> DEFINE less == OpToRel(<, Nat)
<1>1. IsWellFoundedOn(less, Nat)
  BY NatLessThanWellFounded
<1>2. PICK x \in S : \A y \in S : <<y, x>> \notin less
  BY <1>1, WFMin, Zenon
<1>3. \A y \in S : x <= y
  <2> SUFFICES ASSUME NEW y \in S, ~(x <= y) PROVE FALSE
    OBVIOUS
  <2>1. x \in Nat /\ y \in Nat /\ y < x
    OBVIOUS
  <2>2. <<y, x>> \in less
    BY <2>1 DEF OpToRel
  <2> QED BY <1>2, <2>2
<1> QED
  BY <1>3 DEF Smallest

-----------------------------------------------------------------------------
(* The inductive invariant.                                                 *)

Calls == [pc : {"idle"} \cup Busy \cup Answered, batch : Batch \cup {NoBatch},
          head : Nat, tries : Nat, at : Nat, known : BOOLEAN, landed : BOOLEAN]

\* What an answer leaves behind: ids in the registry, or a stream past the
\* expectation; so a call that comes later cannot reach an append.
Left(b) ==
    /\ HasRegistry /\ b.want = AnyHead => \A id \in IdsOf(b) : registry[id] # 0
    /\ b.want # AnyHead => b.want < Len(log)

\* Only without a registry may a batch be appended that was answered before.
MayAppend(k) == k.known => ~HasRegistry /\ k.batch.want = AnyHead

CallInv(k) ==
    /\ k.pc \in Busy => k.batch \in Batch
    /\ k.pc \in {"lookup", "scan", "cas", "register"} => k.batch.want = AnyHead
    /\ k.pc \in {"exact", "window"} => k.batch.want # AnyHead
    /\ k.pc = "window" => k.batch.want < Len(log) /\ k.head <= Len(log)
    /\ k.pc = "register" => k.at # 0
    /\ k.known => k.batch \in acked
    /\ k.landed \/ k.pc \in {"scan", "cas", "register"} => MayAppend(k)

\* What a scan has seen still stands below the head it saw.
CasInv(k) ==
    k.pc = "cas" =>
        /\ k.head <= Len(log)
        /\ \A p \in 1 .. k.head :
              k.head < p + Window => log[p].id \notin IdsOf(k.batch)

ExactInv ==
    \A b \in Batch : b.want # AnyHead =>
        \A p \in DOMAIN log : log[p].id \in IdsOf(b) => b.want < Len(log)

IInv ==
    /\ TypeOK
    /\ \A b \in acked : Left(b)
    /\ \A c \in Caller : CallInv(call[c]) /\ CasInv(call[c])
    /\ ExactInv
    /\ DuplicatesAreFar

-----------------------------------------------------------------------------
(* Lemmas about steps.                                                      *)

\* The stream only grows, ids stay registered, answers stay answered.
Grown ==
    /\ log' \in Seq(Row) /\ Len(log) <= Len(log')
    /\ \A p \in 1 .. Len(log) : log'[p] = log[p]
    /\ registry' \in [Ids -> Nat]
    /\ \A id \in Ids : registry[id] # 0 => registry'[id] # 0
    /\ acked \subseteq acked'

LEMMA LeftStays ==
    ASSUME TypeOK, Grown, NEW b \in Batch, Left(b)
    PROVE  Left(b)'
<1>1. IdsOf(b) \subseteq Ids
  BY DEF Ids
<1>2. Len(log) \in Nat /\ Len(log') \in Nat
  BY DEF TypeOK, Grown
<1>3. b.want # AnyHead => b.want \in Nat
  BY BatchAssumption
<1> QED
  BY <1>1, <1>2, <1>3 DEF Left, Grown, IdsOf

\* The other calls do not mind.
LEMMA OthersStay ==
    ASSUME TypeOK, Grown, NEW c \in Caller, call'[c] = call[c],
           CallInv(call[c]), CasInv(call[c])
    PROVE  CallInv(call[c])' /\ CasInv(call[c])'
<1>1. Len(log) \in Nat /\ Len(log') \in Nat
  BY DEF TypeOK, Grown
<1>2. call[c].head \in Nat
  BY DEF TypeOK
<1>3. \A b \in Batch : b.want # AnyHead => b.want \in Nat
  BY BatchAssumption
<1>4. CallInv(call[c])'
  BY <1>1, <1>2, <1>3 DEF CallInv, Grown, Busy
<1>5. CasInv(call[c])'
  BY <1>1, <1>2 DEF CasInv, Grown, IdsOf
<1> QED
  BY <1>4, <1>5

\* A step of one call: what has to be shown of its new record and of the log.
LEMMA CallReplaced ==
    ASSUME IInv, Grown, NEW c \in Caller, NEW k \in Calls,
           call' = [call EXCEPT ![c] = k],
           CallInv(k)', CasInv(k)',
           acked' \subseteq Batch, \A b \in acked' \ acked : Left(b)',
           ExactInv', DuplicatesAreFar'
    PROVE  IInv'
<1>1. TypeOK'
  BY DEF IInv, TypeOK, Calls, Grown
<1>2. \A b \in acked' : Left(b)'
  BY LeftStays DEF IInv, TypeOK
<1>3. ASSUME NEW d \in Caller PROVE CallInv(call[d])' /\ CasInv(call[d])'
  <2>1. CASE d = c
    <3>1. call'[d] = k
      BY <2>1 DEF IInv, TypeOK
    <3> QED BY <3>1
  <2>2. CASE d # c
    <3>1. call'[d] = call[d]
      BY <2>2 DEF IInv, TypeOK
    <3> QED BY <3>1, OthersStay DEF IInv
  <2> QED BY <2>1, <2>2
<1> QED
  BY <1>1, <1>2, <1>3 DEF IInv

\* When the stream stays as it is.
LEMMA LogStays ==
    ASSUME IInv, UNCHANGED log
    PROVE  ExactInv' /\ DuplicatesAreFar' /\ log' \in Seq(Row)
           /\ Len(log) <= Len(log') /\ \A p \in 1 .. Len(log) : log'[p] = log[p]
BY DEF IInv, TypeOK, ExactInv, DuplicatesAreFar, IdsOf

\* When a batch is appended at a head below which a window is free of its ids,
\* or at the length it expects.
LEMMA LogAppended ==
    ASSUME IInv, NEW b \in Batch, log' = log \o b.events,
           \/ /\ b.want = AnyHead
              /\ \A p \in 1 .. Len(log) : Len(log) < p + Window => log[p].id \notin IdsOf(b)
           \/ b.want = Len(log)
    PROVE  /\ ExactInv' /\ DuplicatesAreFar' /\ log' \in Seq(Row)
           /\ Len(log) < Len(log') /\ \A p \in 1 .. Len(log) : log'[p] = log[p]
           /\ Len(log') \in Nat
<1> DEFINE n == Len(log)
           m == Len(b.events)
<1>1. /\ log \in Seq(Row) /\ n \in Nat /\ DOMAIN log = 1 .. n
      /\ b.events \in Seq(Row) /\ m \in Nat \ {0} /\ DOMAIN b.events = 1 .. m
      /\ Window \in Nat
  BY BatchAssumption DEF IInv, TypeOK
<1>2. /\ log' \in Seq(Row) /\ Len(log') = n + m /\ DOMAIN log' = 1 .. n + m
      /\ \A p \in 1 .. n : log'[p] = log[p]
      /\ \A p \in n + 1 .. n + m : log'[p] = b.events[p - n]
  BY <1>1
<1>3. ASSUME NEW p \in n + 1 .. n + m
      PROVE  p - n \in DOMAIN b.events /\ log'[p].id \in IdsOf(b)
  <2>1. p - n \in DOMAIN b.events
    BY <1>1
  <2>2. b.events[p - n].id \in IdsOf(b)
    BY <2>1 DEF IdsOf
  <2> QED BY <1>2, <2>1, <2>2
<1>4. \/ /\ b.want = AnyHead
         /\ \A p \in 1 .. n : n < p + Window => log[p].id \notin IdsOf(b)
      \/ /\ b.want # AnyHead /\ b.want = n
         /\ \A p \in 1 .. n : log[p].id \notin IdsOf(b)
  <2>1. CASE b.want = AnyHead
    <3>1. AnyHead # n
      BY <1>1, BatchAssumption
    <3> QED BY <2>1, <3>1
  <2>2. CASE b.want # AnyHead
    <3>1. b.want = n
      BY <2>2
    <3>2. \A p \in 1 .. n : log[p].id \in IdsOf(b) => n < n
      BY <1>1, <2>2, <3>1 DEF IInv, ExactInv
    <3> QED BY <1>1, <2>2, <3>1, <3>2
  <2> QED BY <2>1, <2>2
<1>5. ASSUME NEW p \in DOMAIN log', NEW q \in DOMAIN log',
             p < q, log'[p].id = log'[q].id, log'[p].id # Other
      PROVE  q - p > Window
  <2>1. CASE q <= n
    <3>1. p \in DOMAIN log /\ q \in DOMAIN log /\ log'[p] = log[p] /\ log'[q] = log[q]
      BY <1>1, <1>2, <1>5, <2>1
    <3> QED BY <1>5, <3>1 DEF IInv, DuplicatesAreFar
  <2>2. CASE n < q /\ p <= n
    <3>1. p \in 1 .. n /\ log'[p] = log[p] /\ q \in n + 1 .. n + m
      BY <1>1, <1>2, <2>2
    <3>2. log[p].id \in IdsOf(b)
      BY <1>3, <1>5, <3>1
    <3>3. ~(n < p + Window)
      BY <1>4, <3>1, <3>2
    <3> QED BY <1>1, <1>2, <3>1, <3>3
  <2>3. CASE n < p
    <3>1. p \in n + 1 .. n + m /\ q \in n + 1 .. n + m
      BY <1>1, <1>2, <1>5, <2>3
    <3>2. b.events[p - n].id = b.events[q - n].id /\ p - n # q - n
      BY <1>1, <1>2, <1>5, <3>1
    <3> QED BY <1>3, <3>1, <3>2, BatchAssumption
  <2> QED BY <1>1, <1>2, <2>1, <2>2, <2>3
<1>6. DuplicatesAreFar'
  BY <1>5 DEF DuplicatesAreFar
<1>7. ASSUME NEW e \in Batch, e.want # AnyHead,
             NEW p \in DOMAIN log', log'[p].id \in IdsOf(e)
      PROVE  e.want < Len(log')
  <2>1. e.want \in Nat
    BY <1>7, BatchAssumption
  <2>2. CASE p <= n
    <3>1. p \in DOMAIN log /\ log'[p] = log[p]
      BY <1>1, <1>2, <2>2
    <3>2. e.want < n
      BY <1>7, <3>1 DEF IInv, ExactInv
    <3> QED BY <1>1, <1>2, <2>1, <3>2
  <2>3. CASE n < p
    <3>1. log'[p].id \in IdsOf(b)
      BY <1>1, <1>2, <1>3, <2>3
    <3>2. e = b
      BY <1>7, <3>1, BatchAssumption
    <3> QED BY <1>1, <1>2, <1>4, <1>7, <3>2
  <2> QED BY <1>1, <1>2, <2>2, <2>3
<1>8. ExactInv'
  BY <1>7 DEF ExactInv, IdsOf
<1> QED
  BY <1>1, <1>2, <1>6, <1>8

\* The record a batch's call ends its append with, and the stream it leaves.
LEMMA LandedPreserves ==
    ASSUME IInv, NEW c \in Caller, NEW pc \in {"ok", "error", "register"},
           call[c].pc \in Busy, Landed(c, pc), UNCHANGED registry,
           acked' = acked \cup (IF pc = "ok" THEN {call[c].batch} ELSE {}),
           MayAppend(call[c]),
           pc = "register" => call[c].batch.want = AnyHead,
           pc = "ok" => call[c].batch.want # AnyHead,
           \/ /\ call[c].pc = "cas" /\ call[c].head = Len(log)
           \/ call[c].batch.want = Len(log)
    PROVE  IInv'
<1>1. /\ call[c].batch \in Batch /\ call[c] \in Calls
      /\ call[c].pc = "cas" => call[c].batch.want = AnyHead
  BY DEF IInv, TypeOK, Calls, CallInv
<1>2. PICK b \in Batch : b = call[c].batch
  BY <1>1
<1>3. log' = log \o b.events
  BY <1>2 DEF Landed
<1>4. \/ /\ b.want = AnyHead
         /\ \A p \in 1 .. Len(log) : Len(log) < p + Window => log[p].id \notin IdsOf(b)
      \/ b.want = Len(log)
  BY <1>1, <1>2 DEF IInv, CasInv
<1>5. /\ ExactInv' /\ DuplicatesAreFar' /\ log' \in Seq(Row)
      /\ Len(log) < Len(log') /\ \A p \in 1 .. Len(log) : log'[p] = log[p]
      /\ Len(log') \in Nat /\ Len(log) \in Nat
  <2>1. /\ ExactInv' /\ DuplicatesAreFar' /\ log' \in Seq(Row)
        /\ Len(log) < Len(log') /\ \A p \in 1 .. Len(log) : log'[p] = log[p]
        /\ Len(log') \in Nat
    BY <1>3, <1>4, LogAppended, Zenon
  <2>2. Len(log) \in Nat
    BY DEF IInv, TypeOK
  <2> QED BY <2>1, <2>2
<1>6. Grown
  BY <1>5 DEF Grown, IInv, TypeOK
<1>7. [call[c] EXCEPT !.pc = pc, !.at = Len(log'), !.landed = TRUE] \in Calls
  BY <1>1, <1>5 DEF Calls, Busy, Answered
<1>8. PICK k \in Calls :
         k = [call[c] EXCEPT !.pc = pc, !.at = Len(log'), !.landed = TRUE]
  BY <1>7
<1>9. /\ call' = [call EXCEPT ![c] = k]
      /\ k.pc = pc /\ k.batch = b /\ k.at = Len(log')
      /\ MayAppend(k) /\ (k.known => k.batch \in acked')
  <2>1. call' = [call EXCEPT ![c] = k]
    BY <1>1, <1>8 DEF Landed, IInv, TypeOK, Calls
  <2>2. k.pc = pc /\ k.batch = b /\ k.at = Len(log')
    BY <1>1, <1>2, <1>8 DEF Calls
  <2>3. k.known = call[c].known
    BY <1>1, <1>8 DEF Calls
  <2>4. call[c].known => call[c].batch \in acked
    BY DEF IInv, CallInv
  <2> QED BY <1>2, <2>1, <2>2, <2>3, <2>4 DEF MayAppend
<1>10. b.want = AnyHead \/ b.want = Len(log)
  BY <1>4
<1>11. CallInv(k)' /\ CasInv(k)'
  BY <1>1, <1>2, <1>5, <1>9 DEF CallInv, CasInv, Busy
<1>12. acked' \subseteq Batch
  BY <1>1 DEF IInv, TypeOK
<1>13. \A e \in acked' \ acked : Left(e)'
  BY <1>2, <1>5, <1>10 DEF Left
<1> QED
  BY <1>5, <1>6, <1>9, <1>11, <1>12, <1>13, CallReplaced
-----------------------------------------------------------------------------
(* One lemma per step.                                                      *)

\* The call of c goes on with the same batch, to pc.
Moves(c, pc) ==
    /\ call' \in [Caller -> Calls]
    /\ \A d \in Caller \ {c} : call'[d] = call[d]
    /\ call'[c].pc = pc
    /\ call'[c].batch = call[c].batch
    /\ call'[c].known = call[c].known
    /\ call'[c].landed = call[c].landed

\* A step that leaves the stream alone.
LEMMA MovesPreserves ==
    ASSUME IInv, UNCHANGED log,
           registry' \in [Ids -> Nat],
           \A id \in Ids : registry[id] # 0 => registry'[id] # 0,
           NEW c \in Caller, call[c].pc \in Busy,
           NEW pc \in {"scan", "cas", "register", "window"} \cup Answered,
           Moves(c, pc),
           acked' = acked \cup (IF pc = "ok" THEN {call[c].batch} ELSE {}),
           pc = "ok" => Left(call[c].batch)',
           pc \in {"scan", "cas", "register"} =>
               call[c].batch.want = AnyHead /\ MayAppend(call[c]),
           pc = "register" => call'[c].at # 0,
           pc = "window" => /\ call[c].batch.want # AnyHead
                            /\ call[c].batch.want < Len(log)
                            /\ call'[c].head <= Len(log),
           pc = "cas" => /\ call'[c].head <= Len(log)
                         /\ \A p \in 1 .. call'[c].head :
                               call'[c].head < p + Window =>
                                   log[p].id \notin IdsOf(call[c].batch)
    PROVE  IInv'
<1>1. call[c].batch \in Batch
  BY DEF IInv, CallInv
<1>2. PICK k \in Calls : k = call'[c]
  BY DEF Moves
<1>3. call' = [call EXCEPT ![c] = k]
  BY <1>2 DEF Moves, IInv, TypeOK
<1>4. ExactInv' /\ DuplicatesAreFar'
  BY LogStays
<1>5. Grown
  BY LogStays DEF Grown
<1>6. CallInv(k)'
  <2>1. pc \notin {"lookup", "exact", "idle"}
    BY DEF Answered
  <2>2. k.pc = pc /\ k.batch = call[c].batch
    BY <1>2 DEF Moves
  <2>3. k.known => call[c].known
    BY <1>2 DEF Moves
  <2>4. k.landed => call[c].landed
    BY <1>2 DEF Moves
  <2>5. CallInv(call[c])
    BY DEF IInv
  <2>6. k.known => k.batch \in acked'
    BY <2>2, <2>3, <2>5 DEF CallInv
  <2>7. k.landed \/ k.pc \in {"scan", "cas", "register"} => MayAppend(k)
    BY <2>2, <2>3, <2>4, <2>5 DEF CallInv, MayAppend
  <2> QED BY <1>1, <1>2, <2>1, <2>2, <2>6, <2>7 DEF CallInv
<1>7. CasInv(k)'
  BY <1>2 DEF Moves, CasInv
<1>8. acked' \subseteq Batch
  BY <1>1 DEF IInv, TypeOK
<1>9. ASSUME NEW b \in acked' \ acked PROVE Left(b)'
  <2>1. pc = "ok" /\ b = call'[c].batch
    BY DEF Moves
  <2> QED BY <2>1 DEF Left
<1> QED
  BY <1>3, <1>4, <1>5, <1>6, <1>7, <1>8, <1>9, CallReplaced

\* What is used of a call in every step.
LEMMA CallFacts ==
    ASSUME IInv, NEW c \in Caller, call[c].pc \in Busy
    PROVE  /\ call \in [Caller -> Calls] /\ call[c] \in Calls
           /\ call[c].batch \in Batch /\ CallInv(call[c]) /\ CasInv(call[c])
           /\ Len(log) \in Nat /\ log \in Seq(Row) /\ registry \in [Ids -> Nat]
           /\ call[c].head \in Nat /\ call[c].tries \in Nat /\ call[c].at \in Nat
BY DEF IInv, TypeOK, Calls, CallInv

LEMMA AnswerMoves ==
    ASSUME call \in [Caller -> Calls], NEW c \in Caller,
           NEW pc \in Busy \cup Answered, NEW at \in Nat, call' = Answer(c, pc, at)
    PROVE  Moves(c, pc) /\ call'[c].at = at /\ call'[c].head = call[c].head
<1>1. [call[c] EXCEPT !.pc = pc, !.at = at] \in Calls
  BY DEF Calls
<1>2. call' = [call EXCEPT ![c] = [call[c] EXCEPT !.pc = pc, !.at = at]]
  BY DEF Answer
<1> QED
  BY <1>1, <1>2 DEF Moves, Calls

\* With a registry a call that is already answered starts by asking it.
LEMMA BeginPreserves ==
    ASSUME IInv, NEW c \in Caller, NEW b \in Batch, Begin(c, b)
    PROVE  IInv'
<1> DEFINE pc == IF b.want # AnyHead THEN "exact" ELSE IF HasRegistry THEN "lookup" ELSE "scan"
           rec == [pc |-> pc, batch |-> b, head |-> 0, tries |-> 0, at |-> 0,
                   known |-> b \in acked, landed |-> FALSE]
<1>1. rec \in Calls
  BY DEF Calls, Busy
<1>2. PICK k \in Calls : k = rec
  BY <1>1
<1>3. call' = [call EXCEPT ![c] = k]
  BY <1>2 DEF Begin
<1>4. k.pc = pc /\ k.batch = b /\ ~k.landed
  BY <1>2
<1>5. k.known => b \in acked
  BY <1>2
<1>6. UNCHANGED <<log, registry, acked>>
  BY DEF Begin
<1>7. CallInv(k)' /\ CasInv(k)'
  BY <1>4, <1>5, <1>6 DEF CallInv, CasInv, MayAppend
<1>8. Grown
  BY <1>6 DEF Grown, IInv, TypeOK
<1>9. ExactInv' /\ DuplicatesAreFar'
  BY <1>6, LogStays
<1>10. acked' \subseteq Batch /\ \A e \in acked' \ acked : Left(e)'
  BY <1>6 DEF IInv, TypeOK
<1> QED
  BY <1>3, <1>7, <1>8, <1>9, <1>10, CallReplaced

\* All of a batch's ids are registered when the registry says redelivery, and
\* not one when it says absent.
LEMMA ClassifyRight ==
    ASSUME NEW b \in Batch
    PROVE  /\ Classify(b) = "redelivery" => \A id \in IdsOf(b) : registry[id] # 0
           /\ Classify(b) = "absent" => \E id \in IdsOf(b) : registry[id] = 0
<1>1. LastId(b) \in IdsOf(b)
  BY BatchAssumption DEF LastId, IdsOf
<1> QED
  BY <1>1 DEF Classify

LEMMA LookupPreserves ==
    ASSUME IInv, NEW c \in Caller, Lookup(c)
    PROVE  IInv'
<1>1. call[c].pc = "lookup" /\ call[c].pc \in Busy
  BY DEF Lookup, Busy
<1>2. /\ call \in [Caller -> Calls] /\ call[c].batch \in Batch /\ CallInv(call[c])
      /\ registry \in [Ids -> Nat]
  BY <1>1, CallFacts
<1>3. PICK b \in Batch : b = call[c].batch
  BY <1>2
<1>4. b.want = AnyHead
  BY <1>1, <1>2, <1>3 DEF CallInv
<1>5. PICK pc \in {"ok", "scan", "overlap"} :
        pc = CASE Classify(b) = "redelivery" -> "ok"
               [] Classify(b) = "absent" -> "scan" [] OTHER -> "overlap"
  OBVIOUS
<1>6. LastId(b) \in IdsOf(b) /\ IdsOf(b) \subseteq Ids
  BY BatchAssumption DEF LastId, IdsOf, Ids
<1>7. PICK at \in Nat : at = IF pc = "ok" THEN registry[LastId(b)] ELSE 0
  BY <1>2, <1>6
<1>8. call' = Answer(c, pc, at) /\ Acked(c, pc) /\ log' = log /\ registry' = registry
  BY <1>3, <1>5, <1>7 DEF Lookup
<1>9. Moves(c, pc)
  BY <1>2, <1>8, AnswerMoves DEF Busy, Answered
<1>10. acked' = acked \cup (IF pc = "ok" THEN {call[c].batch} ELSE {})
  BY <1>8 DEF Acked
<1>11. pc = "ok" => Left(call[c].batch)'
  <2> SUFFICES ASSUME pc = "ok" PROVE Left(call[c].batch)'
    OBVIOUS
  <2>1. Classify(b) = "redelivery"
    BY <1>5
  <2>2. \A id \in IdsOf(b) : registry[id] # 0
    BY <2>1, ClassifyRight
  <2>3. call'[c].batch = b
    BY <1>3, <1>9 DEF Moves
  <2> QED BY <1>4, <1>8, <2>2, <2>3 DEF Left
<1>12. pc = "scan" => MayAppend(call[c])
  <2> SUFFICES ASSUME pc = "scan", call[c].known, HasRegistry PROVE FALSE
    BY <1>3, <1>4 DEF MayAppend
  <2>1. Classify(b) = "absent"
    BY <1>5
  <2>2. Left(b)
    BY <1>2, <1>3 DEF CallInv, IInv
  <2> QED BY <1>4, <2>1, <2>2, ClassifyRight DEF Left
<1>13. pc \in {"scan", "cas", "register", "window"} \cup Answered
  BY DEF Answered
<1>14. pc \notin {"cas", "register", "window"}
  OBVIOUS
<1>15. UNCHANGED <<log, registry>>
  BY DEF Lookup
<1> QED
  BY <1>1, <1>2, <1>3, <1>4, <1>9, <1>10, <1>11, <1>12, <1>13, <1>14, <1>15,
     MovesPreserves

\* The rows lo .. hi make the call answer pc, with the coordinates at.
Outcome(c, lo, hi, absent, pc, at) ==
    /\ pc \in {absent, "divergent", "register", "ok", "overlap"} /\ at \in Nat
    /\ Seen(c, lo, hi, absent) = Answer(c, pc, at)
    /\ pc = absent => \A p \in lo .. hi : log[p].id \notin IdsOf(call[c].batch)
    /\ pc = "register" => at # 0 /\ call[c].batch.want = AnyHead
    /\ pc = "ok" => call[c].batch.want # AnyHead

\* What a window of rows answers.
LEMMA SeenAnswers ==
    ASSUME IInv, NEW c \in Caller, call[c].pc \in Busy,
           NEW lo \in Nat \ {0}, NEW hi \in Nat, hi <= Len(log),
           NEW absent \in {"cas", "conflict"}
    PROVE  \E pc, at : Outcome(c, lo, hi, absent, pc, at)
<1> USE DEF Outcome
<1>1. /\ call[c].batch \in Batch /\ log \in Seq(Row) /\ Len(log) \in Nat
  BY CallFacts
<1>2. PICK b \in Batch : b = call[c].batch
  BY <1>1
<1> DEFINE found == Reconcile(b, lo, hi)
<1>3. found \in {"redelivery", "overlap", "absent"}
  BY DEF Reconcile
<1>4. CASE found = "absent"
  <2>1. Seen(c, lo, hi, absent) = Answer(c, absent, 0)
    BY <1>2, <1>4 DEF Seen
  <2>2. \A p \in lo .. hi : log[p].id \notin IdsOf(b)
    BY <1>4 DEF Reconcile
  <2> QED BY <1>2, <2>1, <2>2
<1>5. CASE found = "redelivery" /\ ~Identical(b, lo, hi)
  <2>1. Seen(c, lo, hi, absent) = Answer(c, "divergent", 0)
    BY <1>2, <1>5 DEF Seen
  <2> QED BY <2>1
<1>6. CASE found = "redelivery" /\ Identical(b, lo, hi)
  <2>1. PICK f \in [DOMAIN b.events -> lo .. hi] :
           \A i \in DOMAIN f : log[f[i]].id = b.events[i].id
    BY <1>6 DEF Reconcile
  <2>2. Len(b.events) \in DOMAIN b.events
    BY BatchAssumption
  <2>3. f[Len(b.events)] \in Here(LastId(b)) \cap lo .. hi
    BY <1>1, <2>1, <2>2 DEF Here, LastId
  <2>4. Here(LastId(b)) \cap lo .. hi \in SUBSET (Nat \ {0})
    OBVIOUS
  <2>5. First(LastId(b), lo, hi) \in Nat \ {0}
    BY <2>3, <2>4, SmallestIsLeast DEF First
  <2>6. Seen(c, lo, hi, absent)
          = Answer(c, IF b.want = AnyHead THEN "register" ELSE "ok",
                   First(LastId(b), lo, hi))
    BY <1>2, <1>6 DEF Seen
  <2>7. CASE b.want = AnyHead
    BY <1>2, <2>5, <2>6, <2>7
  <2>8. CASE b.want # AnyHead
    BY <1>2, <2>5, <2>6, <2>8
  <2> QED BY <2>7, <2>8
<1>7. CASE found = "overlap"
  <2>1. Seen(c, lo, hi, absent) = Answer(c, "overlap", 0)
    BY <1>2, <1>7 DEF Seen
  <2> QED BY <2>1
<1> QED
  BY <1>3, <1>4, <1>5, <1>6, <1>7

LEMMA ScanPreserves ==
    ASSUME IInv, NEW c \in Caller, Scan(c)
    PROVE  IInv'
<1>1. call[c].pc = "scan" /\ call[c].pc \in Busy
  BY DEF Scan, Busy
<1>2. /\ call \in [Caller -> Calls] /\ call[c].batch \in Batch /\ CallInv(call[c])
      /\ registry \in [Ids -> Nat] /\ Len(log) \in Nat /\ Window \in Nat
  BY <1>1, CallFacts, BatchAssumption
<1>3. call[c].batch.want = AnyHead /\ MayAppend(call[c])
  BY <1>1, <1>2 DEF CallInv
<1>4. UNCHANGED <<log, registry, acked>>
  BY DEF Scan
<1>5. CASE call[c].tries = Attempts
  <2>1. call' = Answer(c, "error", 0)
    BY <1>5 DEF Scan
  <2>2. Moves(c, "error")
    BY <1>2, <2>1, AnswerMoves DEF Answered
  <2> QED BY <1>1, <1>2, <1>4, <2>2, MovesPreserves DEF Answered
<1>6. CASE call[c].tries # Attempts
  <2>1. PICK lo \in Nat \ {0} :
          /\ lo = IF Len(log) > Window THEN Len(log) - Window + 1 ELSE 1
    BY <1>2
  <2>2. call' = [Seen(c, lo, Len(log), "cas") EXCEPT ![c].head = Len(log)]
    BY <1>6, <2>1 DEF Scan
  <2>3. PICK pc \in {"cas", "divergent", "register", "ok", "overlap"}, at \in Nat :
          /\ Seen(c, lo, Len(log), "cas") = Answer(c, pc, at)
          /\ pc = "cas" => \A p \in lo .. Len(log) : log[p].id \notin IdsOf(call[c].batch)
          /\ pc = "register" => at # 0 /\ call[c].batch.want = AnyHead
          /\ pc = "ok" => call[c].batch.want # AnyHead
    <3>1. PICK pc, at : Outcome(c, lo, Len(log), "cas", pc, at)
      BY <1>1, <1>2, SeenAnswers
    <3> QED BY <3>1 DEF Outcome
  <2>4. call' = [Answer(c, pc, at) EXCEPT ![c].head = Len(log)]
    BY <2>2, <2>3
  <2>5. Moves(c, pc) /\ call'[c].at = at /\ call'[c].head = Len(log)
    <3> DEFINE new == [call[c] EXCEPT !.pc = pc, !.at = at, !.head = Len(log)]
    <3>1. new \in Calls
      BY <1>2 DEF Calls, Busy, Answered
    <3>2. call' = [call EXCEPT ![c] = new]
      BY <1>2, <2>4 DEF Answer
    <3>3. /\ new.pc = pc /\ new.at = at /\ new.head = Len(log)
          /\ new.batch = call[c].batch /\ new.known = call[c].known
          /\ new.landed = call[c].landed
      BY <1>2 DEF Calls
    <3> HIDE DEF new
    <3> QED BY <1>2, <3>1, <3>2, <3>3 DEF Moves
  <2>6. pc # "ok"
    BY <1>3, <2>3
  <2>7. pc = "cas" =>
          \A p \in 1 .. Len(log) : Len(log) < p + Window =>
              log[p].id \notin IdsOf(call[c].batch)
    BY <1>2, <2>1, <2>3
  <2>8. pc \in {"scan", "cas", "register", "window"} \cup Answered /\ pc # "window"
    BY DEF Answered
  <2> QED BY <1>1, <1>2, <1>3, <1>4, <2>3, <2>5, <2>6, <2>7, <2>8, MovesPreserves
<1> QED
  BY <1>5, <1>6

LEMMA CasAnyPreserves ==
    ASSUME IInv, NEW c \in Caller, CasAny(c)
    PROVE  IInv'
<1>1. call[c].pc = "cas" /\ call[c].pc \in Busy
  BY DEF CasAny, Busy
<1>2. /\ call \in [Caller -> Calls] /\ call[c].batch \in Batch /\ CallInv(call[c])
      /\ registry \in [Ids -> Nat] /\ call[c].tries \in Nat
  BY <1>1, CallFacts
<1>3. call[c].batch.want = AnyHead /\ MayAppend(call[c])
  BY <1>1, <1>2 DEF CallInv
<1>4. UNCHANGED <<registry, acked>>
  BY DEF CasAny
<1>5. CASE call[c].head = Len(log) /\ Landed(c, "register")
  BY <1>1, <1>3, <1>4, <1>5, LandedPreserves
<1>6. CASE /\ call[c].head # Len(log)
           /\ call' = [call EXCEPT ![c].pc = "scan", ![c].tries = @ + 1]
           /\ UNCHANGED log
  <2>1. Moves(c, "scan")
    <3>1. [call[c] EXCEPT !.pc = "scan", !.tries = call[c].tries + 1] \in Calls
      <4>1. call[c] \in Calls /\ call[c].tries + 1 \in Nat
        BY <1>2
      <4> QED BY <4>1 DEF Calls, Busy
    <3>2. call' = [call EXCEPT ![c] = [call[c] EXCEPT !.pc = "scan", !.tries = call[c].tries + 1]]
      BY <1>6
    <3> QED BY <1>2, <3>1, <3>2 DEF Moves, Calls
  <2>2. acked' = acked \cup (IF "scan" = "ok" THEN {call[c].batch} ELSE {})
    BY <1>4
  <2> QED BY <1>1, <1>2, <1>3, <1>4, <1>6, <2>1, <2>2, MovesPreserves DEF Answered
<1> QED
  BY <1>5, <1>6 DEF CasAny

\* The ids of a batch are registered before its caller is answered.
LEMMA RegisterPreserves ==
    ASSUME IInv, NEW c \in Caller, Register(c)
    PROVE  IInv'
<1>1. call[c].pc = "register" /\ call[c].pc \in Busy
  BY DEF Register, Busy
<1>2. /\ call \in [Caller -> Calls] /\ call[c].batch \in Batch /\ CallInv(call[c])
      /\ registry \in [Ids -> Nat] /\ call[c].at \in Nat
  BY <1>1, CallFacts
<1>3. call[c].batch.want = AnyHead /\ call[c].at # 0
  BY <1>1, <1>2 DEF CallInv
<1>4. call' = Answer(c, "ok", call[c].at) /\ UNCHANGED log
  BY DEF Register
<1>5. Moves(c, "ok")
  BY <1>2, <1>4, AnswerMoves DEF Answered
<1>6. \A id \in Ids : registry'[id] =
        IF HasRegistry /\ id \in IdsOf(call[c].batch) /\ registry[id] = 0
        THEN call[c].at ELSE registry[id]
  BY DEF Register
<1>7. registry' \in [Ids -> Nat]
  BY <1>2 DEF Register
<1>8. \A id \in Ids : registry[id] # 0 => registry'[id] # 0
  BY <1>6
<1>9. IdsOf(call[c].batch) \subseteq Ids
  BY <1>2 DEF Ids
<1>10. HasRegistry => \A id \in IdsOf(call[c].batch) : registry'[id] # 0
  BY <1>3, <1>6, <1>9
<1>11. call'[c].batch = call[c].batch
  BY <1>5 DEF Moves
<1>12. Left(call[c].batch)'
  BY <1>3, <1>10, <1>11 DEF Left, IdsOf
<1>13. acked' = acked \cup (IF "ok" = "ok" THEN {call[c].batch} ELSE {})
  BY DEF Register, Acked
<1> QED
  BY <1>1, <1>4, <1>5, <1>7, <1>8, <1>12, <1>13, MovesPreserves DEF Answered

\* A batch that expects a revision and was answered is past it: no append of
\* it is at the head any more.
LEMMA ExactIsNew ==
    ASSUME IInv, NEW c \in Caller, call[c].pc = "exact",
           call[c].batch.want = Len(log)
    PROVE  ~call[c].known /\ MayAppend(call[c]) /\ call[c].batch.want # AnyHead
<1>1. CallInv(call[c]) /\ Len(log) \in Nat
  BY CallFacts DEF Busy
<1>2. call[c].batch.want # AnyHead
  BY <1>1 DEF CallInv
<1>3. call[c].known => call[c].batch.want < Len(log)
  BY <1>1, <1>2 DEF IInv, CallInv, Left
<1> QED
  BY <1>1, <1>2, <1>3 DEF MayAppend

LEMMA CasExactPreserves ==
    ASSUME IInv, NEW c \in Caller, CasExact(c)
    PROVE  IInv'
<1>1. call[c].pc = "exact" /\ call[c].pc \in Busy
  BY DEF CasExact, Busy
<1>2. /\ call \in [Caller -> Calls] /\ call[c].batch \in Batch /\ CallInv(call[c])
      /\ registry \in [Ids -> Nat] /\ Len(log) \in Nat /\ call[c] \in Calls
  BY <1>1, CallFacts
<1>3. UNCHANGED registry
  BY DEF CasExact
<1>4. CASE call[c].batch.want = Len(log)
  <2>1. Landed(c, "ok") /\ acked' = acked \cup (IF "ok" = "ok" THEN {call[c].batch} ELSE {})
    BY <1>4 DEF CasExact, Acked
  <2> QED BY <1>1, <1>3, <1>4, <2>1, ExactIsNew, LandedPreserves
<1>5. CASE call[c].batch.want # Len(log)
  <2>1. PICK pc \in {"window", "conflict"} :
          pc = IF Len(log) > call[c].batch.want THEN "window" ELSE "conflict"
    OBVIOUS
  <2>2. /\ call' = [Answer(c, pc, 0) EXCEPT ![c].head = Len(log)]
        /\ UNCHANGED <<log, acked>>
    BY <1>5, <2>1 DEF CasExact
  <2>3. Moves(c, pc) /\ call'[c].head = Len(log)
    BY <1>2, <2>2 DEF Moves, Answer, Calls, Busy, Answered
  <2>4. call[c].batch.want # AnyHead /\ call[c].batch.want \in Nat
    BY <1>1, <1>2, BatchAssumption DEF CallInv
  <2>5. pc = "window" => call[c].batch.want < Len(log)
    BY <1>2, <2>1, <2>4
  <2>6. pc \in {"scan", "cas", "register", "window"} \cup Answered
        /\ pc \notin {"ok", "scan", "cas", "register"}
    BY DEF Answered
  <2>7. acked' = acked \cup (IF pc = "ok" THEN {call[c].batch} ELSE {})
    BY <2>2
  <2> QED BY <1>1, <1>2, <1>3, <2>2, <2>3, <2>4, <2>5, <2>6, <2>7, MovesPreserves
<1> QED
  BY <1>4, <1>5

LEMMA ReadWindowPreserves ==
    ASSUME IInv, NEW c \in Caller, ReadWindow(c)
    PROVE  IInv'
<1>1. call[c].pc = "window" /\ call[c].pc \in Busy
  BY DEF ReadWindow, Busy
<1>2. /\ call \in [Caller -> Calls] /\ call[c].batch \in Batch /\ CallInv(call[c])
      /\ registry \in [Ids -> Nat] /\ Len(log) \in Nat /\ call[c].head \in Nat
  BY <1>1, CallFacts
<1>3. /\ call[c].batch.want \in Nat /\ call[c].batch.want # AnyHead
      /\ call[c].batch.want < Len(log) /\ call[c].head <= Len(log)
  BY <1>1, <1>2, BatchAssumption DEF CallInv
<1>4. UNCHANGED <<log, registry>>
  BY DEF ReadWindow
<1>5. PICK lo \in Nat \ {0} : lo = call[c].batch.want + 1
  BY <1>3
<1>6. PICK pc \in {"conflict", "divergent", "register", "ok", "overlap"}, at \in Nat :
        /\ Seen(c, lo, call[c].head, "conflict") = Answer(c, pc, at)
        /\ pc = "register" => at # 0 /\ call[c].batch.want = AnyHead
        /\ pc = "ok" => call[c].batch.want # AnyHead
  <2>1. call[c].head \in Nat /\ call[c].head <= Len(log)
    BY <1>2, <1>3
  <2>2. PICK pc, at : Outcome(c, lo, call[c].head, "conflict", pc, at)
    BY <1>1, <2>1, SeenAnswers
  <2> QED BY <2>2 DEF Outcome
<1>7. call' = Answer(c, pc, at)
  BY <1>5, <1>6 DEF ReadWindow
<1>8. pc # "register"
  BY <1>3, <1>6
<1>9. Moves(c, pc)
  BY <1>2, <1>7, AnswerMoves DEF Answered, Busy
<1>10. acked' = acked \cup (IF pc = "ok" THEN {call[c].batch} ELSE {})
  BY <1>9 DEF ReadWindow, Acked, Moves
<1>11. Left(call[c].batch)'
  BY <1>3, <1>4, <1>9 DEF Left, Moves
<1>12. pc \in {"scan", "cas", "register", "window"} \cup Answered
       /\ pc \notin {"scan", "cas", "register", "window"}
  BY <1>8 DEF Answered
<1> QED
  BY <1>1, <1>2, <1>4, <1>9, <1>10, <1>11, <1>12, MovesPreserves

LEMMA FailsPreserves ==
    ASSUME IInv, NEW c \in Caller, Fails(c)
    PROVE  IInv'
<1>1. call[c].pc \in Busy
  BY DEF Fails
<1>2. call \in [Caller -> Calls] /\ registry \in [Ids -> Nat]
  BY <1>1, CallFacts
<1>3. call' = Answer(c, "error", 0) /\ UNCHANGED <<log, registry, acked>>
  BY DEF Fails
<1>4. Moves(c, "error")
  BY <1>2, <1>3, AnswerMoves DEF Answered
<1>5. acked' = acked \cup (IF "error" = "ok" THEN {call[c].batch} ELSE {})
  BY <1>3
<1> QED
  BY <1>1, <1>2, <1>3, <1>4, <1>5, MovesPreserves DEF Answered

LEMMA ReplyLostPreserves ==
    ASSUME IInv, NEW c \in Caller, ReplyLost(c)
    PROVE  IInv'
<1>1. Landed(c, "error") /\ UNCHANGED <<registry, acked>>
  BY DEF ReplyLost
<1>2. acked' = acked \cup (IF "error" = "ok" THEN {call[c].batch} ELSE {})
  BY <1>1
<1>3. CASE call[c].pc = "cas" /\ call[c].head = Len(log)
  <2>1. call[c].pc \in Busy /\ MayAppend(call[c])
    BY <1>3 DEF Busy, IInv, CallInv
  <2> QED BY <1>1, <1>2, <1>3, <2>1, LandedPreserves
<1>4. CASE call[c].pc = "exact" /\ call[c].batch.want = Len(log)
  <2>1. call[c].pc \in Busy /\ MayAppend(call[c])
    BY <1>4, ExactIsNew DEF Busy
  <2> QED BY <1>1, <1>2, <1>4, <2>1, LandedPreserves
<1> QED
  BY <1>3, <1>4 DEF ReplyLost

\* A foreign row has an id no batch has.
LEMMA ForeignPreserves ==
    ASSUME IInv, Foreign
    PROVE  IInv'
<1> DEFINE row == [id |-> Other, body |-> Other]
<1>1. log \in Seq(Row) /\ Len(log) \in Nat /\ row \in Row
  <2>1. log \in Seq(Row)
    BY DEF IInv, TypeOK
  <2>2. row \in Row
    BY DEF Row
  <2> QED BY <2>1, <2>2
<1>2. /\ log' \in Seq(Row) /\ Len(log') = Len(log) + 1
      /\ \A p \in 1 .. Len(log) : log'[p] = log[p]
      /\ log'[Len(log) + 1] = row
  BY <1>1 DEF Foreign
<1>3. UNCHANGED <<registry, call, acked>>
  BY DEF Foreign
<1>4. Grown
  BY <1>1, <1>2, <1>3 DEF Grown, IInv, TypeOK
<1>5. TypeOK'
  BY <1>2, <1>3 DEF IInv, TypeOK
<1>6. \A b \in acked' : Left(b)'
  BY <1>3, <1>4, LeftStays DEF IInv, TypeOK
<1>7. \A c \in Caller : CallInv(call[c])' /\ CasInv(call[c])'
  BY <1>3, <1>4, OthersStay DEF IInv
<1>8. ExactInv'
  <2> SUFFICES ASSUME NEW b \in Batch, b.want # AnyHead,
                      NEW p \in DOMAIN log', log'[p].id \in IdsOf(b)
               PROVE  b.want < Len(log')
    BY DEF ExactInv, IdsOf
  <2>1. b.want \in Nat /\ Other \notin IdsOf(b)
    BY BatchAssumption DEF Ids
  <2>2. p \in DOMAIN log /\ log'[p] = log[p]
    BY <1>1, <1>2, <2>1
  <2>3. b.want < Len(log)
    BY <2>2 DEF IInv, ExactInv
  <2> QED BY <1>1, <1>2, <2>1, <2>3
<1>9. DuplicatesAreFar'
  <2> SUFFICES ASSUME NEW p \in DOMAIN log', NEW q \in DOMAIN log',
                      p < q, log'[p].id = log'[q].id, log'[p].id # Other
               PROVE  q - p > Window
    BY DEF DuplicatesAreFar
  <2>1. p \in DOMAIN log /\ q \in DOMAIN log /\ log'[p] = log[p] /\ log'[q] = log[q]
    BY <1>1, <1>2
  <2> QED BY <2>1 DEF IInv, DuplicatesAreFar
<1> QED
  BY <1>5, <1>6, <1>7, <1>8, <1>9 DEF IInv

-----------------------------------------------------------------------------
(* The theorems.                                                            *)

LEMMA InitIInv == Init => IInv
<1> SUFFICES ASSUME Init PROVE IInv
  OBVIOUS
<1>1. TypeOK
  BY DEF Init, TypeOK, Idle
<1>2. \A c \in Caller : CallInv(call[c]) /\ CasInv(call[c])
  BY DEF Init, Idle, CallInv, CasInv, Busy
<1> QED
  BY <1>1, <1>2 DEF Init, IInv, ExactInv, DuplicatesAreFar

LEMMA NextIInv ==
    ASSUME IInv, [Next]_vars
    PROVE  IInv'
<1>1. CASE UNCHANGED vars
  <2>1. UNCHANGED <<log, registry, call, acked>>
    BY <1>1 DEF vars
  <2>2. Grown
    BY <2>1 DEF Grown, IInv, TypeOK
  <2>3. TypeOK' /\ ExactInv' /\ DuplicatesAreFar'
    BY <2>1, LogStays DEF IInv, TypeOK
  <2>4. \A b \in acked' : Left(b)'
    BY <2>1, <2>2, LeftStays DEF IInv, TypeOK
  <2>5. \A c \in Caller : CallInv(call[c])' /\ CasInv(call[c])'
    BY <2>1, <2>2, OthersStay DEF IInv
  <2> QED BY <2>3, <2>4, <2>5 DEF IInv
<1>2. ASSUME NEW c \in Caller, NEW b \in Batch, Begin(c, b) PROVE IInv'
  BY <1>2, BeginPreserves
<1>3. ASSUME NEW c \in Caller,
             \/ Lookup(c) \/ Scan(c) \/ CasAny(c) \/ Register(c)
             \/ CasExact(c) \/ ReadWindow(c) \/ Fails(c) \/ ReplyLost(c)
      PROVE  IInv'
  BY <1>3, LookupPreserves, ScanPreserves, CasAnyPreserves, RegisterPreserves,
     CasExactPreserves, ReadWindowPreserves, FailsPreserves, ReplyLostPreserves
<1>4. CASE Foreign
  BY <1>4, ForeignPreserves
<1> QED
  BY <1>1, <1>2, <1>3, <1>4 DEF Next

\* With a registry, a batch the backend answered Ok is appended by no call that
\* starts later, whatever the callers, batches and window, and whichever round
\* trips fail: append_to_stream of kurrent_event_log.rs.
THEOREM AnsweredNeverRepeatedHolds ==
    ASSUME HasRegistry
    PROVE  Spec => []AnsweredNeverRepeated
<1>1. IInv => AnsweredNeverRepeated
  BY DEF IInv, CallInv, MayAppend, AnsweredNeverRepeated
<1>2. IInv /\ [Next]_vars => IInv'
  BY NextIInv
<1> QED
  BY <1>1, <1>2, InitIInv, PTL DEF Spec

\* With a registry or without, two rows of one id are more than a window apart:
\* the append of append_to_stream goes to the head its scan of the tail saw.
THEOREM DuplicatesAreFarHolds == Spec => []DuplicatesAreFar
<1>1. IInv => DuplicatesAreFar
  BY DEF IInv
<1>2. IInv /\ [Next]_vars => IInv'
  BY NextIInv
<1> QED
  BY <1>1, <1>2, InitIInv, PTL DEF Spec

-----------------------------------------------------------------------------
(***************************************************************************)
(* What the answers say.  A registered id is in the stream, and so is what *)
(* a call is about to register; the rows of a batch that expects a         *)
(* revision lie behind it, and, once a refusal has named a head, at or     *)
(* below that head: nobody can append them at a revision that has passed.  *)
(***************************************************************************)
InLog(b) == \A id \in IdsOf(b) : Here(id) # {}

WindowOk(k) ==
    k.pc = "window" => \A p \in DOMAIN log : log[p].id \in IdsOf(k.batch) => p <= k.head

BehindInv ==
    \A b \in Batch : b.want # AnyHead =>
        \A p \in DOMAIN log : log[p].id \in IdsOf(b) => b.want < p

TruthInv ==
    /\ IInv
    /\ \A id \in Ids : registry[id] # 0 => Here(id) # {}
    /\ \A c \in Caller :
          /\ call[c].pc = "register" => InLog(call[c].batch)
          /\ WindowOk(call[c])
    /\ BehindInv

\* The rows a step adds: a batch at a head it may be appended at, or a row of
\* somebody else.
Adds(b) == log' = log \o b.events /\ (b.want = AnyHead \/ b.want = Len(log))

Stream ==
    \/ UNCHANGED log
    \/ \E b \in Batch : Adds(b)
    \/ log' = Append(log, [id |-> Other, body |-> Other])

LEMMA StepStream ==
    ASSUME IInv, [Next]_vars
    PROVE  Stream
<1>1. ASSUME NEW c \in Caller, NEW pc, call[c].pc \in Busy, Landed(c, pc),
             \/ call[c].pc = "cas"
             \/ call[c].batch.want = Len(log)
      PROVE  Stream
  <2>1. call[c].batch \in Batch /\ (call[c].pc = "cas" => call[c].batch.want = AnyHead)
    BY <1>1 DEF IInv, CallInv
  <2> QED BY <1>1, <2>1 DEF Landed, Stream, Adds
<1>2. ASSUME NEW c \in Caller,
             CasAny(c) \/ CasExact(c) \/ ReplyLost(c)
      PROVE  Stream
  <2>1. UNCHANGED log \/ \E pc : Landed(c, pc) /\ (call[c].pc = "cas" \/ call[c].batch.want = Len(log))
    BY <1>2 DEF CasAny, CasExact, ReplyLost
  <2>2. call[c].pc \in Busy
    BY <1>2 DEF CasAny, CasExact, ReplyLost, Busy
  <2> QED BY <1>1, <2>1, <2>2 DEF Stream
<1>3. ASSUME NEW c \in Caller,
             \/ \E b \in Batch : Begin(c, b)
             \/ Lookup(c) \/ Scan(c) \/ Register(c) \/ ReadWindow(c) \/ Fails(c)
      PROVE  Stream
  BY <1>3 DEF Begin, Lookup, Scan, Register, ReadWindow, Fails, Stream
<1> QED
  BY <1>2, <1>3 DEF Next, Foreign, vars, Stream

\* Where the rows of the new stream come from.
LEMMA StreamRows ==
    ASSUME IInv, Stream
    PROVE  /\ log' \in Seq(Row) /\ Len(log) \in Nat /\ DOMAIN log = 1 .. Len(log)
           /\ DOMAIN log \subseteq DOMAIN log'
           /\ \A p \in DOMAIN log : log'[p] = log[p]
           /\ \A p \in DOMAIN log' \ DOMAIN log :
                 /\ p > Len(log)
                 /\ \/ log'[p].id = Other
                    \/ \E b \in Batch : Adds(b) /\ log'[p].id \in IdsOf(b)
<1>1. log \in Seq(Row) /\ Len(log) \in Nat /\ DOMAIN log = 1 .. Len(log)
  BY DEF IInv, TypeOK
<1>2. CASE UNCHANGED log
  BY <1>1, <1>2
<1>3. ASSUME NEW b \in Batch, Adds(b)
      PROVE  /\ log' \in Seq(Row) /\ DOMAIN log \subseteq DOMAIN log'
             /\ \A p \in DOMAIN log : log'[p] = log[p]
             /\ \A p \in DOMAIN log' \ DOMAIN log : p > Len(log) /\ log'[p].id \in IdsOf(b)
  <2>1. /\ b.events \in Seq(Row) /\ Len(b.events) \in Nat
        /\ DOMAIN b.events = 1 .. Len(b.events)
    BY BatchAssumption
  <2>2. /\ log' \in Seq(Row) /\ DOMAIN log' = 1 .. Len(log) + Len(b.events)
        /\ \A p \in 1 .. Len(log) : log'[p] = log[p]
        /\ \A p \in Len(log) + 1 .. Len(log) + Len(b.events) : log'[p] = b.events[p - Len(log)]
    BY <1>1, <1>3, <2>1 DEF Adds
  <2>3. ASSUME NEW p \in DOMAIN log' \ DOMAIN log
        PROVE  p > Len(log) /\ log'[p].id \in IdsOf(b)
    <3>1. p \in Len(log) + 1 .. Len(log) + Len(b.events)
      BY <1>1, <2>1, <2>2
    <3>2. p - Len(log) \in DOMAIN b.events
      BY <1>1, <2>1, <3>1
    <3> QED BY <1>1, <2>2, <3>1, <3>2 DEF IdsOf
  <2> QED BY <1>1, <2>1, <2>2, <2>3
<1>4. CASE log' = Append(log, [id |-> Other, body |-> Other])
  <2>1. [id |-> Other, body |-> Other] \in Row
    BY DEF Row
  <2>2. /\ log' \in Seq(Row) /\ DOMAIN log' = 1 .. Len(log) + 1
        /\ \A p \in 1 .. Len(log) : log'[p] = log[p]
        /\ log'[Len(log) + 1] = [id |-> Other, body |-> Other]
    BY <1>1, <1>4, <2>1
  <2>3. ASSUME NEW p \in DOMAIN log' \ DOMAIN log
        PROVE  p > Len(log) /\ log'[p].id = Other
    <3>1. p = Len(log) + 1
      BY <1>1, <2>2
    <3> QED BY <1>1, <2>2, <3>1
  <2> QED BY <1>1, <2>2, <2>3
<1> QED
  BY <1>1, <1>2, <1>3, <1>4 DEF Stream

\* So ids stay in the stream, and an exact batch lands behind its expectation
\* and never once the stream is longer.
LEMMA StreamKeeps ==
    ASSUME IInv, BehindInv, Stream
    PROVE  /\ \A id \in Ids : Here(id) \subseteq Here(id)'
           /\ BehindInv'
           /\ \A b \in Batch : InLog(b) => InLog(b)'
           /\ \A b \in Batch : b.want # AnyHead /\ b.want < Len(log) =>
                 \A p \in DOMAIN log' : log'[p].id \in IdsOf(b) =>
                     p \in DOMAIN log /\ log[p].id \in IdsOf(b)
<1>1. /\ DOMAIN log \subseteq DOMAIN log' /\ Len(log) \in Nat
      /\ \A p \in DOMAIN log : log'[p] = log[p]
      /\ \A p \in DOMAIN log' \ DOMAIN log :
            /\ p > Len(log)
            /\ \/ log'[p].id = Other
               \/ \E b \in Batch : Adds(b) /\ log'[p].id \in IdsOf(b)
  BY StreamRows
<1>2. \A id : Here(id) \subseteq Here(id)'
  BY <1>1 DEF Here
<1>3. \A b \in Batch : InLog(b) => InLog(b)'
  BY <1>2 DEF InLog, IdsOf
<1>4. ASSUME NEW b \in Batch, b.want # AnyHead,
             NEW p \in DOMAIN log' \ DOMAIN log, log'[p].id \in IdsOf(b)
      PROVE  b.want = Len(log)
  <2>1. Other \notin IdsOf(b)
    BY BatchAssumption DEF Ids
  <2>2. PICK e \in Batch : Adds(e) /\ log'[p].id \in IdsOf(e)
    BY <1>1, <1>4, <2>1
  <2>3. e = b
    BY <1>4, <2>2, BatchAssumption
  <2> QED BY <1>4, <2>2, <2>3 DEF Adds
<1>5. BehindInv'
  <2> SUFFICES ASSUME NEW b \in Batch, b.want # AnyHead,
                      NEW p \in DOMAIN log', log'[p].id \in IdsOf(b)
               PROVE  b.want < p
    BY DEF BehindInv, IdsOf
  <2>1. CASE p \in DOMAIN log
    BY <1>1, <2>1 DEF BehindInv
  <2>2. CASE p \notin DOMAIN log
    BY <1>1, <1>4, <2>2
  <2> QED BY <2>1, <2>2
<1>6. ASSUME NEW b \in Batch, b.want # AnyHead, b.want < Len(log),
             NEW p \in DOMAIN log', log'[p].id \in IdsOf(b)
      PROVE  p \in DOMAIN log /\ log[p].id \in IdsOf(b)
  BY <1>1, <1>4, <1>6
<1> QED
  BY <1>2, <1>3, <1>5, <1>6

\* A redelivery of the window is in the stream, id for id.
LEMMA RedeliveryInLog ==
    ASSUME IInv, NEW b \in Batch, NEW lo \in Nat \ {0}, NEW hi \in Nat, hi <= Len(log),
           Reconcile(b, lo, hi) = "redelivery"
    PROVE  InLog(b)
<1>1. Len(log) \in Nat /\ DOMAIN log = 1 .. Len(log)
  BY DEF IInv, TypeOK
<1>2. PICK f \in [DOMAIN b.events -> lo .. hi] :
         \A i \in DOMAIN f : log[f[i]].id = b.events[i].id
  BY DEF Reconcile
<1>3. ASSUME NEW i \in DOMAIN b.events PROVE Here(b.events[i].id) # {}
  <2>1. f[i] \in DOMAIN log /\ log[f[i]].id = b.events[i].id
    BY <1>1, <1>2
  <2> QED BY <2>1 DEF Here
<1> QED
  BY <1>3 DEF InLog, IdsOf

\* What an answer drawn from a window means.
LEMMA SeenIsTrue ==
    ASSUME IInv, NEW c \in Caller, call[c].pc \in Busy,
           NEW lo \in Nat \ {0}, NEW hi \in Nat, hi <= Len(log),
           NEW absent \in {"cas", "conflict"}
    PROVE  /\ Seen(c, lo, hi, absent)[c].pc \in {"ok", "register"} => InLog(call[c].batch)
           /\ Seen(c, lo, hi, absent)[c].pc \in {absent, "divergent", "register", "ok", "overlap"}
           /\ Seen(c, lo, hi, absent)[c].batch = call[c].batch
           /\ Seen(c, lo, hi, absent)[c].pc = "conflict" =>
                 \A p \in lo .. hi : log[p].id \notin IdsOf(call[c].batch)
<1>1. call \in [Caller -> Calls] /\ call[c].batch \in Batch /\ call[c] \in Calls
  BY CallFacts
<1>2. ASSUME NEW pc, NEW at
      PROVE  Answer(c, pc, at)[c].pc = pc /\ Answer(c, pc, at)[c].batch = call[c].batch
  BY <1>1 DEF Answer, Calls
<1>3. PICK pc \in {absent, "divergent", "register", "ok", "overlap"}, at \in Nat :
        /\ Seen(c, lo, hi, absent) = Answer(c, pc, at)
        /\ pc = absent => \A p \in lo .. hi : log[p].id \notin IdsOf(call[c].batch)
  <2>1. PICK pc, at : Outcome(c, lo, hi, absent, pc, at)
    BY SeenAnswers
  <2> QED BY <2>1 DEF Outcome
<1>4. ASSUME pc \in {"ok", "register"} PROVE Reconcile(call[c].batch, lo, hi) = "redelivery"
  <2>1. Reconcile(call[c].batch, lo, hi) \in {"redelivery", "overlap", "absent"}
    BY DEF Reconcile
  <2>2. Reconcile(call[c].batch, lo, hi) = "absent" => Seen(c, lo, hi, absent)[c].pc = absent
    BY <1>2 DEF Seen
  <2>3. Reconcile(call[c].batch, lo, hi) = "overlap" => Seen(c, lo, hi, absent)[c].pc = "overlap"
    BY <1>2 DEF Seen
  <2> QED BY <1>2, <1>3, <1>4, <2>1, <2>2, <2>3
<1> QED
  BY <1>1, <1>2, <1>3, <1>4, RedeliveryInLog

\* What the next state of a call of batch b may say.
Told(c, b) ==
    /\ call[c].pc \in Busy
    /\ call'[c].batch = b
    /\ call'[c].pc \in {"ok", "register"} => \A id \in IdsOf(b) : Here(id)' # {}
    /\ call'[c].pc = "conflict" => \A id \in IdsOf(b) : Here(id) = {}
    /\ call'[c].pc = "window" =>
          \A p \in DOMAIN log' : log'[p].id \in IdsOf(b) => p <= call'[c].head

LEMMA LandedTold ==
    ASSUME TruthInv, Stream, NEW c \in Caller, call[c].pc \in Busy,
           NEW b \in Batch, b = call[c].batch,
           NEW pc \in {"ok", "error", "register"}, Landed(c, pc)
    PROVE  Told(c, b)
<1>1. IInv /\ call \in [Caller -> Calls] /\ Len(log) \in Nat /\ log \in Seq(Row)
  BY CallFacts DEF TruthInv
<1>2. call'[c].pc = pc /\ call'[c].batch = b
  BY <1>1 DEF Landed, Calls
<1>3. log' = log \o b.events
  BY DEF Landed
<1>4. ASSUME NEW i \in DOMAIN b.events PROVE Here(b.events[i].id)' # {}
  <2>1. /\ b.events \in Seq(Row) /\ Len(b.events) \in Nat
        /\ DOMAIN b.events = 1 .. Len(b.events)
    BY BatchAssumption
  <2>2. /\ DOMAIN log' = 1 .. Len(log) + Len(b.events)
        /\ log'[Len(log) + i] = b.events[i]
    BY <1>1, <1>3, <2>1
  <2>3. Len(log) + i \in DOMAIN log'
    BY <1>1, <2>1, <2>2
  <2> QED BY <2>2, <2>3 DEF Here
<1> QED
  BY <1>2, <1>4 DEF Told, IdsOf

LEMMA LookupTold ==
    ASSUME TruthInv, NEW c \in Caller, NEW b \in Batch, b = call[c].batch, Lookup(c)
    PROVE  Told(c, b)
<1>1. call[c].pc \in Busy /\ IInv /\ call \in [Caller -> Calls] /\ registry \in [Ids -> Nat]
  BY CallFacts DEF Lookup, Busy, TruthInv
<1>2. LastId(b) \in IdsOf(b) /\ IdsOf(b) \subseteq Ids
  BY BatchAssumption DEF LastId, IdsOf, Ids
<1>3. PICK pc \in {"ok", "scan", "overlap"}, at \in Nat :
        /\ pc = "ok" => Classify(b) = "redelivery"
        /\ call' = Answer(c, pc, at)
  BY <1>1, <1>2 DEF Lookup
<1>4. Moves(c, pc)
  BY <1>1, <1>3, AnswerMoves DEF Busy, Answered
<1>5. pc = "ok" => \A id \in IdsOf(b) : Here(id) # {}
  BY <1>2, <1>3, ClassifyRight DEF TruthInv
<1>6. \A id : Here(id)' = Here(id)
  BY DEF Lookup, Here
<1> QED
  BY <1>1, <1>3, <1>4, <1>5, <1>6 DEF Told, Moves

LEMMA ScanTold ==
    ASSUME TruthInv, NEW c \in Caller, NEW b \in Batch, b = call[c].batch, Scan(c)
    PROVE  Told(c, b)
<1>1. /\ call[c].pc \in Busy /\ IInv /\ call \in [Caller -> Calls] /\ Len(log) \in Nat
      /\ Window \in Nat
  BY CallFacts, BatchAssumption DEF Scan, Busy, TruthInv
<1>2. \A id : Here(id)' = Here(id)
  BY DEF Scan, Here
<1>3. CASE call[c].tries = Attempts
  <2>1. call'[c].pc = "error" /\ call'[c].batch = b
    BY <1>1, <1>3 DEF Scan, Answer, Calls
  <2> QED BY <1>1, <2>1 DEF Told
<1>4. CASE call[c].tries # Attempts
  <2>0. PICK lo \in Nat \ {0} :
          lo = IF Len(log) > Window THEN Len(log) - Window + 1 ELSE 1
    BY <1>1
  <2>1. call' = [Seen(c, lo, Len(log), "cas") EXCEPT ![c].head = Len(log)]
    BY <1>4, <2>0 DEF Scan
  <2>5. Len(log) <= Len(log)
    BY <1>1
  <2>2. /\ Seen(c, lo, Len(log), "cas")[c].pc \in {"ok", "register"} => InLog(b)
        /\ Seen(c, lo, Len(log), "cas")[c].pc \in {"cas", "divergent", "register", "ok", "overlap"}
        /\ Seen(c, lo, Len(log), "cas")[c].batch = b
    BY <1>1, <2>5, SeenIsTrue
  <2>3. PICK pc \in {"cas", "divergent", "register", "ok", "overlap"}, at \in Nat :
          Seen(c, lo, Len(log), "cas") = Answer(c, pc, at)
    <3>1. PICK pc, at : Outcome(c, lo, Len(log), "cas", pc, at)
      BY <1>1, <2>5, SeenAnswers
    <3> QED BY <3>1 DEF Outcome
  <2>4. /\ call'[c].pc = Seen(c, lo, Len(log), "cas")[c].pc
        /\ call'[c].batch = Seen(c, lo, Len(log), "cas")[c].batch
    BY <1>1, <2>1, <2>3 DEF Answer, Calls
  <2> QED BY <1>1, <1>2, <2>2, <2>4 DEF Told, InLog
<1> QED
  BY <1>3, <1>4

LEMMA CasExactTold ==
    ASSUME TruthInv, Stream, NEW c \in Caller, NEW b \in Batch, b = call[c].batch, CasExact(c)
    PROVE  Told(c, b)
<1>1. /\ call[c].pc = "exact" /\ call[c].pc \in Busy /\ IInv
      /\ call \in [Caller -> Calls] /\ Len(log) \in Nat /\ DOMAIN log = 1 .. Len(log)
  BY CallFacts DEF CasExact, Busy, TruthInv
<1>2. b.want # AnyHead /\ b.want \in Nat
  BY <1>1, BatchAssumption DEF IInv, CallInv
<1>3. CASE b.want = Len(log)
  BY <1>1, <1>3, LandedTold DEF CasExact
<1>4. CASE b.want # Len(log)
  <2>1. /\ call'[c].pc = IF Len(log) > b.want THEN "window" ELSE "conflict"
        /\ call'[c].batch = b /\ call'[c].head = Len(log) /\ UNCHANGED log
    BY <1>1, <1>4 DEF CasExact, Answer, Calls
  <2>2. Len(log) < b.want => \A id \in IdsOf(b) : Here(id) = {}
    <3>1. \A p \in DOMAIN log : log[p].id \in IdsOf(b) => b.want < Len(log)
      BY <1>1, <1>2 DEF IInv, ExactInv
    <3> QED BY <1>1, <1>2, <3>1 DEF Here
  <2> QED BY <1>1, <1>2, <1>4, <2>1, <2>2 DEF Told
<1> QED
  BY <1>3, <1>4

\* The rows behind the expectation, up to the head of the refusal, are all there
\* ever will be of the batch.
LEMMA ReadWindowTold ==
    ASSUME TruthInv, NEW c \in Caller, NEW b \in Batch, b = call[c].batch, ReadWindow(c)
    PROVE  Told(c, b)
<1>1. /\ call[c].pc = "window" /\ call[c].pc \in Busy /\ IInv /\ call[c].head \in Nat
      /\ call \in [Caller -> Calls] /\ Len(log) \in Nat /\ DOMAIN log = 1 .. Len(log)
  BY CallFacts DEF ReadWindow, Busy, TruthInv
<1>2. b.want # AnyHead /\ b.want \in Nat /\ call[c].head <= Len(log)
  BY <1>1, BatchAssumption DEF IInv, CallInv
<1>3. /\ \A p \in DOMAIN log : log[p].id \in IdsOf(b) => b.want < p
      /\ \A p \in DOMAIN log : log[p].id \in IdsOf(b) => p <= call[c].head
  BY <1>1, <1>2 DEF TruthInv, BehindInv, WindowOk
<1>4. \A id : Here(id)' = Here(id)
  BY DEF ReadWindow, Here
<1>5. PICK lo \in Nat \ {0} : lo = b.want + 1 /\ call' = Seen(c, lo, call[c].head, "conflict")
  BY <1>2 DEF ReadWindow
<1>6. /\ call'[c].pc \in {"ok", "register"} => InLog(b)
      /\ call'[c].pc \in {"conflict", "divergent", "register", "ok", "overlap"}
      /\ call'[c].batch = b
      /\ call'[c].pc = "conflict" => \A p \in lo .. call[c].head : log[p].id \notin IdsOf(b)
  BY <1>1, <1>2, <1>5, SeenIsTrue, SMTT(40)
<1>7. (\A p \in lo .. call[c].head : log[p].id \notin IdsOf(b)) =>
         \A id \in IdsOf(b) : Here(id) = {}
  <2> SUFFICES ASSUME \A p \in lo .. call[c].head : log[p].id \notin IdsOf(b),
                      NEW p \in DOMAIN log, log[p].id \in IdsOf(b)
               PROVE  FALSE
    BY DEF Here
  <2>1. b.want < p /\ p <= call[c].head
    BY <1>3
  <2> QED BY <1>1, <1>2, <1>5, <2>1
<1> QED
  BY <1>1, <1>4, <1>6, <1>7 DEF Told, InLog

LEMMA ActorTold ==
    ASSUME TruthInv, Stream, NEW c \in Caller, NEW b \in Batch, b = call[c].batch,
           \/ Lookup(c) \/ Scan(c) \/ CasAny(c) \/ Register(c)
           \/ CasExact(c) \/ ReadWindow(c) \/ Fails(c) \/ ReplyLost(c)
    PROVE  Told(c, b)
<1>0. IInv /\ call \in [Caller -> Calls]
  BY DEF TruthInv, IInv, TypeOK, Calls
<1>1. CASE CasAny(c)
  <2>1. call[c].pc = "cas" /\ call[c].pc \in Busy
    BY <1>1 DEF CasAny, Busy
  <2>2. CASE Landed(c, "register")
    BY <2>1, <2>2, LandedTold
  <2>3. CASE call' = [call EXCEPT ![c].pc = "scan", ![c].tries = @ + 1]
    <3>1. call'[c].pc = "scan" /\ call'[c].batch = b
      BY <1>0, <2>3 DEF Calls
    <3> QED BY <2>1, <3>1 DEF Told
  <2> QED BY <1>1, <2>2, <2>3 DEF CasAny
<1>2. CASE Register(c)
  <2>1. call[c].pc = "register" /\ call[c].pc \in Busy /\ InLog(b)
    BY <1>2 DEF Register, Busy, TruthInv
  <2>2. \A id : Here(id)' = Here(id)
    BY <1>2 DEF Register, Here
  <2>3. call'[c].pc = "ok" /\ call'[c].batch = b
    BY <1>0, <1>2 DEF Register, Answer, Calls
  <2> QED BY <2>1, <2>2, <2>3 DEF Told, InLog
<1>3. CASE Fails(c)
  <2>1. call'[c].pc = "error" /\ call'[c].batch = b
    BY <1>0, <1>3 DEF Fails, Answer, Calls
  <2> QED BY <1>3, <2>1 DEF Told, Fails
<1>4. CASE ReplyLost(c)
  BY <1>4, LandedTold DEF ReplyLost, Busy
<1> QED
  BY <1>1, <1>2, <1>3, <1>4, LookupTold, ScanTold, CasExactTold, ReadWindowTold

\* No action of a call touches another one.
LEMMA OthersUntouched ==
    ASSUME call \in [Caller -> Calls], NEW d \in Caller, NEW c \in Caller, c # d,
           \/ Lookup(d) \/ Scan(d) \/ CasAny(d) \/ Register(d)
           \/ CasExact(d) \/ ReadWindow(d) \/ Fails(d) \/ ReplyLost(d)
    PROVE  call'[c] = call[c]
<1>1. ASSUME NEW pc, NEW at
      PROVE  Answer(d, pc, at)[c] = call[c] /\ DOMAIN Answer(d, pc, at) = Caller
  BY DEF Answer
<1>2. ASSUME NEW lo, NEW hi, NEW absent
      PROVE  Seen(d, lo, hi, absent)[c] = call[c] /\ DOMAIN Seen(d, lo, hi, absent) = Caller
  <2> DEFINE found == Reconcile(call[d].batch, lo, hi)
  <2>1. found \in {"redelivery", "overlap", "absent"}
    BY DEF Reconcile
  <2>2. CASE found = "absent"
    <3>1. Seen(d, lo, hi, absent) = Answer(d, absent, 0)
      BY <2>2 DEF Seen
    <3> QED BY <1>1, <3>1
  <2>3. CASE found = "redelivery" /\ ~Identical(call[d].batch, lo, hi)
    <3>1. Seen(d, lo, hi, absent) = Answer(d, "divergent", 0)
      BY <2>3 DEF Seen
    <3> QED BY <1>1, <3>1
  <2>4. CASE found = "redelivery" /\ Identical(call[d].batch, lo, hi)
    <3>1. Seen(d, lo, hi, absent)
            = Answer(d, IF call[d].batch.want = AnyHead THEN "register" ELSE "ok",
                     First(LastId(call[d].batch), lo, hi))
      BY <2>4 DEF Seen
    <3> QED BY <1>1, <3>1
  <2>5. CASE found = "overlap"
    <3>1. Seen(d, lo, hi, absent) = Answer(d, "overlap", 0)
      BY <2>5 DEF Seen
    <3> QED BY <1>1, <3>1
  <2> HIDE DEF found
  <2> QED BY <2>1, <2>2, <2>3, <2>4, <2>5
<1>3. CASE Scan(d)
  <2>1. PICK lo : \/ call' = Answer(d, "error", 0)
                  \/ call' = [Seen(d, lo, Len(log), "cas") EXCEPT ![d].head = Len(log)]
    BY <1>3 DEF Scan
  <2>2. /\ DOMAIN Seen(d, lo, Len(log), "cas") = Caller
        /\ Seen(d, lo, Len(log), "cas")[c] = call[c]
    BY <1>2
  <2> QED BY <1>1, <2>1, <2>2
<1>4. CASE ReadWindow(d)
  BY <1>2, <1>4 DEF ReadWindow
<1>5. CASE CasExact(d)
  <2>1. CASE Landed(d, "ok")
    BY <2>1 DEF Landed
  <2>2. CASE \E pc : call' = [Answer(d, pc, 0) EXCEPT ![d].head = Len(log)]
    BY <1>1, <2>2
  <2> QED BY <1>5, <2>1, <2>2 DEF CasExact
<1>6. CASE CasAny(d) \/ ReplyLost(d)
  BY <1>6 DEF CasAny, ReplyLost, Landed
<1>7. CASE Lookup(d) \/ Register(d) \/ Fails(d)
  BY <1>1, <1>7 DEF Lookup, Register, Fails
<1> QED
  BY <1>3, <1>4, <1>5, <1>6, <1>7

\* One step: what every call says is true, and TruthInv goes on.
LEMMA TruthStep ==
    ASSUME TruthInv, [Next]_vars
    PROVE  /\ \A c \in Caller : call'[c] = call[c] \/ call[c].pc \notin Busy
                                  \/ Told(c, call[c].batch)
           /\ TruthInv'
<1>0. IInv /\ IInv' /\ Stream /\ BehindInv /\ call \in [Caller -> Calls]
  <2>1. IInv
    BY DEF TruthInv
  <2> QED BY <2>1, NextIInv, StepStream DEF TruthInv, IInv, TypeOK, Calls
<1>1. /\ \A id \in Ids : Here(id) \subseteq Here(id)'
      /\ BehindInv'
      /\ \A b \in Batch : b.want # AnyHead /\ b.want < Len(log) =>
            \A p \in DOMAIN log' : log'[p].id \in IdsOf(b) =>
                p \in DOMAIN log /\ log[p].id \in IdsOf(b)
  BY <1>0, StreamKeeps
<1>2. ASSUME NEW c \in Caller
      PROVE  \/ call'[c] = call[c]
             \/ call'[c].pc \in {"exact", "lookup", "scan"} /\ call[c].pc \notin Busy
             \/ call[c].batch \in Batch /\ Told(c, call[c].batch)
  <2>1. ASSUME NEW d \in Caller,
               \/ Lookup(d) \/ Scan(d) \/ CasAny(d) \/ Register(d)
               \/ CasExact(d) \/ ReadWindow(d) \/ Fails(d) \/ ReplyLost(d)
        PROVE  \/ call'[c] = call[c]
               \/ call[c].batch \in Batch /\ Told(c, call[c].batch)
    <3>1. call[d].pc \in Busy
      BY <2>1 DEF Lookup, Scan, CasAny, Register, CasExact, ReadWindow, Fails, ReplyLost, Busy
    <3>2. call[d].batch \in Batch
      BY <1>0, <3>1 DEF IInv, CallInv
    <3>3. CASE c = d
      <4>1. PICK b \in Batch : b = call[c].batch
        BY <3>2, <3>3
      <4>2. Told(c, b)
        BY <1>0, <2>1, <3>3, <4>1, ActorTold
      <4> QED BY <4>1, <4>2
    <3>4. CASE c # d
      BY <1>0, <2>1, <3>4, OthersUntouched
    <3> QED BY <3>3, <3>4
  <2>2. ASSUME NEW d \in Caller, NEW b \in Batch, Begin(d, b)
        PROVE  \/ call'[c] = call[c]
               \/ call'[c].pc \in {"exact", "lookup", "scan"} /\ call[c].pc \notin Busy
    BY <1>0, <2>2 DEF Begin
  <2>3. CASE Foreign \/ UNCHANGED vars
    BY <2>3 DEF Foreign, vars
  <2> QED BY <2>1, <2>2, <2>3 DEF Next
<1>3. ASSUME NEW id \in Ids, registry'[id] # 0 PROVE Here(id)' # {}
  <2>1. CASE registry[id] # 0
    BY <1>1, <2>1 DEF TruthInv
  <2>2. CASE registry[id] = 0
    <3>1. PICK c \in Caller : Register(c)
      BY <1>3, <2>2 DEF Next, Begin, Lookup, Scan, CasAny, CasExact, ReadWindow, Fails,
         ReplyLost, Foreign, vars
    <3>2. id \in IdsOf(call[c].batch)
      BY <1>3, <2>2, <3>1 DEF Register
    <3>3. Here(id) # {}
      BY <3>1, <3>2 DEF Register, TruthInv, InLog
    <3> QED BY <1>1, <3>3
  <2> QED BY <2>1, <2>2
<1>4. ASSUME NEW c \in Caller
      PROVE  /\ call'[c].pc = "register" => InLog(call[c].batch)'
             /\ WindowOk(call[c])'
  <2>1. CASE call'[c] = call[c]
    <3>1. ASSUME call[c].pc = "register", NEW id \in IdsOf(call[c].batch)
          PROVE  Here(id)' # {}
      <4>1. Here(id) # {}
        BY <3>1 DEF TruthInv, InLog
      <4>2. id \in Ids
        BY <1>0, <3>1 DEF IInv, CallInv, Busy, Ids
      <4> QED BY <1>1, <4>1, <4>2
    <3>2. ASSUME call[c].pc = "window",
                 NEW p \in DOMAIN log', log'[p].id \in IdsOf(call[c].batch)
          PROVE  p <= call[c].head
      <4>1. call[c].batch \in Batch /\ call[c].batch.want # AnyHead /\ call[c].batch.want < Len(log)
        BY <1>0, <3>2 DEF IInv, CallInv, Busy
      <4>2. p \in DOMAIN log /\ log[p].id \in IdsOf(call[c].batch)
        BY <1>1, <3>2, <4>1
      <4> QED BY <3>2, <4>2 DEF TruthInv, WindowOk
    <3> QED BY <2>1, <3>1, <3>2 DEF InLog, WindowOk, IdsOf
  <2>2. CASE call'[c].pc \in {"exact", "lookup", "scan"}
    BY <2>2 DEF WindowOk
  <2>3. CASE Told(c, call[c].batch)
    BY <2>3 DEF Told, InLog, WindowOk, IdsOf
  <2> QED BY <1>2, <2>1, <2>2, <2>3
<1>5. TruthInv'
  BY <1>0, <1>1, <1>3, <1>4 DEF TruthInv
<1> QED
  BY <1>2, <1>5

\* With a registry or without: when append_to_stream answers Ok every event of
\* the batch is in the stream, and when it answers a conflict none is, so that
\* deciding the command again cannot apply it twice.
THEOREM AnswersAreTrueHolds == Spec => AnswersAreTrue
<1> DEFINE True == \A c \in Caller : call[c].pc \in Busy =>
          /\ call'[c].pc = "ok" => \A id \in IdsOf(call[c].batch) : Here(id)' # {}
          /\ call'[c].pc = "conflict" => \A id \in IdsOf(call[c].batch) : Here(id) = {}
<1>1. Init => TruthInv
  <2> SUFFICES ASSUME Init PROVE TruthInv
    OBVIOUS
  <2>1. IInv
    BY InitIInv
  <2>2. \A c \in Caller : call[c].pc = "idle"
    BY DEF Init, Idle
  <2> QED BY <2>1, <2>2 DEF Init, TruthInv, WindowOk, BehindInv
<1>2. TruthInv /\ [Next]_vars => TruthInv'
  BY TruthStep
<1>3. TruthInv /\ [Next]_vars => True
  <2> SUFFICES ASSUME TruthInv, [Next]_vars, NEW c \in Caller, call[c].pc \in Busy
               PROVE  /\ call'[c].pc = "ok" =>
                            \A id \in IdsOf(call[c].batch) : Here(id)' # {}
                      /\ call'[c].pc = "conflict" =>
                            \A id \in IdsOf(call[c].batch) : Here(id) = {}
    OBVIOUS
  <2>1. call'[c] = call[c] \/ Told(c, call[c].batch)
    BY TruthStep
  <2> QED BY <2>1 DEF Told, Busy
<1> QED
  BY <1>1, <1>2, <1>3, PTL DEF Spec, AnswersAreTrue

=============================================================================
