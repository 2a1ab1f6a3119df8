--------------------------- MODULE CommandsProofs ---------------------------
(***************************************************************************)
(* For every set of callers, plans, tries and failures: a command sits at  *)
(* the revision it was decided on and takes effect once, an emit lands run *)
(* by run, and the log keeps its contract; the registry and the snapshots  *)
(* are folds of prefixes of the stream unless a fold tears a save, and one *)
(* restore or repair closes a gap.                                         *)
(***************************************************************************)
EXTENDS Commands, Integers, FiniteSetTheorems, SequenceTheorems, WellFoundedInduction, TLAPS

-----------------------------------------------------------------------------
(* A finite set of naturals, the least first.                                *)

\* A function on 1 .. k is a sequence.
LEMMA FunIsSeq ==
    ASSUME NEW k \in Nat, NEW S, NEW f \in [1 .. k -> S]
    PROVE  f \in Seq(S) /\ Len(f) = k /\ DOMAIN f = 1 .. k
<1>1. f \in Seq(S)
  BY SeqDef
<1>2. Len(f) \in Nat /\ DOMAIN f = 1 .. Len(f)
  BY <1>1, LenProperties
<1>3. 1 .. Len(f) = 1 .. k
  BY <1>2
<1> QED
  BY <1>1, <1>2, <1>3

LEMMA LeastOf ==
    ASSUME NEW S \in SUBSET Nat, S # {}
    PROVE  \E x \in S : \A y \in S : x <= y
<1> DEFINE less == OpToRel(<, Nat)
<1>1. IsWellFoundedOn(less, Nat)
  BY NatLessThanWellFounded
<1>2. PICK x \in S : \A y \in S : <<y, x>> \notin less
  BY <1>1, WFMin, Zenon
<1>3. ASSUME NEW y \in S, y < x PROVE FALSE
  <2>1. <<y, x>> \in less
    BY <1>3 DEF OpToRel
  <2> QED
    BY <1>2, <2>1
<1> QED
  BY <1>3

IsAscending(f, S) ==
    /\ f \in [1 .. Cardinality(S) -> S]
    /\ \A i, j \in 1 .. Cardinality(S) : i < j => f[i] < f[j]

LEMMA Sized ==
    ASSUME NEW n \in Nat, NEW S \in SUBSET (0 .. n - 1)
    PROVE  IsFiniteSet(S) /\ Cardinality(S) \in Nat
<1>1. IsFiniteSet(0 .. n - 1)
  BY FS_Interval
<1> QED
  BY <1>1, FS_Subset, FS_CardinalityType

\* Adding what is greater than all the others.
LEMMA AscendingGrows ==
    ASSUME NEW S, IsFiniteSet(S), S \in SUBSET Nat, NEW x \in Nat, \A y \in S : y < x,
           NEW f, IsAscending(f, S)
    PROVE  LET k == Cardinality(S) IN
           /\ Cardinality(S \cup {x}) = k + 1
           /\ IsAscending([i \in 1 .. k + 1 |-> IF i <= k THEN f[i] ELSE x], S \cup {x})
<1> DEFINE k == Cardinality(S)
           T == S \cup {x}
           g == [i \in 1 .. k + 1 |-> IF i <= k THEN f[i] ELSE x]
<1>1. k \in Nat /\ x \notin S
  BY FS_CardinalityType
<1>2. Cardinality(T) = k + 1
  BY <1>1, FS_AddElement
<1>3. f \in [1 .. k -> S] /\ \A i, j \in 1 .. k : i < j => f[i] < f[j]
  BY DEF IsAscending
<1> HIDE DEF k
<1>4. g \in [1 .. k + 1 -> T]
  BY <1>1, <1>3
<1>5. ASSUME NEW i \in 1 .. k + 1, NEW j \in 1 .. k + 1, i < j PROVE g[i] < g[j]
  <2>1. i \in 1 .. k /\ g[i] = f[i] /\ f[i] \in S
    BY <1>1, <1>3, <1>5
  <2>2. CASE j = k + 1
    <3>1. g[j] = x
      BY <1>1, <2>2
    <3> QED
      BY <2>1, <3>1
  <2>3. CASE j # k + 1
    <3>1. j \in 1 .. k /\ g[j] = f[j]
      BY <1>1, <2>3
    <3> QED
      BY <1>3, <1>5, <2>1, <3>1
  <2> QED
    BY <2>2, <2>3
<1> QED
  BY <1>2, <1>4, <1>5 DEF IsAscending, k

LEMMA AscendingExists ==
    ASSUME NEW n \in Nat, NEW S \in SUBSET (0 .. n - 1)
    PROVE  \E f : IsAscending(f, S)
<1> DEFINE Bad == {m \in Nat : \E T \in SUBSET (0 .. m - 1) : ~\E f : IsAscending(f, T)}
<1>1. ASSUME Bad # {} PROVE FALSE
  <2>1. PICK m \in Bad : \A y \in Bad : m <= y
    BY <1>1, LeastOf
  <2>2. PICK T \in SUBSET (0 .. m - 1) : ~\E f : IsAscending(f, T)
    BY <2>1
  <2>3. m \in Nat /\ T \subseteq Nat
    BY <2>1
  <2>4. T # {}
    <3>1. ASSUME T = {} PROVE IsAscending([i \in 1 .. 0 |-> 0], T)
      BY <3>1, FS_EmptySet DEF IsAscending
    <3> QED
      BY <2>2, <3>1, Zenon
  <2>5. m # 0 /\ m - 1 \in Nat /\ m - 1 \notin Bad
    <3>1. m # 0
      <4>1. ASSUME m = 0 PROVE FALSE
        <5>1. 0 .. m - 1 = {} /\ T \in SUBSET (0 .. m - 1)
          BY <4>1
        <5> QED
          BY <2>4, <5>1
      <4> QED
        BY <4>1
    <3>2. m - 1 \in Nat /\ ~(m <= m - 1)
      BY <2>3, <3>1
    <3> HIDE DEF Bad
    <3> QED
      BY <2>1, <3>1, <3>2
  <2> DEFINE U == T \ {m - 1}
  <2>6. U \in SUBSET (0 .. (m - 1) - 1)
    BY <2>3, <2>5
  <2>7. PICK f : IsAscending(f, U)
    BY <2>5, <2>6
  <2>8. m - 1 \in T
    BY <2>2, <2>7
  <2>9. U \cup {m - 1} = T /\ U \subseteq Nat /\ \A y \in U : y < m - 1
    BY <2>3, <2>6, <2>8
  <2>10. IsFiniteSet(U)
    BY <2>5, <2>6, Sized
  <2> HIDE DEF U
  <2>11. \E g : IsAscending(g, T)
    BY <2>5, <2>7, <2>9, <2>10, AscendingGrows
  <2> QED
    BY <2>2, <2>11
<1> QED
  BY <1>1

\* Every element occurs.
Onto(f, S) == \A x \in S : \E i \in 1 .. Cardinality(S) : f[i] = x

LEMMA AscendingOnto ==
    ASSUME NEW S, IsFiniteSet(S), S \in SUBSET Nat, NEW f, IsAscending(f, S)
    PROVE  Onto(f, S)
<1> DEFINE k == Cardinality(S)
<1>1. k \in Nat /\ IsFiniteSet(1 .. k) /\ Cardinality(1 .. k) = k
  <2>1. k \in Nat
    BY FS_CardinalityType
  <2> QED
    BY <2>1, FS_Interval
<1>2. f \in [1 .. k -> S] /\ \A i, j \in 1 .. k : i < j => f[i] < f[j]
  BY DEF IsAscending
<1>3. ASSUME NEW i \in 1 .. k, NEW j \in 1 .. k, f[i] = f[j] PROVE i = j
  <2>1. f[i] \in Nat /\ f[j] \in Nat
    BY <1>2
  <2>2. ~(i < j) /\ ~(j < i)
    BY <1>2, <1>3, <2>1
  <2> QED
    BY <1>1, <2>2
<1>4. f \in Injection(1 .. k, S)
  BY <1>2, <1>3 DEF Injection, IsInjective
<1>5. f \in Surjection(1 .. k, S)
  BY <1>1, <1>4, FS_Injection
<1> QED
  BY <1>5 DEF Surjection, Onto

LEMMA AscendingUnique ==
    ASSUME NEW S, IsFiniteSet(S), S \in SUBSET Nat,
           NEW f, NEW g, IsAscending(f, S), IsAscending(g, S)
    PROVE  f = g
<1> DEFINE k == Cardinality(S)
<1>1. /\ k \in Nat /\ f \in [1 .. k -> S] /\ g \in [1 .. k -> S]
      /\ \A i, j \in 1 .. k : i < j => f[i] < f[j] /\ g[i] < g[j]
  BY FS_CardinalityType DEF IsAscending
<1>2. \A x \in S : /\ \E i \in 1 .. k : f[i] = x
                  /\ \E i \in 1 .. k : g[i] = x
  <2>1. Onto(f, S) /\ Onto(g, S)
    BY AscendingOnto
  <2> QED
    BY <1>1, <2>1 DEF Onto
<1> HIDE DEF k
<1> DEFINE Differ == {i \in 1 .. k : f[i] # g[i]}
<1>3. ASSUME NEW i \in Differ, \A j \in Differ : i <= j PROVE FALSE
  <2>1. i \in 1 .. k /\ f[i] \in Nat /\ g[i] \in Nat /\ f[i] # g[i]
    BY <1>1
  <2>2. \A j \in 1 .. k : j < i => f[j] = g[j]
    BY <1>1, <1>3, <2>1
  <2>3. PICK a \in 1 .. k : g[a] = f[i]
    BY <1>1, <1>2, <2>1
  <2>4. PICK b \in 1 .. k : f[b] = g[i]
    BY <1>1, <1>2, <2>1
  <2>5. ~(a < i) /\ ~(b < i)
    <3>1. a < i => f[a] = f[i] /\ f[a] < f[i]
      BY <1>1, <2>1, <2>2, <2>3
    <3>2. b < i => g[b] = g[i] /\ g[b] < g[i]
      BY <1>1, <2>1, <2>2, <2>4
    <3> QED
      BY <2>1, <3>1, <3>2
  <2>6. a # i /\ b # i
    BY <2>1, <2>3, <2>4
  <2>7. i < a /\ i < b
    BY <1>1, <2>1, <2>5, <2>6
  <2>8. g[i] < f[i] /\ f[i] < g[i]
    BY <1>1, <2>1, <2>3, <2>4, <2>7
  <2> QED
    BY <2>1, <2>8
<1>4. Differ \in SUBSET Nat
  BY <1>1
<1>5. Differ = {}
  BY <1>3, <1>4, LeastOf
<1> QED
  BY <1>1, <1>5

LEMMA AscendingIs ==
    ASSUME NEW n \in Nat, NEW S \in SUBSET (0 .. n - 1)
    PROVE  /\ IsFiniteSet(S) /\ S \in SUBSET Nat /\ Cardinality(S) \in Nat
           /\ IsAscending(Ascending(S), S)
<1>1. \E f : IsAscending(f, S)
  BY AscendingExists
<1>2. IsAscending(Ascending(S), S)
  BY <1>1 DEF Ascending, IsAscending
<1> QED
  BY <1>2, Sized

LEMMA AscendingOf ==
    ASSUME NEW n \in Nat, NEW S \in SUBSET (0 .. n - 1), NEW f, IsAscending(f, S)
    PROVE  Ascending(S) = f
  BY AscendingIs, AscendingUnique

\* As a sequence.
LEMMA AscendingSeq ==
    ASSUME NEW n \in Nat, NEW S \in SUBSET (0 .. n - 1)
    PROVE  /\ Ascending(S) \in Seq(S) /\ Len(Ascending(S)) = Cardinality(S)
           /\ DOMAIN Ascending(S) = 1 .. Cardinality(S)
<1>1. Cardinality(S) \in Nat /\ Ascending(S) \in [1 .. Cardinality(S) -> S]
  BY AscendingIs DEF IsAscending
<1> QED
  BY <1>1, FunIsSeq

LEMMA AscendingAppend ==
    ASSUME NEW n \in Nat, NEW S \in SUBSET (0 .. n - 1), NEW x \in Nat, \A y \in S : y < x
    PROVE  Ascending(S \cup {x}) = Append(Ascending(S), x)
<1> DEFINE f == Ascending(S)
           k == Cardinality(S)
           g == [i \in 1 .. k + 1 |-> IF i <= k THEN f[i] ELSE x]
<1>1. IsFiniteSet(S) /\ S \in SUBSET Nat /\ k \in Nat /\ IsAscending(f, S)
  BY AscendingIs
<1>2. f \in Seq(Nat) /\ Len(f) = k /\ DOMAIN f = 1 .. k
  <2>1. f \in [1 .. k -> Nat]
    BY <1>1 DEF IsAscending
  <2> HIDE DEF f, k
  <2> QED
    BY <1>1, <2>1, FunIsSeq
<1>3. IsAscending(g, S \cup {x})
  BY <1>1, AscendingGrows
<1>4. S \cup {x} \in SUBSET (0 .. (n + x + 1) - 1) /\ n + x + 1 \in Nat
  OBVIOUS
<1>5. Ascending(S \cup {x}) = g
  BY <1>3, <1>4, AscendingOf
<1> HIDE DEF f, k
<1>6. Append(f, x) = g
  <2>1. /\ Append(f, x) \in Seq(Nat) /\ Len(Append(f, x)) = k + 1
        /\ \A i \in 1 .. k + 1 : Append(f, x)[i] = IF i <= k THEN f[i] ELSE x
    BY <1>1, <1>2
  <2>2. DOMAIN Append(f, x) = 1 .. k + 1 /\ Append(f, x) \in [1 .. k + 1 -> Nat]
    BY <2>1, LenProperties
  <2> QED
    BY <2>1, <2>2
<1> QED
  BY <1>5, <1>6 DEF f

LEMMA AscendingJoin ==
    ASSUME NEW n \in Nat, NEW A \in SUBSET (0 .. n - 1), NEW B \in SUBSET (0 .. n - 1),
           \A a \in A, b \in B : a < b
    PROVE  Ascending(A \cup B) = Ascending(A) \o Ascending(B)
<1> DEFINE f == Ascending(A)
           g == Ascending(B)
           k == Cardinality(A)
           l == Cardinality(B)
           h == f \o g
<1>1. /\ IsFiniteSet(A) /\ A \in SUBSET Nat /\ k \in Nat
      /\ IsFiniteSet(B) /\ B \in SUBSET Nat /\ l \in Nat
      /\ f \in [1 .. k -> A] /\ g \in [1 .. l -> B]
      /\ \A i, j \in 1 .. k : i < j => f[i] < f[j]
      /\ \A i, j \in 1 .. l : i < j => g[i] < g[j]
  BY AscendingIs DEF IsAscending
<1>2. Cardinality(A \cup B) = k + l
  <2>1. A \cap B = {}
    BY <1>1
  <2>2. Cardinality(A \cup B) = k + l - Cardinality({})
    BY <1>1, <2>1, FS_Union
  <2> QED
    BY <1>1, <2>2, FS_EmptySet
<1> HIDE DEF f, g, k, l
<1>3. f \in Seq(Nat) /\ Len(f) = k /\ g \in Seq(Nat) /\ Len(g) = l
  <2>1. f \in [1 .. k -> Nat] /\ g \in [1 .. l -> Nat]
    BY <1>1
  <2> QED
    BY <1>1, <2>1, FunIsSeq
<1>4. /\ h \in Seq(Nat) /\ Len(h) = k + l
      /\ \A i \in 1 .. k + l : h[i] = IF i <= k THEN f[i] ELSE g[i - k]
  BY <1>3, ConcatProperties
<1> HIDE DEF h
<1>5. ASSUME NEW i \in 1 .. k PROVE i \in 1 .. k + l /\ h[i] = f[i] /\ h[i] \in A
  BY <1>1, <1>4
<1>6. ASSUME NEW i \in k + 1 .. k + l
      PROVE  i - k \in 1 .. l /\ h[i] = g[i - k] /\ h[i] \in B
  BY <1>1, <1>4
<1>7. h \in [1 .. k + l -> A \cup B]
  <2>1. ASSUME NEW i \in 1 .. k + l PROVE h[i] \in A \cup B
    BY <1>1, <1>5, <1>6
  <2>2. h \in [1 .. k + l -> Nat]
    BY <1>4
  <2> QED
    BY <2>1, <2>2
<1>8. ASSUME NEW i \in 1 .. k + l, NEW j \in 1 .. k + l, i < j PROVE h[i] < h[j]
  <2>1. CASE j \in 1 .. k
    <3>1. i \in 1 .. k
      BY <1>1, <1>8, <2>1
    <3> QED
      BY <1>1, <1>5, <1>8, <2>1, <3>1
  <2>2. CASE i \in 1 .. k /\ j \in k + 1 .. k + l
    BY <1>5, <1>6, <2>2
  <2>3. CASE i \in k + 1 .. k + l
    <3>1. j \in k + 1 .. k + l
      BY <1>1, <1>8, <2>3
    <3>2. i - k \in 1 .. l /\ j - k \in 1 .. l /\ i - k < j - k
      BY <1>1, <1>8, <2>3, <3>1
    <3>3. h[i] = g[i - k] /\ h[j] = g[j - k]
      BY <1>6, <2>3, <3>1
    <3> QED
      BY <1>1, <3>2, <3>3
  <2> QED
    BY <1>1, <2>1, <2>2, <2>3
<1>9. IsAscending(h, A \cup B)
  BY <1>2, <1>7, <1>8 DEF IsAscending
<1>10. A \cup B \in SUBSET (0 .. n - 1)
  OBVIOUS
<1> QED
  BY <1>9, <1>10, AscendingOf DEF h, f, g

-----------------------------------------------------------------------------
(* The log and its contract.                                                 *)

\* What is proved of the contract, said of the log commands write to.
Contract == INSTANCE EventLogProofs

LEMMA SameCardinality ==
    \A S : Log!Cardinality(S) = Cardinality(S) /\ Contract!Cardinality(S) = Cardinality(S)
  BY DEF Log!Cardinality, Contract!Cardinality, Cardinality,
         Log!IsFiniteSet, Contract!IsFiniteSet, IsFiniteSet

\* Before an append, or after one that was refused, the log is as it was;
\* else it has grown by a batch the contract allows.
LEMMA AppendGrows ==
    ASSUME Log!IsLog(log), NEW E, NEW batch \in Seq(E), NEW s, NEW expected
    PROVE  \/ Log!AppendTo(log, s, expected, batch) = log
           \/ /\ Log!Verdict(log, s, expected, batch) = "append"
              /\ Log!NextBatch(log, Log!AppendTo(log, s, expected, batch), s)
<1> DEFINE R == {log[i] : i \in DOMAIN log}
<1>1. log \in Seq(R)
  BY DEF Log!IsLog
<1> HIDE DEF R
<1>2. \/ Contract!AppendTo(log, s, expected, batch) = log
      \/ Contract!NextBatch(log, Contract!AppendTo(log, s, expected, batch), s)
  BY <1>1, Contract!AppendIsContract
<1>3. Contract!Verdict(log, s, expected, batch) = Log!Verdict(log, s, expected, batch)
  BY SameCardinality DEF Contract!Verdict, Contract!Malformed, Contract!IdsOf, Contract!Persisted,
         Contract!Row, Contract!SameRow, Contract!Matches, Contract!NextRev,
         Contract!PositionsOf, Log!Verdict, Log!Malformed, Log!IdsOf, Log!Persisted,
         Log!Row, Log!SameRow, Log!Matches, Log!NextRev, Log!PositionsOf
<1>4. Contract!RowsOf(log, s, batch) = Log!RowsOf(log, s, batch)
  BY SameCardinality DEF Contract!RowsOf, Contract!NextRev, Contract!PositionsOf,
         Log!RowsOf, Log!NextRev, Log!PositionsOf
<1>5. Contract!AppendTo(log, s, expected, batch) = Log!AppendTo(log, s, expected, batch)
  BY <1>3, <1>4 DEF Contract!AppendTo, Log!AppendTo
<1>6. ASSUME NEW new PROVE Contract!NextBatch(log, new, s) = Log!NextBatch(log, new, s)
  BY SameCardinality DEF Contract!NextBatch, Contract!Grows, Contract!Fresh, Contract!IsLog, Contract!IdsOf,
         Contract!NextRev, Contract!PositionsOf, Log!NextBatch, Log!Grows, Log!Fresh,
         Log!IsLog, Log!IdsOf, Log!NextRev, Log!PositionsOf
<1> QED
  BY <1>2, <1>5, <1>6 DEF Log!AppendTo

\* A log and the one that follows it.
LEMMA LogShape ==
    ASSUME NEW rows, Log!IsLog(rows)
    PROVE  /\ Len(rows) \in Nat /\ DOMAIN rows = 1 .. Len(rows)
           /\ \A s : /\ Log!PositionsOf(rows, s) \in SUBSET (1 .. Len(rows))
                     /\ IsFiniteSet(Log!PositionsOf(rows, s))
                     /\ Log!NextRev(rows, s) \in Nat
                     /\ Log!NextRev(rows, s) = Cardinality(Log!PositionsOf(rows, s))
<1>1. Len(rows) \in Nat /\ DOMAIN rows = 1 .. Len(rows)
  BY LenProperties DEF Log!IsLog
<1>2. IsFiniteSet(1 .. Len(rows))
  BY <1>1, FS_Interval
<1>3. ASSUME NEW s
      PROVE  /\ Log!PositionsOf(rows, s) \in SUBSET (1 .. Len(rows))
             /\ IsFiniteSet(Log!PositionsOf(rows, s))
             /\ Log!NextRev(rows, s) \in Nat
             /\ Log!NextRev(rows, s) = Cardinality(Log!PositionsOf(rows, s))
  <2>1. Log!PositionsOf(rows, s) \in SUBSET (1 .. Len(rows))
    BY <1>1 DEF Log!PositionsOf
  <2>2. IsFiniteSet(Log!PositionsOf(rows, s))
    BY <1>2, <2>1, FS_Subset
  <2>3. Log!NextRev(rows, s) = Cardinality(Log!PositionsOf(rows, s))
    BY SameCardinality DEF Log!NextRev
  <2> QED
    BY <2>1, <2>2, <2>3, FS_CardinalityType
<1> QED
  BY <1>1, <1>3

LEMMA PositionsGrow ==
    ASSUME NEW old, Log!IsLog(old), NEW new, NEW s, Log!NextBatch(old, new, s)
    PROVE  /\ Log!IsLog(new) /\ Len(new) \in Nat /\ DOMAIN new = 1 .. Len(new)
           /\ Len(old) \in Nat /\ DOMAIN old = 1 .. Len(old) /\ Len(old) < Len(new)
           /\ \A i \in 1 .. Len(old) : new[i] = old[i]
           /\ Log!PositionsOf(new, s) =
                Log!PositionsOf(old, s) \cup (Len(old) + 1 .. Len(new))
           /\ Log!NextRev(new, s) = Log!NextRev(old, s) + (Len(new) - Len(old))
           /\ \A t : t # s => /\ Log!PositionsOf(new, t) = Log!PositionsOf(old, t)
                              /\ Log!NextRev(new, t) = Log!NextRev(old, t)
<1>1. /\ Log!IsLog(new) /\ Len(new) > Len(old)
      /\ \A i \in DOMAIN old : new[i] = old[i]
      /\ \A i \in Len(old) + 1 .. Len(new) : new[i].stream = s
  BY DEF Log!NextBatch, Log!Grows, Log!Fresh
<1>2. PICK n \in Nat, m \in Nat : /\ n = Len(old) /\ m = Len(new) /\ n < m
                                  /\ DOMAIN old = 1 .. n /\ DOMAIN new = 1 .. m
  BY <1>1, LogShape
<1>3. 1 .. m = (1 .. n) \cup (n + 1 .. m) /\ (1 .. n) \cap (n + 1 .. m) = {}
  BY <1>2
<1>4. Log!PositionsOf(new, s) = Log!PositionsOf(old, s) \cup (n + 1 .. m)
  BY <1>1, <1>2, <1>3 DEF Log!PositionsOf
<1>5. Log!NextRev(new, s) = Log!NextRev(old, s) + (m - n)
  <2> DEFINE P == Log!PositionsOf(old, s)
  <2>1. P \subseteq 1 .. n /\ IsFiniteSet(P) /\ Cardinality(P) \in Nat
        /\ Log!NextRev(old, s) = Cardinality(P)
    BY <1>2, LogShape
  <2>2. Log!NextRev(new, s) = Cardinality(Log!PositionsOf(new, s))
    BY <1>1, LogShape
  <2>3. IsFiniteSet(n + 1 .. m) /\ Cardinality(n + 1 .. m) = m - n
    <3>1. n + 1 \in Int /\ m \in Int /\ ~(n + 1 > m)
      BY <1>2
    <3>2. IsFiniteSet(n + 1 .. m) /\ Cardinality(n + 1 .. m) = m - (n + 1) + 1
      BY <3>1, FS_Interval
    <3> QED
      BY <1>2, <3>2
  <2>4. P \cap (n + 1 .. m) = {}
    BY <1>3, <2>1
  <2>5. Cardinality(P \cup (n + 1 .. m)) = Cardinality(P) + (m - n) - Cardinality({})
    BY <2>1, <2>3, <2>4, FS_Union
  <2>6. Cardinality({}) = 0
    BY FS_EmptySet
  <2> QED
    BY <1>2, <1>4, <2>1, <2>2, <2>5, <2>6
<1>6. ASSUME NEW t, t # s PROVE /\ Log!PositionsOf(new, t) = Log!PositionsOf(old, t)
                                /\ Log!NextRev(new, t) = Log!NextRev(old, t)
  <2>1. Log!PositionsOf(new, t) = Log!PositionsOf(old, t)
    BY <1>1, <1>2, <1>3, <1>6 DEF Log!PositionsOf
  <2> QED
    BY <2>1 DEF Log!NextRev
<1> QED
  BY <1>1, <1>2, <1>4, <1>5, <1>6

\* The stream of the aggregate: its revisions are 0, 1, 2, ... in log order.
Shaped(rows) ==
    LET P == Log!PositionsOf(rows, Home)
        n == Log!NextRev(rows, Home)
    IN  /\ \A i \in P : rows[i].rev \in 0 .. n - 1
        /\ \A i, j \in P : i < j => rows[i].rev < rows[j].rev
        /\ \A r \in 0 .. n - 1 : \E i \in P : rows[i].rev = r

LEMMA ShapeGrows ==
    ASSUME NEW old, Log!IsLog(old), Shaped(old), NEW new, NEW s, Log!NextBatch(old, new, s)
    PROVE  Shaped(new)
<1>1. PICK a \in Nat, b \in Nat, n \in Nat, m \in Nat :
        /\ a = Len(old) /\ b = Len(new) /\ a < b
        /\ n = Log!NextRev(old, Home) /\ m = Log!NextRev(new, Home)
        /\ \A i \in 1 .. a : new[i] = old[i]
  BY LogShape, PositionsGrow
<1> DEFINE P == Log!PositionsOf(old, Home)
           Q == Log!PositionsOf(new, Home)
<1>2. /\ \A i \in P : i \in 1 .. a /\ old[i].rev \in 0 .. n - 1
      /\ \A i, j \in P : i < j => old[i].rev < old[j].rev
      /\ \A r \in 0 .. n - 1 : \E i \in P : old[i].rev = r
  BY <1>1, LogShape DEF Shaped
<1>3. CASE s # Home
  <2>1. P = Q /\ m = n
    BY <1>1, <1>3, PositionsGrow
  <2>2. \A i \in Q : new[i] = old[i]
    BY <1>1, <1>2, <2>1
  <2> QED
    BY <1>1, <1>2, <2>1, <2>2 DEF Shaped
<1>4. CASE s = Home
  <2>1. Q = P \cup (a + 1 .. b) /\ m = n + (b - a)
    BY <1>1, <1>4, PositionsGrow
  <2>2. \A i \in a + 1 .. b : new[i].rev = n + (i - a) - 1
    BY <1>1, <1>4 DEF Log!NextBatch, Log!Fresh
  <2>3. \A i \in P : new[i] = old[i]
    BY <1>1, <1>2
  <2> HIDE DEF P, Q
  <2>4. ASSUME NEW i \in Q PROVE new[i].rev \in 0 .. m - 1
    <3>1. CASE i \in P
      BY <1>1, <1>2, <2>1, <2>3, <3>1
    <3>2. CASE i \in a + 1 .. b
      <4>1. new[i].rev = n + (i - a) - 1
        BY <2>2, <3>2
      <4>2. n \in Nat /\ a \in Nat /\ b \in Nat
        BY <1>1
      <4>3. n + (i - a) - 1 \in 0 .. n + (b - a) - 1
        BY <3>2, <4>2
      <4> QED
        BY <2>1, <4>1, <4>3
    <3> QED
      BY <2>1, <3>1, <3>2
  <2>5. ASSUME NEW i \in Q, NEW j \in Q, i < j PROVE new[i].rev < new[j].rev
    <3>1. CASE j \in P
      <4>1. i \in P
        BY <1>1, <1>2, <2>1, <2>5, <3>1
      <4> QED
        BY <1>2, <2>3, <2>5, <3>1, <4>1
    <3>2. CASE i \in P /\ j \in a + 1 .. b
      BY <1>1, <1>2, <2>2, <2>3, <3>2
    <3>3. CASE i \in a + 1 .. b /\ j \in a + 1 .. b
      BY <1>1, <2>2, <2>5, <3>3
    <3> QED
      BY <2>1, <3>1, <3>2, <3>3
  <2>6. ASSUME NEW r \in 0 .. m - 1 PROVE \E i \in Q : new[i].rev = r
    <3>1. CASE r \in 0 .. n - 1
      BY <1>2, <2>1, <2>3, <3>1
    <3>2. CASE r \in n .. m - 1
      <4>1. r \in Nat /\ n <= r /\ r < n + (b - a)
        BY <1>1, <2>1, <3>2
      <4>2. PICK i \in Nat : i = r - n + a + 1
        BY <1>1, <4>1
      <4>3. i \in a + 1 .. b /\ r = n + (i - a) - 1
        <5>1. n \in Nat /\ a \in Nat /\ b \in Nat
          OBVIOUS
        <5>2. a + 1 <= i /\ i <= b /\ r = n + (i - a) - 1
          BY <4>1, <4>2, <5>1
        <5> QED
          BY <5>1, <5>2
      <4>4. new[i].rev = r
        BY <2>2, <4>3
      <4> QED
        BY <2>1, <4>3, <4>4
    <3> QED
      BY <1>1, <3>1, <3>2
  <2> QED
    BY <1>1, <2>4, <2>5, <2>6 DEF Shaped, P, Q
<1> QED
  BY <1>3, <1>4

-----------------------------------------------------------------------------
(* What a caller appends: its facts from .. to, in one stream.               *)

\* The row its n-th fact becomes, in a run that starts with fact from.
RowFor(c, try, n, basis, s, from) ==
    [id |-> Id(c, try, n), stream |-> s,
     body |-> [kind |-> Plan[c][n].kind, of |-> c, nth |-> n, basis |-> basis],
     rev |-> Log!NextRev(log, s) + n - from]

Landing(new, c, try, from, to, basis, s) ==
    /\ Log!NextBatch(log, new, s)
    /\ Len(new) = Len(log) + (to - from + 1)
    /\ \A n \in from .. to :
         new[Len(log) + (n - from + 1)] = RowFor(c, try, n, basis, s, from)

IsBatch(batch, n) == Log!IsLog(batch) /\ Len(batch) = n /\ DOMAIN batch = 1 .. n

LEMMA BatchIs ==
    ASSUME NEW c, NEW try, NEW basis, NEW from \in Nat \ {0}, NEW to \in Nat, from <= to
    PROVE  LET batch == BatchOf(c, try, from, to, basis) IN
           /\ IsBatch(batch, to - from + 1)
           /\ \A n \in from .. to : batch[n - from + 1] = Event(c, try, n, basis)
<1> DEFINE batch == BatchOf(c, try, from, to, basis)
           m == to - from + 1
           E == {batch[i] : i \in DOMAIN batch}
<1>1. m \in Nat
  OBVIOUS
<1>2. batch = [i \in 1 .. m |-> Event(c, try, from + i - 1, basis)]
  BY DEF BatchOf
<1> HIDE DEF batch, m
<1>3. batch \in [1 .. m -> E]
  BY <1>2
<1> HIDE DEF E
<1>4. batch \in Seq(E) /\ Len(batch) = m /\ DOMAIN batch = 1 .. m
  BY <1>1, <1>3, FunIsSeq
<1>5. ASSUME NEW n \in from .. to PROVE batch[n - from + 1] = Event(c, try, n, basis)
  <2>1. n - from + 1 \in 1 .. m /\ from + (n - from + 1) - 1 = n
    BY DEF m
  <2> QED
    BY <1>2, <2>1
<1> QED
  BY <1>4, <1>5 DEF E, batch, m, IsBatch, Log!IsLog

LEMMA AppendLands ==
    ASSUME Log!IsLog(log), NEW c, NEW try, NEW basis, NEW s, NEW expected,
           NEW from \in Nat \ {0}, NEW to \in Nat, from <= to
    PROVE  LET batch == BatchOf(c, try, from, to, basis)
               new   == Log!AppendTo(log, s, expected, batch)
           IN  \/ /\ Log!Verdict(log, s, expected, batch) # "append"
                  /\ new = log
               \/ /\ Log!Verdict(log, s, expected, batch) = "append"
                  /\ Landing(new, c, try, from, to, basis, s)
<1> DEFINE batch == BatchOf(c, try, from, to, basis)
           new   == Log!AppendTo(log, s, expected, batch)
           m     == to - from + 1
<1>1. /\ Log!IsLog(batch) /\ m \in Nat \ {0}
      /\ Len(batch) = m /\ DOMAIN batch = 1 .. m
      /\ \A n \in from .. to : batch[n - from + 1] = Event(c, try, n, basis)
  <2>1. m \in Nat \ {0}
    OBVIOUS
  <2>2. /\ Log!IsLog(batch)
        /\ Len(batch) = m /\ DOMAIN batch = 1 .. m
        /\ \A n \in from .. to : batch[n - from + 1] = Event(c, try, n, basis)
    <3>1. IsBatch(batch, m)
      BY BatchIs
    <3>2. \A n \in from .. to : batch[n - from + 1] = Event(c, try, n, basis)
      BY BatchIs
    <3> QED
      BY <3>1, <3>2 DEF IsBatch
  <2> QED
    BY <2>1, <2>2
<1> HIDE DEF batch
<1>2. SUFFICES ASSUME Log!Verdict(log, s, expected, batch) = "append"
               PROVE  Landing(new, c, try, from, to, basis, s)
  BY DEF batch, Log!AppendTo
<1> DEFINE added == Log!RowsOf(log, s, batch)
           a == Len(log)
<1>4. new = log \o added
  BY <1>2 DEF Log!AppendTo
<1>5. a \in Nat /\ DOMAIN log = 1 .. a /\ log \in Seq({log[i] : i \in DOMAIN log})
  BY LogShape DEF Log!IsLog
<1>6. added = [i \in 1 .. m |-> [id |-> batch[i].id, stream |-> s, body |-> batch[i].body,
                                 rev |-> Log!NextRev(log, s) + i - 1]]
  BY <1>1 DEF Log!RowsOf
<1>7. added \in Seq({added[i] : i \in 1 .. m}) /\ Len(added) = m
  <2>1. added \in [1 .. m -> {added[i] : i \in 1 .. m}]
    BY <1>6
  <2> QED
    BY <1>1, <2>1, FunIsSeq
<1>8. Len(new) = a + m /\ \A i \in 1 .. m : new[a + i] = added[i]
  <2> DEFINE A == {log[i] : i \in DOMAIN log}
             B == {added[i] : i \in 1 .. m}
  <2>1. log \in Seq(A) /\ added \in Seq(B)
    BY <1>5, <1>7
  <2> HIDE DEF A, B, added, m
  <2>2. log \in Seq(A \cup B) /\ added \in Seq(A \cup B)
    BY <2>1, SeqMonotonic
  <2>3. /\ Len(log \o added) = a + m
        /\ \A i \in 1 .. a + m : (log \o added)[i] = IF i <= a THEN log[i] ELSE added[i - a]
    <3>1. Len(log) = a /\ Len(added) = m
      BY <1>1, <1>7
    <3> QED
      BY <2>2, <3>1, ConcatProperties
  <2>4. ASSUME NEW i \in 1 .. m PROVE (log \o added)[a + i] = added[i]
    <3>1. a + i \in 1 .. a + m /\ ~(a + i <= a) /\ (a + i) - a = i
      BY <1>1, <1>5
    <3> QED
      BY <2>3, <3>1
  <2> QED
    BY <1>4, <2>3, <2>4
<1>9. ASSUME NEW n \in from .. to
      PROVE  new[a + (n - from + 1)] = RowFor(c, try, n, basis, s, from)
  <2>1. n - from + 1 \in 1 .. m
    OBVIOUS
  <2>2. batch[n - from + 1] = Event(c, try, n, basis)
    BY <1>1
  <2>3. new[a + (n - from + 1)] = added[n - from + 1]
    BY <1>8, <2>1
  <2>4. Log!NextRev(log, s) + (n - from + 1) - 1 = Log!NextRev(log, s) + n - from
    BY LogShape
  <2> HIDE DEF new, m
  <2> QED
    BY <1>6, <2>1, <2>2, <2>3, <2>4 DEF Event, RowFor
<1>3. Log!NextBatch(log, new, s)
  <2> DEFINE E == {batch[i] : i \in DOMAIN batch}
  <2>1. batch \in Seq(E)
    BY <1>1 DEF Log!IsLog
  <2>2. new # log
    <3>1. Len(new) = a + m /\ a \in Nat /\ m \in Nat \ {0}
      BY <1>1, <1>5, <1>8
    <3> HIDE DEF m, new
    <3>2. Len(new) # a
      BY <3>1
    <3> QED
      BY <3>2
  <2> HIDE DEF E
  <2> QED
    BY <2>1, <2>2, AppendGrows
<1> QED
  BY <1>3, <1>8, <1>9 DEF Landing

-----------------------------------------------------------------------------
(* The inductive invariant of the write path: what a row says of the call    *)
(* that wrote it, and what a call knows of the log.                          *)

Writer == Commander \cup Emitter
RowsOf(c) == {i \in DOMAIN log : log[i].body.of = c}

\* A supplied id is the same in every call; another names its call.
IdOK(row) ==
    LET c == row.body.of
        n == row.body.nth
    IN  IF c \in Supplied THEN row.id = <<c, 0, 0, n>>
        ELSE row.id = <<c, row.id[2], row.id[3], n>> /\ row.id[2] \in 1 .. calls[c]

RowOK(row) ==
    LET c == row.body.of
        n == row.body.nth
    IN  /\ c \in Writer /\ n \in 1 .. Len(Plan[c]) /\ row.stream = Plan[c][n].stream
        /\ row.body = [kind |-> Plan[c][n].kind, of |-> c, nth |-> n, basis |-> row.body.basis]
        /\ c \in Emitter => row.body.basis = 0
        /\ c \in Commander => row.body.basis \in Nat /\ row.rev = row.body.basis + n - 1
        /\ IdOK(row)

LogOK == Log!IsLog(log) /\ Shaped(log) /\ \A i \in DOMAIN log : RowOK(log[i])

Differ(c, m, n) == Plan[c][m].stream # Plan[c][n].stream

\* Before fact next is written: the facts before it are in the log, and it
\* begins a run; none from it on was written by this call.
Reached(c, next) ==
    /\ next > 1 => Differ(c, next - 1, next) /\ \E i \in RowsOf(c) : log[i].body.nth = next - 1
    /\ c \notin Supplied => \A i \in RowsOf(c) : log[i].id[2] = calls[c] => log[i].body.nth < next

FoldPcs == {"fold", "restore", "install", "repair", "apply", "save", "state", "store"}

CallOK(c) ==
    LET t == task[c] IN
    /\ t.pc \in {"idle", "load", "commit", "run"} \cup FoldPcs
    /\ t.pc = "idle" <=> answer[c] # "running"
    /\ calls[c] \in Nat
    /\ t.pc \in {"load", "commit"} =>
         c \in Commander /\ t.try \in Nat /\ RowsOf(c) = {} /\ calls[c] > 0
    /\ t.pc = "commit" => t.basis \in Nat
    /\ t.pc = "run" => c \in Emitter /\ t.next \in 1 .. Len(Plan[c]) /\ Reached(c, t.next)
    /\ t.pc \in FoldPcs /\ c \in Emitter =>
         /\ t.next \in Nat \ {0}
         /\ t.next <= Len(Plan[c]) => Reached(c, t.next)
    /\ t.pc \in FoldPcs => c \in Writer \/ (c \in Reader /\ t.pc \in {"restore", "install"})
    /\ c \in Emitter /\ t.pc # "idle" => calls[c] > 0 /\ ~Refused(c)
    /\ c \in Emitter /\ Refused(c) => RowsOf(c) = {}
    /\ answer[c] = "refused" => c \in Emitter /\ Refused(c)
    /\ answer[c] = "conflict" => RowsOf(c) = {}

CallsOK == DOMAIN task = Caller /\ DOMAIN answer = Caller /\ DOMAIN calls = Caller
           /\ \A c \in Caller : CallOK(c)

\* The facts of a call are in the log in order, run by run.
RunsOK ==
    \A p \in DOMAIN log :
        LET c == log[p].body.of
            n == log[p].body.nth
        IN  /\ n > 1 => \E q \in 1 .. p - 1 :
                           /\ log[q].body.of = c /\ log[q].body.nth = n - 1
                           /\ ~Differ(c, n - 1, n) => q = p - 1
            /\ n < Len(Plan[c]) /\ ~Differ(c, n, n + 1) =>
                  /\ p < Len(log) /\ log[p + 1].body.of = c
                  /\ log[p + 1].body.nth = n + 1

WriteInv == LogOK /\ CallsOK /\ CommandOnce /\ RunsOK

-----------------------------------------------------------------------------
(* The write path.                                                           *)

LEMMA Plans ==
    ASSUME NEW c \in Writer
    PROVE  /\ Len(Plan[c]) \in Nat \ {0} /\ DOMAIN Plan[c] = 1 .. Len(Plan[c])
           /\ \A i \in 1 .. Len(Plan[c]) : Plan[c][i].stream \in Stream
           /\ c \in Commander => \A i \in 1 .. Len(Plan[c]) : Plan[c][i].stream = Home
           /\ c \in Supplied => Len(Plan[c]) = 1
<1> DEFINE S == {Plan[c][i] : i \in DOMAIN Plan[c]}
<1>1. Plan[c] \in Seq(S) /\ Plan[c] # <<>>
  BY PlanShape DEF Writer, Caller
<1> HIDE DEF S
<1>2. Len(Plan[c]) \in Nat /\ DOMAIN Plan[c] = 1 .. Len(Plan[c]) /\ Len(Plan[c]) # 0
  BY <1>1, EmptySeq, LenProperties
<1> QED
  BY <1>2, PlanShape DEF Writer

LEMMA RunEndIs ==
    ASSUME NEW c \in Writer, NEW i \in 1 .. Len(Plan[c])
    PROVE  LET j == RunEnd(c, i)
               n == Len(Plan[c])
           IN  /\ j \in i .. n
               /\ \A k \in i .. j : Plan[c][k].stream = Plan[c][i].stream
               /\ j = n \/ Differ(c, j, j + 1)
<1> DEFINE stream(k) == Plan[c][k].stream
<1>1. PICK n \in Nat : n = Len(Plan[c]) /\ i \in 1 .. n
  BY Plans
<1> DEFINE Ends == {j \in i .. n : j = n \/ stream(j + 1) # stream(i)}
<1>2. Ends \in SUBSET Nat /\ n \in Ends
  BY <1>1
<1>3. PICK j \in Ends : \A k \in Ends : j <= k
  <2> HIDE DEF Ends
  <2> QED
    BY <1>2, LeastOf
<1> DEFINE Others == {k \in i .. j : stream(k) # stream(i)}
<1>4. ASSUME NEW k \in Others, \A l \in Others : k <= l PROVE FALSE
  <2>1. k \in Nat /\ j \in Nat /\ k <= j /\ i < k /\ j <= n
    BY <1>1, <1>3
  <2>2. k - 1 \in i .. j /\ ~(k <= k - 1) /\ k - 1 < n /\ k - 1 < j /\ (k - 1) + 1 = k
    BY <1>1, <2>1
  <2>3. stream(k - 1) = stream(i)
    BY <1>4, <2>2
  <2>4. k - 1 \in Ends
    BY <2>1, <2>2
  <2> QED
    BY <1>3, <2>2, <2>4
<1>5. Others = {}
  <2>1. Others \in SUBSET Nat
    BY <1>1, <1>3
  <2> HIDE DEF Others
  <2> QED
    BY <1>4, <2>1, LeastOf
<1>6. /\ j \in i .. n
      /\ \A k \in i .. j : stream(k) = stream(i)
      /\ j = n \/ stream(j + 1) # stream(i)
  BY <1>3, <1>5
<1>7. /\ RunEnd(c, i) \in i .. n
      /\ \A k \in i .. RunEnd(c, i) : stream(k) = stream(i)
      /\ RunEnd(c, i) = n \/ stream(RunEnd(c, i) + 1) # stream(i)
  BY <1>1, <1>6 DEF RunEnd
<1> QED
  BY <1>1, <1>7 DEF Differ

\* A step that lands facts from .. to of c in stream s.
Adds(c, try, from, to, basis, s) ==
    /\ c \in Writer /\ calls[c] \in Nat \ {0}
    /\ from \in Nat \ {0} /\ to \in Nat /\ from <= to /\ to <= Len(Plan[c])
    /\ \A k \in from .. to : Plan[c][k].stream = s
    /\ to < Len(Plan[c]) => Differ(c, to, to + 1)
    /\ c \in Commander => /\ RowsOf(c) = {} /\ from = 1 /\ to = Len(Plan[c])
                          /\ s = Home /\ basis \in Nat /\ basis = HomeLen
    /\ c \in Emitter => basis = 0 /\ ~Refused(c) /\ Reached(c, from)
    /\ Landing(log', c, try, from, to, basis, s)

LEMMA CommitAdds ==
    ASSUME WriteInv, NEW c \in Caller, Commit(c) \/ CommitError(c)
    PROVE  LET added == Adds(c, task[c].try, 1, Len(Plan[c]), task[c].basis, Home) IN
           /\ log' = log \/ added
           /\ Commit(c) /\ Log!Verdict(log, Home, Expected(c), Decision(c)) = "append" => added
<1> DEFINE try == task[c].try
           basis == task[c].basis
           n == Len(Plan[c])
           new == Log!AppendTo(log, Home, Expected(c), Decision(c))
<1>1. /\ c \in Commander /\ c \in Writer /\ basis \in Nat /\ RowsOf(c) = {} /\ calls[c] \in Nat \ {0}
  BY DEF Commit, CommitError, At, WriteInv, CallsOK, CallOK, Writer
<1>2. n \in Nat \ {0} /\ \A i \in 1 .. n : Plan[c][i].stream = Home
  BY <1>1, Plans
<1>3. Log!IsLog(log)
  BY DEF WriteInv, LogOK
<1>4. \/ /\ Log!Verdict(log, Home, Expected(c), Decision(c)) # "append"
         /\ new = log
      \/ /\ Log!Verdict(log, Home, Expected(c), Decision(c)) = "append"
         /\ Landing(new, c, try, 1, n, basis, Home)
  <2>1. 1 \in Nat \ {0} /\ n \in Nat /\ 1 <= n
    BY <1>2
  <2> HIDE DEF n, try, basis
  <2> QED
    BY <1>3, <2>1, AppendLands DEF Decision, n, try, basis
<1>5. log' = log \/ log' = new
  BY DEF Commit, CommitError
<1>6. ASSUME Log!Verdict(log, Home, Expected(c), Decision(c)) = "append"
      PROVE  basis = HomeLen
  <2>1. Log!Matches(log, Home, Expected(c))
    BY <1>6 DEF Log!Verdict
  <2>2. HomeLen \in Nat
    BY <1>3, LogShape DEF HomeLen
  <2> QED
    BY <1>1, <2>1, <2>2 DEF Log!Matches, Expected, Log!NoStream, Log!AtRevision, HomeLen
<1>7. c \notin Emitter
  BY <1>1, CallersDiffer
<1>8. Landing(log', c, try, 1, n, basis, Home) /\ basis = HomeLen
        => Adds(c, try, 1, n, basis, Home)
  <2> HIDE DEF try, basis, new
  <2> QED
    BY <1>1, <1>2, <1>7 DEF Adds, n, try, basis
<1>9. Commit(c) => log' = new
  BY DEF Commit
<1> HIDE DEF new, try, basis, n
<1>10. /\ log' = log \/ Adds(c, try, 1, n, basis, Home)
       /\ Commit(c) /\ Log!Verdict(log, Home, Expected(c), Decision(c)) = "append"
            => Adds(c, try, 1, n, basis, Home)
  BY <1>4, <1>5, <1>6, <1>8, <1>9
<1> QED
  BY <1>10 DEF n, try, basis

LEMMA RunAdds ==
    ASSUME WriteInv, NEW c \in Caller, AppendRun(c) \/ RunError(c)
    PROVE  LET added == Adds(c, 0, task[c].next, RunEnd(c, task[c].next), 0, RunStream(c)) IN
           /\ log' = log \/ added
           /\ AppendRun(c)
                /\ Log!Verdict(log, RunStream(c), Log!AnyState, RunBatch(c)) = "append" => added
<1> DEFINE from == task[c].next
           to == RunEnd(c, from)
           new == Log!AppendTo(log, RunStream(c), Log!AnyState, RunBatch(c))
<1>1. /\ c \in Emitter /\ c \in Writer /\ from \in 1 .. Len(Plan[c])
      /\ Reached(c, from) /\ calls[c] \in Nat \ {0} /\ ~Refused(c)
  BY DEF AppendRun, RunError, At, WriteInv, CallsOK, CallOK, Writer
<1>2. PICK n \in Nat : n = Len(Plan[c])
  BY <1>1, Plans
<1>3. /\ to \in from .. n /\ \A k \in from .. to : Plan[c][k].stream = RunStream(c)
      /\ to = n \/ Differ(c, to, to + 1)
  BY <1>1, <1>2, RunEndIs DEF RunStream
<1>4. Log!IsLog(log)
  BY DEF WriteInv, LogOK
<1>5. /\ from \in Nat \ {0} /\ to \in Nat /\ from <= to /\ to <= n
  BY <1>1, <1>2, <1>3
<1>6. \/ /\ Log!Verdict(log, RunStream(c), Log!AnyState, RunBatch(c)) # "append"
         /\ new = log
      \/ Landing(new, c, 0, from, to, 0, RunStream(c))
  <2> HIDE DEF from, to
  <2> QED
    BY <1>4, <1>5, AppendLands DEF RunBatch, from, to
<1>7. log' = log \/ log' = new
  BY DEF AppendRun, RunError
<1>8. c \notin Commander
  BY <1>1, CallersDiffer
<1> HIDE DEF from, to
<1>9. Landing(log', c, 0, from, to, 0, RunStream(c)) => Adds(c, 0, from, to, 0, RunStream(c))
  <2>1. to < n => Differ(c, to, to + 1)
    BY <1>3
  <2> QED
    BY <1>1, <1>2, <1>3, <1>5, <1>8, <2>1 DEF Adds
<1>10. AppendRun(c) => log' = new
  BY DEF AppendRun
<1> HIDE DEF new
<1>11. /\ log' = log \/ Adds(c, 0, from, to, 0, RunStream(c))
       /\ AppendRun(c)
            /\ Log!Verdict(log, RunStream(c), Log!AnyState, RunBatch(c)) = "append"
          => Adds(c, 0, from, to, 0, RunStream(c))
  BY <1>6, <1>7, <1>9, <1>10
<1> QED
  BY <1>11 DEF from, to

\* The old rows stay; the new ones are the facts of the landing.
NewAt(p, c, try, n, basis, s, from) ==
    p = Len(log) + (n - from + 1) /\ log'[p] = RowFor(c, try, n, basis, s, from)

LEMMA AddsRows ==
    ASSUME LogOK, NEW c, NEW try, NEW from, NEW to, NEW basis, NEW s,
           Adds(c, try, from, to, basis, s)
    PROVE  /\ Log!NextBatch(log, log', s)
           /\ Log!IsLog(log') /\ Shaped(log')
           /\ Len(log) \in Nat /\ DOMAIN log = 1 .. Len(log)
           /\ Len(log') = Len(log) + (to - from + 1) /\ DOMAIN log' = 1 .. Len(log')
           /\ \A i \in 1 .. Len(log) : i \in DOMAIN log' /\ log'[i] = log[i]
           /\ \A n \in from .. to : \E p \in Len(log) + 1 .. Len(log') :
                NewAt(p, c, try, n, basis, s, from)
           /\ \A p \in Len(log) + 1 .. Len(log') : \E n \in from .. to :
                NewAt(p, c, try, n, basis, s, from)
<1>1. /\ Landing(log', c, try, from, to, basis, s)
      /\ from \in Nat /\ to \in Nat /\ from <= to
  BY DEF Adds
<1>2. /\ Log!NextBatch(log, log', s) /\ Len(log') = Len(log) + (to - from + 1)
      /\ \A n \in from .. to :
           log'[Len(log) + (n - from + 1)] = RowFor(c, try, n, basis, s, from)
  BY <1>1 DEF Landing
<1>3. /\ Log!IsLog(log') /\ DOMAIN log' = 1 .. Len(log')
      /\ Len(log) \in Nat /\ DOMAIN log = 1 .. Len(log)
      /\ \A i \in 1 .. Len(log) : log'[i] = log[i]
  BY <1>2, PositionsGrow DEF LogOK
<1>4. Shaped(log')
  BY <1>2, ShapeGrows DEF LogOK
<1>5. PICK a \in Nat, b \in Nat, m \in Nat :
        a = Len(log) /\ b = Len(log') /\ m = to - from + 1 /\ b = a + m
  <2>1. PICK m \in Nat : m = to - from + 1
    BY <1>1
  <2>2. PICK a \in Nat : a = Len(log)
    BY <1>3
  <2>3. a + m = Len(log') /\ a + m \in Nat
    BY <1>2, <2>1, <2>2
  <2> QED
    BY <2>1, <2>2, <2>3
<1>6. \A i \in 1 .. a : i \in DOMAIN log' /\ log'[i] = log[i]
  <2>1. ASSUME NEW i \in 1 .. a PROVE i \in 1 .. b
    BY <1>5
  <2> QED
    BY <1>3, <1>5, <2>1
<1>7. ASSUME NEW n \in from .. to
      PROVE  \E p \in a + 1 .. b : NewAt(p, c, try, n, basis, s, from)
  <2>1. a + (n - from + 1) \in a + 1 .. b
    BY <1>1, <1>5
  <2> QED
    BY <1>2, <1>5, <2>1 DEF NewAt
<1>8. ASSUME NEW p \in a + 1 .. b
      PROVE  \E n \in from .. to : NewAt(p, c, try, n, basis, s, from)
  <2>1. PICK n \in from .. to : p = a + (n - from + 1)
    <3>1. (p - a - 1) + from \in from .. to
      BY <1>1, <1>5
    <3>2. p = a + (((p - a - 1) + from) - from + 1)
      BY <1>1, <1>5
    <3> QED
      BY <3>1, <3>2
  <2> QED
    BY <1>2, <1>5, <2>1 DEF NewAt
<1> QED
  BY <1>2, <1>3, <1>4, <1>5, <1>6, <1>7, <1>8

LEMMA AddsLogOK ==
    ASSUME LogOK, calls' = calls, NEW c, NEW try, NEW from, NEW to, NEW basis, NEW s,
           Adds(c, try, from, to, basis, s)
    PROVE  LogOK'
<1>1. ASSUME NEW p \in 1 .. Len(log) PROVE RowOK(log[p])' /\ log'[p] = log[p]
  <2>1. log'[p] = log[p] /\ RowOK(log[p])
    BY <1>1, AddsRows DEF LogOK
  <2> QED
    BY <2>1 DEF RowOK, IdOK
<1>2. ASSUME NEW p \in Len(log) + 1 .. Len(log') PROVE RowOK(log[p])'
  <2>1. PICK n \in from .. to : log'[p] = RowFor(c, try, n, basis, s, from)
    BY AddsRows DEF NewAt
  <2>2. /\ c \in Writer /\ calls[c] \in Nat \ {0} /\ from \in Nat \ {0} /\ to <= Len(Plan[c])
        /\ Plan[c][n].stream = s
        /\ c \in Commander => from = 1 /\ s = Home /\ basis \in Nat /\ basis = HomeLen
        /\ c \in Emitter => basis = 0
    BY DEF Adds
  <2>3. n \in 1 .. Len(Plan[c]) /\ n \in Nat
    BY <2>2, Plans DEF Adds
  <2>4. /\ log'[p].id = Id(c, try, n) /\ log'[p].stream = s
        /\ log'[p].body = [kind |-> Plan[c][n].kind, of |-> c, nth |-> n, basis |-> basis]
        /\ log'[p].rev = Log!NextRev(log, s) + n - from
    BY <2>1 DEF RowFor
  <2>5. c \in Commander => log'[p].rev = basis + n - 1
    BY <2>2, <2>4 DEF HomeLen
  <2>6. IdOK(log[p])'
    <3>1. CASE c \in Supplied
      BY <2>4, <3>1 DEF IdOK, Id
    <3>2. CASE c \notin Supplied
      <4>1. log'[p].id = <<c, calls[c], try, n>>
        BY <2>4, <3>2 DEF Id
      <4>2. calls[c] \in 1 .. calls[c]
        BY <2>2
      <4> QED
        BY <2>4, <3>2, <4>1, <4>2 DEF IdOK
    <3> QED
      BY <3>1, <3>2
  <2> QED
    BY <2>2, <2>3, <2>4, <2>5, <2>6 DEF RowOK
<1>3. ASSUME NEW p \in DOMAIN log' PROVE RowOK(log[p])'
  <2>1. p \in 1 .. Len(log) \/ p \in Len(log) + 1 .. Len(log')
    BY AddsRows
  <2> QED
    BY <1>1, <1>2, <2>1
<1>4. Log!IsLog(log') /\ Shaped(log')
  BY AddsRows
<1>5. Shaped(log)'
  BY <1>4 DEF Shaped, Log!PositionsOf, Log!NextRev, Log!Cardinality
<1> QED
  BY <1>3, <1>4, <1>5 DEF LogOK, Log!IsLog

\* What a new row says of its writer.
NewFact(p, c, try, n, from) ==
    /\ p = Len(log) + (n - from + 1) /\ log'[p].id = Id(c, try, n)
    /\ log'[p].body.of = c /\ log'[p].body.nth = n

LEMMA AddsFacts ==
    ASSUME LogOK, NEW c, NEW try, NEW from, NEW to, NEW basis, NEW s,
           Adds(c, try, from, to, basis, s)
    PROVE  /\ \A n \in from .. to : \E p \in Len(log) + 1 .. Len(log') :
                NewFact(p, c, try, n, from)
           /\ \A p \in Len(log) + 1 .. Len(log') : \E n \in from .. to :
                NewFact(p, c, try, n, from)
<1>1. /\ \A n \in from .. to : \E p \in Len(log) + 1 .. Len(log') :
             NewAt(p, c, try, n, basis, s, from)
      /\ \A p \in Len(log) + 1 .. Len(log') : \E n \in from .. to :
             NewAt(p, c, try, n, basis, s, from)
  BY AddsRows
<1>2. ASSUME NEW p, NEW n, NewAt(p, c, try, n, basis, s, from)
      PROVE  NewFact(p, c, try, n, from)
  BY <1>2 DEF NewAt, NewFact, RowFor
<1> QED
  BY <1>1, <1>2

LEMMA AddsOnce ==
    ASSUME LogOK, CommandOnce, NEW c, NEW try, NEW from, NEW to, NEW basis, NEW s,
           Adds(c, try, from, to, basis, s)
    PROVE  CommandOnce'
<1> DEFINE Same(i, j) == /\ log'[i].body.of = log'[j].body.of
                         /\ log'[i].body.of \in Commander
                         /\ log'[i].body.nth = log'[j].body.nth
<1>1. /\ DOMAIN log = 1 .. Len(log) /\ DOMAIN log' = 1 .. Len(log') /\ Len(log) \in Nat
      /\ \A i \in 1 .. Len(log) : log'[i] = log[i]
      /\ from \in Nat /\ to \in Nat
  BY AddsRows DEF Adds
<1>6. \A p \in Len(log) + 1 .. Len(log') : \E n \in from .. to :
        NewFact(p, c, try, n, from)
  BY AddsFacts
<1>2. ASSUME NEW i \in 1 .. Len(log), NEW j \in Len(log) + 1 .. Len(log'),
             log'[i].body.of = log'[j].body.of, log'[i].body.of \in Commander
      PROVE  FALSE
  <2>1. log'[j].body.of = c
    BY <1>6 DEF NewFact
  <2>2. RowsOf(c) = {} /\ i \in RowsOf(c)
    BY <1>1, <1>2, <2>1 DEF Adds, RowsOf
  <2> QED
    BY <2>2
<1>3. ASSUME NEW i \in 1 .. Len(log), NEW j \in 1 .. Len(log), Same(i, j) PROVE i = j
  BY <1>1, <1>3 DEF CommandOnce
<1>4. ASSUME NEW i \in Len(log) + 1 .. Len(log'), NEW j \in Len(log) + 1 .. Len(log'),
             log'[i].body.nth = log'[j].body.nth
      PROVE  i = j
  <2>1. PICK m \in from .. to : i = Len(log) + (m - from + 1) /\ log'[i].body.nth = m
    BY <1>6 DEF NewFact
  <2>2. PICK n \in from .. to : j = Len(log) + (n - from + 1) /\ log'[j].body.nth = n
    BY <1>6 DEF NewFact
  <2> QED
    BY <1>4, <2>1, <2>2
<1>5. ASSUME NEW i \in DOMAIN log', NEW j \in DOMAIN log', Same(i, j) PROVE i = j
  <2>1. /\ i \in 1 .. Len(log) \/ i \in Len(log) + 1 .. Len(log')
        /\ j \in 1 .. Len(log) \/ j \in Len(log) + 1 .. Len(log')
    BY <1>1
  <2> QED
    BY <1>2, <1>3, <1>4, <1>5, <2>1
<1> QED
  BY <1>5 DEF CommandOnce

LEMMA AddsRuns ==
    ASSUME LogOK, RunsOK, NEW c, NEW try, NEW from, NEW to, NEW basis, NEW s,
           Adds(c, try, from, to, basis, s)
    PROVE  RunsOK'
<1>1. PICK a \in Nat, b \in Nat :
        /\ a = Len(log) /\ b = Len(log') /\ DOMAIN log = 1 .. a /\ DOMAIN log' = 1 .. b
        /\ \A i \in 1 .. a : i \in 1 .. b /\ log'[i] = log[i]
  <2>1. Len(log) \in Nat /\ Len(log') \in Nat
    BY AddsRows, LogShape
  <2> QED
    BY <2>1, AddsRows
<1> DEFINE Before(d, n, q, p) == /\ q \in 1 .. p - 1
                                 /\ log'[q].body.of = d /\ log'[q].body.nth = n - 1
                                 /\ ~Differ(d, n - 1, n) => q = p - 1
           After(d, n, p) == /\ p < b /\ log'[p + 1].body.of = d
                             /\ log'[p + 1].body.nth = n + 1
           Right(p, d, n) ==
               /\ n > 1 => \E q \in 1 .. p - 1 : Before(d, n, q, p)
               /\ n < Len(Plan[d]) /\ ~Differ(d, n, n + 1) => After(d, n, p)
<1>5. /\ \A n \in from .. to : \E p \in a + 1 .. b : NewFact(p, c, try, n, from)
      /\ \A p \in a + 1 .. b : \E n \in from .. to : NewFact(p, c, try, n, from)
  BY <1>1, AddsFacts
<1>2. ASSUME NEW p \in 1 .. a, NEW d, NEW n,
             d = log'[p].body.of, n = log'[p].body.nth
      PROVE  Right(p, d, n)
  <2>1. log[p].body.of = d /\ log[p].body.nth = n /\ p \in DOMAIN log
    BY <1>1, <1>2
  <2>2. ASSUME n > 1 PROVE \E q \in 1 .. p - 1 : Before(d, n, q, p)
    <3>1. PICK q \in 1 .. p - 1 : /\ log[q].body.of = d /\ log[q].body.nth = n - 1
                                  /\ ~Differ(d, n - 1, n) => q = p - 1
      BY <2>1, <2>2 DEF RunsOK
    <3>2. q \in 1 .. a
      BY <1>1
    <3>3. log'[q] = log[q]
      BY <1>1, <3>2
    <3> QED
      BY <3>1, <3>3
  <2>3. ASSUME n < Len(Plan[d]), ~Differ(d, n, n + 1) PROVE After(d, n, p)
    <3>1. p < a /\ log[p + 1].body.of = d /\ log[p + 1].body.nth = n + 1
      BY <1>1, <2>1, <2>3 DEF RunsOK
    <3>2. p + 1 \in 1 .. a
      BY <1>1, <3>1
    <3>3. log'[p + 1] = log[p + 1] /\ p + 1 \in 1 .. b
      BY <1>1, <3>2
    <3> QED
      BY <1>1, <3>1, <3>3
  <2> QED
    BY <2>2, <2>3
<1>3. ASSUME NEW p \in a + 1 .. b
      PROVE  Right(p, log'[p].body.of, log'[p].body.nth)
  <2>1. PICK n \in from .. to : /\ p = a + (n - from + 1)
                                /\ log'[p].body.of = c /\ log'[p].body.nth = n
    BY <1>1, <1>5 DEF NewFact
  <2>2. /\ from \in Nat \ {0} /\ to \in Nat /\ n \in Nat /\ n >= from /\ n <= to
        /\ to <= Len(Plan[c]) /\ b = a + (to - from + 1) /\ Len(Plan[c]) \in Nat
    <3>1. /\ c \in Writer /\ from \in Nat \ {0} /\ to \in Nat /\ to <= Len(Plan[c])
      BY DEF Adds
    <3>2. b = a + (to - from + 1)
      BY <1>1, AddsRows
    <3> QED
      BY <3>1, <3>2, Plans
  <2>3. ASSUME NEW m \in from .. to
        PROVE  /\ a + (m - from + 1) \in 1 .. b
               /\ log'[a + (m - from + 1)].body.of = c
               /\ log'[a + (m - from + 1)].body.nth = m
    <3>1. PICK r \in a + 1 .. b : NewFact(r, c, try, m, from)
      BY <1>5
    <3> QED
      BY <1>1, <3>1 DEF NewFact
  <2>4. ASSUME n > 1 PROVE \E q \in 1 .. p - 1 : Before(c, n, q, p)
    <3>1. CASE n > from
      <4>1. n - 1 \in from .. to /\ a + ((n - 1) - from + 1) = p - 1 /\ p - 1 \in 1 .. p - 1
        <5>1. p = a + (n - from + 1) /\ a \in Nat
          BY <1>1, <2>1
        <5>2. from \in Nat /\ to \in Nat /\ n \in Nat /\ n <= to /\ n > from
          BY <2>2, <3>1
        <5> QED
          BY <5>1, <5>2
      <4>2. log'[p - 1].body.of = c /\ log'[p - 1].body.nth = n - 1
        BY <2>3, <4>1
      <4> QED
        BY <4>1, <4>2
    <3>2. CASE n = from
      <4>1. Reached(c, from)
        <5>1. c \notin Commander
          BY <2>4, <3>2 DEF Adds
        <5> QED
          BY <5>1 DEF Adds, Writer
      <4>2. PICK q \in RowsOf(c) : log[q].body.nth = from - 1
        BY <2>4, <3>2, <4>1 DEF Reached
      <4>3. q \in 1 .. a /\ log[q].body.of = c
        BY <1>1 DEF RowsOf
      <4>4. q \in 1 .. p - 1 /\ log'[q] = log[q]
        BY <1>1, <2>1, <2>2, <3>2, <4>3
      <4>5. Differ(c, n - 1, n)
        BY <2>4, <3>2, <4>1 DEF Reached
      <4> QED
        BY <3>2, <4>2, <4>3, <4>4, <4>5
    <3> QED
      BY <2>2, <3>1, <3>2
  <2>5. ASSUME n < Len(Plan[c]), ~Differ(c, n, n + 1) PROVE After(c, n, p)
    <3>1. n # to
      BY <2>5 DEF Adds
    <3>2. n + 1 \in from .. to /\ a + ((n + 1) - from + 1) = p + 1
      BY <1>1, <2>1, <2>2, <3>1
    <3>3. p + 1 \in 1 .. b /\ log'[p + 1].body.of = c /\ log'[p + 1].body.nth = n + 1
      BY <2>3, <3>2
    <3> QED
      BY <1>1, <3>3
  <2> QED
    BY <2>1, <2>4, <2>5
<1>4. ASSUME NEW p \in DOMAIN log'
      PROVE  Right(p, log'[p].body.of, log'[p].body.nth)
  <2>1. p \in 1 .. a \/ p \in a + 1 .. b
    BY <1>1
  <2> HIDE DEF Right
  <2> QED
    BY <1>2, <1>3, <2>1
<1>7. DOMAIN log' = 1 .. b /\ b = Len(log')
  BY <1>1
<1> QED
  BY <1>4, <1>7, Zenon DEF RunsOK, Differ

\* The rows of a caller are as they were.
SameRows(d) == RowsOf(d)' = RowsOf(d) /\ \A i \in RowsOf(d) : log'[i] = log[i]

LEMMA AddsOthers ==
    ASSUME LogOK, NEW c, NEW try, NEW from, NEW to, NEW basis, NEW s,
           Adds(c, try, from, to, basis, s), NEW d, d # c
    PROVE  SameRows(d)
<1>1. /\ DOMAIN log = 1 .. Len(log) /\ DOMAIN log' = 1 .. Len(log') /\ Len(log) \in Nat
      /\ \A i \in 1 .. Len(log) : i \in DOMAIN log' /\ log'[i] = log[i]
  BY AddsRows
<1>2. \A p \in Len(log) + 1 .. Len(log') : \E n \in from .. to :
        NewFact(p, c, try, n, from)
  BY AddsFacts
<1>3. ASSUME NEW i \in DOMAIN log', log'[i].body.of = d PROVE i \in 1 .. Len(log)
  <2>1. i \in 1 .. Len(log) \/ i \in Len(log) + 1 .. Len(log')
    BY <1>1
  <2> QED
    BY <1>2, <1>3, <2>1 DEF NewFact
<1> QED
  BY <1>1, <1>3 DEF SameRows, RowsOf

LEMMA AddsReached ==
    ASSUME LogOK, calls' = calls, NEW c, NEW try, NEW from, NEW to, NEW basis, NEW s,
           Adds(c, try, from, to, basis, s), c \in Emitter, to + 1 <= Len(Plan[c])
    PROVE  Reached(c, to + 1)'
<1>1. /\ DOMAIN log = 1 .. Len(log) /\ DOMAIN log' = 1 .. Len(log') /\ Len(log) \in Nat
      /\ \A i \in 1 .. Len(log) : i \in DOMAIN log' /\ log'[i] = log[i]
  BY AddsRows
<1>2. /\ \A n \in from .. to : \E p \in Len(log) + 1 .. Len(log') :
             NewFact(p, c, try, n, from)
      /\ \A p \in Len(log) + 1 .. Len(log') : \E n \in from .. to :
             NewFact(p, c, try, n, from)
  BY AddsFacts
<1>3. /\ from \in Nat \ {0} /\ to \in Nat /\ from <= to /\ Len(Plan[c]) \in Nat
      /\ Reached(c, from)
  BY Plans DEF Adds
<1>4. Differ(c, to, to + 1)
  BY <1>3 DEF Adds
<1>5. \E i \in DOMAIN log' : log'[i].body.of = c /\ log'[i].body.nth = to
  <2>1. PICK p \in Len(log) + 1 .. Len(log') : NewFact(p, c, try, to, from)
    BY <1>2, <1>3
  <2>2. p \in DOMAIN log'
    BY <1>1
  <2> QED
    BY <2>1, <2>2 DEF NewFact
<1>6. ASSUME c \notin Supplied, NEW i \in DOMAIN log', log'[i].body.of = c,
             log'[i].id[2] = calls[c]
      PROVE  log'[i].body.nth < to + 1
  <2>1. CASE i \in 1 .. Len(log)
    <3>1. i \in RowsOf(c) /\ log[i].id[2] = calls[c] /\ log'[i] = log[i] /\ RowOK(log[i])
      BY <1>1, <1>6, <2>1 DEF RowsOf, LogOK
    <3>2. log[i].body.nth < from
      BY <1>3, <1>6, <3>1 DEF Reached
    <3>3. log[i].body.nth \in 1 .. Len(Plan[log[i].body.of])
      BY <3>1 DEF RowOK
    <3>4. log[i].body.of = c
      BY <3>1 DEF RowsOf
    <3> QED
      BY <1>3, <3>1, <3>2, <3>3, <3>4
  <2>2. CASE i \in Len(log) + 1 .. Len(log')
    <3>1. PICK n \in from .. to : NewFact(i, c, try, n, from)
      BY <1>2, <2>2
    <3>2. log'[i].body.nth = n
      BY <3>1 DEF NewFact
    <3> QED
      BY <1>3, <3>2
  <2> QED
    BY <1>1, <2>1, <2>2
<1>7. (to + 1) - 1 = to
  BY <1>3
<1> QED
  BY <1>4, <1>5, <1>6, <1>7 DEF Reached, RowsOf, Differ

LEMMA ReachedKept ==
    ASSUME NEW d, SameRows(d), calls'[d] = calls[d], NEW next, Reached(d, next)
    PROVE  Reached(d, next)'
  BY DEF SameRows, Reached, RowsOf, Differ

LEMMA CallKept ==
    ASSUME NEW d \in Caller, CallOK(d), SameRows(d), task'[d] = task[d],
           answer'[d] = answer[d], calls'[d] = calls[d], occ' = occ
    PROVE  CallOK(d)'
<1>1. \A next : Reached(d, next) => Reached(d, next)'
  BY ReachedKept
<1>2. RowsOf(d)' = RowsOf(d) /\ Refused(d)' = Refused(d)
  BY DEF SameRows, Refused
<1> QED
  BY <1>1, <1>2 DEF CallOK

\* Ids of its own: such a batch cannot be a redelivery, nor overlap with one.
LEMMA FreshIsAppended ==
    ASSUME NEW c, NEW try, NEW basis, NEW s,
           NEW from \in Nat \ {0}, NEW to \in Nat, from <= to,
           \A i \in DOMAIN log, n \in from .. to : log[i].id # Id(c, try, n)
    PROVE  Log!Verdict(log, s, Log!AnyState, BatchOf(c, try, from, to, basis)) = "append"
<1> DEFINE batch == BatchOf(c, try, from, to, basis)
           ids == [n \in from .. to |-> Id(c, try, n)]
<1>1. /\ IsBatch(batch, to - from + 1)
      /\ \A n \in from .. to : batch[n - from + 1] = Event(c, try, n, basis)
  BY BatchIs
<1>2. PICK m \in Nat \ {0} : m = to - from + 1
  OBVIOUS
<1>3. Len(batch) = m /\ DOMAIN batch = 1 .. m
  BY <1>1, <1>2 DEF IsBatch
<1> HIDE DEF batch
<1>4. ASSUME NEW i \in 1 .. m
      PROVE  \E n \in from .. to : i = n - from + 1 /\ batch[i].id = Id(c, try, n)
  <2>1. PICK n \in from .. to : i = n - from + 1
    <3>1. i + from - 1 \in from .. to /\ i = (i + from - 1) - from + 1
      BY <1>2
    <3> QED
      BY <3>1
  <2>2. batch[n - from + 1] = Event(c, try, n, basis)
    BY <1>1
  <2>3. batch[i].id = Id(c, try, n)
    BY <2>1, <2>2 DEF Event
  <2> QED
    BY <2>1, <2>3
<1>5. Log!IdsOf(batch) = {ids[n] : n \in from .. to}
  <2>1. ASSUME NEW n \in from .. to PROVE Id(c, try, n) \in Log!IdsOf(batch)
    <3>1. n - from + 1 \in 1 .. m
      BY <1>2
    <3>2. batch[n - from + 1] = Event(c, try, n, basis)
      BY <1>1
    <3>3. batch[n - from + 1].id = Id(c, try, n)
      BY <3>2 DEF Event
    <3> QED
      BY <1>3, <3>1, <3>3 DEF Log!IdsOf
  <2>2. ASSUME NEW x \in Log!IdsOf(batch) PROVE \E n \in from .. to : x = Id(c, try, n)
    <3>1. PICK i \in 1 .. m : x = batch[i].id
      BY <1>3 DEF Log!IdsOf
    <3> QED
      BY <1>4, <3>1
  <2> QED
    BY <2>1, <2>2
<1>6. ASSUME NEW n \in from .. to, NEW k \in from .. to, Id(c, try, n) = Id(c, try, k)
      PROVE  n = k
  <2>1. Id(c, try, n)[4] = n /\ Id(c, try, k)[4] = k
    BY DEF Id
  <2> QED
    BY <1>6, <2>1
<1>7. Cardinality(Log!IdsOf(batch)) = m
  <2>1. ids \in Bijection(from .. to, Log!IdsOf(batch))
    <3>1. ids \in [from .. to -> Log!IdsOf(batch)]
      BY <1>5
    <3>2. \A x \in Log!IdsOf(batch) : \E n \in from .. to : ids[n] = x
      BY <1>5
    <3>3. \A n, k \in from .. to : ids[n] = ids[k] => n = k
      BY <1>6
    <3> HIDE DEF ids
    <3> QED
      BY <3>1, <3>2, <3>3 DEF Bijection, Injection, Surjection, IsInjective
  <2>2. IsFiniteSet(from .. to) /\ Cardinality(from .. to) = m
    <3>1. from \in Int /\ to \in Int /\ ~(from > to)
      OBVIOUS
    <3> QED
      BY <1>2, <3>1, FS_Interval
  <2>3. Cardinality(Log!IdsOf(batch)) = Cardinality(from .. to)
    BY <2>1, <2>2, FS_Bijection DEF ExistsBijection
  <2> QED
    BY <2>2, <2>3
<1>8. ~Log!Malformed(batch)
  <2>1. batch # <<>>
    <3>1. Len(batch) # 0
      BY <1>3
    <3> QED
      BY <3>1
  <2> QED
    BY <1>3, <1>7, <2>1, SameCardinality DEF Log!Malformed
<1>9. Log!Persisted(log, batch) = {}
  <2>1. ASSUME NEW i \in 1 .. m PROVE batch[i].id \notin Log!IdsOf(log)
    BY <1>4 DEF Log!IdsOf
  <2> QED
    BY <1>3, <2>1 DEF Log!Persisted
<1>10. Log!Matches(log, s, Log!AnyState)
  BY DEF Log!Matches, Log!AnyState
<1>11. Log!Verdict(log, s, Log!AnyState, batch) = "append"
  BY <1>8, <1>9, <1>10 DEF Log!Verdict
<1> QED
  BY <1>11 DEF batch

\* Only the call of c moves.
Alone(c) ==
    /\ DOMAIN task' = Caller /\ DOMAIN answer' = Caller /\ DOMAIN calls' = Caller
    /\ \A d \in Caller \ {c} :
         task'[d] = task[d] /\ answer'[d] = answer[d] /\ calls'[d] = calls[d]
    /\ occ' = occ

Domains == DOMAIN task = Caller /\ DOMAIN answer = Caller /\ DOMAIN calls = Caller

LEMMA Returned ==
    ASSUME Domains, NEW c \in Caller, NEW what, Return(c, what),
           occ' = occ, calls'[c] \in Nat,
           what \notin {"running", "refused", "conflict"},
           c \in Emitter /\ Refused(c) => RowsOf(c)' = {}
    PROVE  CallOK(c)'
<1>1. task'[c].pc = "idle" /\ answer'[c] = what /\ what # "running"
  BY DEF Return, Idle, Domains
<1>2. Refused(c)' = Refused(c)
  BY DEF Refused
<1>3. task'[c].pc \notin FoldPcs \cup {"load", "commit", "run"}
  BY <1>1 DEF FoldPcs
<1> QED
  BY <1>1, <1>2, <1>3 DEF CallOK

LEMMA WentOn ==
    ASSUME Domains, NEW c \in Caller, NEW frame, GoOn(c, frame)
    PROVE  task'[c] = frame /\ answer'[c] = "running"
  BY DEF GoOn, Domains

LEMMA FoldedOn ==
    ASSUME Domains, NEW c \in Writer, NEW todo, NEW next, FoldOn(c, todo, next),
           occ' = occ, calls'[c] = calls[c], calls[c] \in Nat,
           c \in Emitter => /\ calls[c] > 0 /\ ~Refused(c) /\ next \in Nat \ {0}
                            /\ next <= Len(Plan[c]) => Reached(c, next)'
    PROVE  CallOK(c)'
<1>1. c \in Caller /\ Len(Plan[c]) \in Nat
  BY Plans DEF Writer, Caller
<1>2. Refused(c)' = Refused(c)
  BY DEF Refused
<1>3. CASE todo # <<>>
  <2>1. task'[c] = Folding(todo, next) /\ answer'[c] = "running"
    BY <1>1, <1>3, WentOn DEF FoldOn
  <2>2. task'[c].pc = "fold" /\ task'[c].next = next
    BY <2>1 DEF Folding, Frame
  <2> QED
    BY <1>1, <1>2, <2>1, <2>2 DEF CallOK, FoldPcs
<1>4. CASE todo = <<>> /\ c \in Emitter /\ next <= Len(Plan[c])
  <2>1. task'[c] = [pc |-> "run", next |-> next] /\ answer'[c] = "running"
    BY <1>1, <1>4, WentOn DEF FoldOn
  <2>2. task'[c].pc = "run" /\ task'[c].next = next
    BY <2>1
  <2>3. next \in 1 .. Len(Plan[c])
    BY <1>1, <1>4
  <2> QED
    BY <1>1, <1>2, <1>4, <2>1, <2>2, <2>3 DEF CallOK, FoldPcs
<1>5. CASE todo = <<>> /\ ~(c \in Emitter /\ next <= Len(Plan[c]))
  <2>1. Return(c, "ok")
    BY <1>5 DEF FoldOn
  <2> QED
    BY <1>1, <2>1, Returned
<1> QED
  BY <1>3, <1>4, <1>5

LEMMA FoldKept ==
    ASSUME Domains, NEW c \in Caller, CallOK(c), SameRows(c), occ' = occ, calls'[c] = calls[c],
           task[c].pc \in FoldPcs, task'[c].pc \in FoldPcs, task'[c].next = task[c].next,
           answer'[c] = "running", c \in Reader => task'[c].pc \in {"restore", "install"}
    PROVE  CallOK(c)'
<1>1. \A next : Reached(c, next) => Reached(c, next)'
  BY ReachedKept
<1>2. Refused(c)' = Refused(c)
  BY DEF Refused
<1>3. task[c].pc \notin {"idle", "load", "commit", "run"}
      /\ task'[c].pc \notin {"idle", "load", "commit", "run"}
  BY DEF FoldPcs
<1>4. c \in Writer \/ c \in Reader
  BY DEF Caller, Writer
<1> QED
  BY <1>1, <1>2, <1>3, <1>4 DEF CallOK

\* A fold that takes no more of its todo, or is through with it.
LEMMA FoldLeft ==
    ASSUME Domains, NEW c \in Caller, CallOK(c), SameRows(c), occ' = occ, calls'[c] = calls[c],
           task[c].pc \in FoldPcs, c \in Writer, NEW todo, FoldOn(c, todo, task[c].next)
    PROVE  CallOK(c)'
<1>1. \A next : Reached(c, next) => Reached(c, next)'
  BY ReachedKept
<1>2. task[c].pc # "idle"
  BY DEF FoldPcs
<1> QED
  BY <1>1, <1>2, FoldedOn DEF CallOK

Writes(c) == Commit(c) \/ CommitError(c) \/ AppendRun(c) \/ RunError(c)
Starts(c) == Load(c) \/ Emit(c) \/ StateOf(c)
Continues(c) ==
    \/ FoldNext(c) \/ FoldSkips(c) \/ FoldGap(c)
    \/ RestoreRead(c) \/ RestoreInstall(c) \/ RepairRead(c) \/ RepairRow(c)
    \/ SaveVersion(c) \/ SaveState(c) \/ SaveStore(c)

LEMMA Steps == Next <=> Crash \/ \E c \in Caller : Writes(c) \/ Starts(c) \/ Continues(c)
  BY DEF Next, Writes, Starts, Continues

\* What a frame or an answer changes.
LEMMA OnlyItsOwn ==
    ASSUME Domains, NEW c \in Caller, occ' = occ,
           \/ \E what : Return(c, what)
           \/ \E frame : GoOn(c, frame)
           \/ UNCHANGED answer /\ \E frame : task' = [task EXCEPT ![c] = frame],
           \/ UNCHANGED calls
           \/ calls' = [calls EXCEPT ![c] = @ + 1]
    PROVE  Alone(c)
  BY DEF Alone, Domains, Return, GoOn

LEMMA FoldOnIs ==
    ASSUME NEW c, NEW todo, NEW next, FoldOn(c, todo, next)
    PROVE  (\E what : Return(c, what)) \/ (\E frame : GoOn(c, frame))
  BY DEF FoldOn

LEMMA StepAlone ==
    ASSUME Domains, NEW c \in Caller, Writes(c) \/ Starts(c) \/ Continues(c)
    PROVE  Alone(c)
<1>1. CASE Commit(c)
  BY <1>1, FoldOnIs, OnlyItsOwn DEF Commit
<1>2. CASE CommitError(c)
  BY <1>2, OnlyItsOwn DEF CommitError
<1>3. CASE AppendRun(c)
  BY <1>3, FoldOnIs, OnlyItsOwn DEF AppendRun
<1>4. CASE RunError(c)
  BY <1>4, OnlyItsOwn DEF RunError
<1>5. CASE Starts(c)
  BY <1>5, OnlyItsOwn DEF Starts, Load, LoadAndDecide, Emit, StateOf
<1>6. CASE FoldNext(c) \/ FoldSkips(c)
  BY <1>6, FoldOnIs, OnlyItsOwn DEF FoldNext, FoldSkips
<1>7. CASE FoldGap(c)
  BY <1>7, OnlyItsOwn DEF FoldGap
<1>8. CASE RestoreRead(c)
  BY <1>8, OnlyItsOwn DEF RestoreRead, Resume
<1>9. CASE RestoreInstall(c)
  BY <1>9, OnlyItsOwn DEF RestoreInstall, Resume
<1>10. CASE RepairRead(c)
  BY <1>10, OnlyItsOwn DEF RepairRead
<1>11. CASE RepairRow(c)
  BY <1>11, OnlyItsOwn DEF RepairRow, Resume
<1>12. CASE SaveVersion(c) \/ SaveState(c) \/ SaveStore(c)
  BY <1>12, FoldOnIs, OnlyItsOwn DEF SaveVersion, SaveState, SaveStore
<1> QED
  BY <1>1, <1>2, <1>3, <1>4, <1>5, <1>6, <1>7, <1>8, <1>9, <1>10, <1>11, <1>12
     DEF Writes, Continues

\* The log, and what it says of the other callers.
LogMoved(c) == LogOK' /\ CommandOnce' /\ RunsOK' /\ \A d \in Caller \ {c} : SameRows(d)

LEMMA AddsMoved ==
    ASSUME WriteInv, calls' = calls, NEW c, NEW try, NEW from, NEW to, NEW basis, NEW s,
           Adds(c, try, from, to, basis, s)
    PROVE  LogMoved(c)
<1>1. LogOK /\ CommandOnce /\ RunsOK
  BY DEF WriteInv
<1>2. LogOK'
  BY <1>1, AddsLogOK
<1>3. CommandOnce'
  BY <1>1, AddsOnce
<1>4. RunsOK'
  BY <1>1, AddsRuns
<1>5. \A d \in Caller \ {c} : SameRows(d)
  BY <1>1, AddsOthers
<1> QED
  BY <1>2, <1>3, <1>4, <1>5 DEF LogMoved

LEMMA SameLog ==
    ASSUME WriteInv, NEW c, log' = log,
           calls' = calls \/ \A d \in Caller : calls[d] \in Nat /\ calls'[d] \in {calls[d], calls[d] + 1}
    PROVE  LogMoved(c) /\ \A d : SameRows(d)
<1>1. ASSUME NEW i \in DOMAIN log PROVE RowOK(log[i])'
  <2> DEFINE row == log[i]
             d == row.body.of
  <2>1. RowOK(row)
    BY DEF WriteInv, LogOK
  <2>2. d \in Caller
    BY <2>1 DEF RowOK, Writer, Caller
  <2>3. CASE calls' = calls
    BY <2>1, <2>3 DEF RowOK, IdOK
  <2>4. CASE calls[d] \in Nat /\ calls'[d] \in {calls[d], calls[d] + 1}
    <3>1. \A k : k \in 1 .. calls[d] => k \in 1 .. calls'[d]
      BY <2>4
    <3>2. IdOK(row)
      BY <2>1 DEF RowOK
    <3>3. IF d \in Supplied THEN row.id = <<d, 0, 0, row.body.nth>>
          ELSE row.id = <<d, row.id[2], row.id[3], row.body.nth>> /\ row.id[2] \in 1 .. calls'[d]
      BY <3>1, <3>2 DEF IdOK
    <3>4. IdOK(log[i])'
      BY <3>3 DEF IdOK
    <3> QED
      BY <2>1, <3>4 DEF RowOK
  <2> QED
    BY <2>2, <2>3, <2>4
<1>2. LogOK'
  <2>1. Log!IsLog(log)' /\ Shaped(log)'
    <3>1. Log!IsLog(log) /\ Shaped(log)
      BY DEF WriteInv, LogOK
    <3>2. Log!IsLog(log') /\ Shaped(log')
      BY <3>1
    <3> QED
      BY <3>2 DEF Log!IsLog, Shaped, Log!PositionsOf, Log!NextRev, Log!Cardinality
  <2>2. \A i \in DOMAIN log' : RowOK(log[i])'
    BY <1>1
  <2> QED
    BY <2>1, <2>2 DEF LogOK
<1>3. CommandOnce' /\ RunsOK'
  BY DEF WriteInv, CommandOnce, RunsOK, Differ
<1>4. ASSUME NEW d PROVE SameRows(d)
  BY DEF SameRows, RowsOf
<1> QED
  BY <1>2, <1>3, <1>4 DEF LogMoved

LEMMA LogStep ==
    ASSUME WriteInv, NEW c \in Caller, Writes(c) \/ Starts(c) \/ Continues(c)
    PROVE  LogMoved(c)
<1>1. CASE Commit(c) \/ CommitError(c)
  <2>1. calls' = calls
    BY <1>1 DEF Commit, CommitError
  <2> QED
    BY <1>1, <2>1, CommitAdds, AddsMoved, SameLog
<1>2. CASE AppendRun(c) \/ RunError(c)
  <2>1. calls' = calls
    BY <1>2 DEF AppendRun, RunError
  <2> QED
    BY <1>2, <2>1, RunAdds, AddsMoved, SameLog
<1>3. CASE Starts(c)
  <2>1. log' = log /\ (calls' = calls \/ calls' = [calls EXCEPT ![c] = @ + 1])
    BY <1>3 DEF Starts, Load, Emit, StateOf
  <2>2. DOMAIN calls = Caller /\ \A d \in Caller : calls[d] \in Nat
    BY DEF WriteInv, CallsOK, CallOK
  <2>3. calls' = calls \/ \A d \in Caller : calls[d] \in Nat /\ calls'[d] \in {calls[d], calls[d] + 1}
    BY <2>1, <2>2
  <2> QED
    BY <2>1, <2>3, SameLog
<1>4. CASE Continues(c)
  <2>1. log' = log /\ calls' = calls
    BY <1>4 DEF Continues, FoldNext, FoldSkips, FoldGap, RestoreRead, RestoreInstall,
                RepairRead, RepairRow, SaveVersion, SaveState, SaveStore
  <2> QED
    BY <2>1, SameLog
<1> QED
  BY <1>1, <1>2, <1>3, <1>4 DEF Writes

\* A command's own facts are where its decider looks for them.
LEMMA OwnRows ==
    ASSUME LogOK, NEW c \in Commander
    PROVE  (\E i \in HomeRows(0) : log[i].body.of = c) <=> RowsOf(c) # {}
<1>1. ASSUME NEW i \in RowsOf(c) PROVE i \in HomeRows(0) /\ log[i].body.of = c
  <2>1. i \in DOMAIN log /\ log[i].body.of = c /\ RowOK(log[i])
    BY DEF RowsOf, LogOK
  <2>2. log[i].stream = Home
    BY <2>1, Plans DEF RowOK, Writer
  <2>3. i \in Log!PositionsOf(log, Home)
    BY <2>1, <2>2 DEF Log!PositionsOf
  <2>4. log[i].rev \in Nat
    <3>1. log[i].rev \in 0 .. Log!NextRev(log, Home) - 1
      BY <2>3 DEF LogOK, Shaped
    <3>2. Log!NextRev(log, Home) \in Nat
      BY LogShape DEF LogOK
    <3> QED
      BY <3>1, <3>2
  <2> QED
    BY <2>1, <2>3, <2>4 DEF HomeRows, Log!StreamFrom
<1>2. ASSUME NEW i \in HomeRows(0), log[i].body.of = c PROVE i \in RowsOf(c)
  BY <1>2 DEF HomeRows, Log!StreamFrom, Log!PositionsOf, RowsOf
<1> QED
  BY <1>1, <1>2

LEMMA LoadCall ==
    ASSUME WriteInv, NEW c \in Caller, Load(c)
    PROVE  CallOK(c)'
<1>1. /\ LogOK /\ Domains /\ CallOK(c) /\ c \in Commander
      /\ log' = log /\ occ' = occ /\ c \notin Emitter /\ c \notin Reader
  BY CallersDiffer DEF WriteInv, CallsOK, Domains, Load
<1>2. RowsOf(c)' = RowsOf(c)
  BY <1>1 DEF RowsOf
<1>3. PICK try \in Nat : LoadAndDecide(c, try)
  BY <1>1 DEF Load, At, CallOK
<1>4. calls'[c] \in Nat \ {0}
  BY <1>1 DEF Load, At, CallOK, Domains
<1>5. CASE RowsOf(c) # {}
  <2>1. Return(c, "ok")
    BY <1>1, <1>3, <1>5, OwnRows DEF LoadAndDecide
  <2> QED
    BY <1>1, <1>4, <2>1, Returned
<1>6. CASE RowsOf(c) = {}
  <2>1. GoOn(c, [pc |-> "commit", try |-> try, basis |-> HomeLen])
    BY <1>1, <1>3, <1>6, OwnRows DEF LoadAndDecide
  <2>2. task'[c] = [pc |-> "commit", try |-> try, basis |-> HomeLen] /\ answer'[c] = "running"
    BY <1>1, <2>1, WentOn
  <2>3. HomeLen \in Nat
    BY <1>1, LogShape DEF HomeLen, LogOK
  <2>4. /\ task'[c].pc = "commit" /\ task'[c].try \in Nat /\ task'[c].basis \in Nat
    BY <2>2, <2>3
  <2> QED
    BY <1>1, <1>2, <1>4, <1>6, <2>2, <2>4 DEF CallOK, FoldPcs
<1> QED
  BY <1>5, <1>6

LEMMA CommitCall ==
    ASSUME WriteInv, NEW c \in Caller, Commit(c) \/ CommitError(c)
    PROVE  CallOK(c)'
<1>1. /\ LogOK /\ Domains /\ CallOK(c) /\ occ' = occ /\ calls' = calls /\ calls[c] \in Nat \ {0}
      /\ c \in Commander /\ task[c].try \in Nat /\ RowsOf(c) = {}
      /\ c \notin Emitter /\ c \notin Reader /\ c \in Writer
  BY CallersDiffer DEF WriteInv, CallsOK, Domains, Commit, CommitError, At, CallOK, Writer
<1>2. CASE CommitError(c)
  <2>1. Return(c, "error")
    BY <1>2 DEF CommitError
  <2> QED
    BY <1>1, <2>1, Returned
<1>3. CASE Commit(c)
  <2>1. CASE \E todo : FoldOn(c, todo, 0)
    BY <1>1, <2>1, FoldedOn
  <2> DEFINE verdict == Log!Verdict(log, Home, Expected(c), Decision(c))
  <2>2. ASSUME verdict = "conflict" PROVE RowsOf(c)' = {}
    <3>1. log' = log
      BY <1>3, <2>2 DEF Commit, Log!AppendTo
    <3> QED
      BY <1>1, <3>1 DEF RowsOf
  <2>3. CASE verdict = "conflict" /\ GoOn(c, [pc |-> "load", try |-> task[c].try + 1])
    <3>1. task'[c] = [pc |-> "load", try |-> task[c].try + 1] /\ answer'[c] = "running"
      BY <1>1, <2>3, WentOn
    <3>2. task'[c].pc = "load" /\ task'[c].try \in Nat
      BY <1>1, <3>1
    <3> QED
      BY <1>1, <2>2, <2>3, <3>1, <3>2 DEF CallOK, FoldPcs
  <2>4. CASE verdict = "conflict" /\ Return(c, "conflict")
    <3>1. task'[c].pc = "idle" /\ answer'[c] = "conflict"
      BY <1>1, <2>4 DEF Return, Idle, Domains
    <3> QED
      BY <1>1, <2>2, <2>4, <3>1 DEF CallOK, FoldPcs
  <2> QED
    BY <1>3, <2>1, <2>3, <2>4 DEF Commit
<1> QED
  BY <1>2, <1>3

LEMMA EmitCall ==
    ASSUME WriteInv, NEW c \in Caller, Emit(c)
    PROVE  CallOK(c)'
<1>1. /\ LogOK /\ Domains /\ CallOK(c) /\ c \in Emitter /\ c \in Writer
      /\ log' = log /\ occ' = occ /\ c \notin Commander /\ c \notin Reader
  BY CallersDiffer DEF WriteInv, CallsOK, Domains, Emit, Writer
<1>2. RowsOf(c)' = RowsOf(c) /\ Refused(c)' = Refused(c) /\ (Refused(c) => RowsOf(c) = {})
  BY <1>1 DEF RowsOf, Refused, CallOK
<1>3. calls'[c] = calls[c] + 1 /\ calls[c] \in Nat
  BY <1>1 DEF Emit, CallOK, Domains
<1>4. CASE Refused(c)
  <2>1. task'[c].pc = "idle" /\ answer'[c] = "refused"
    BY <1>1, <1>4 DEF Emit, Return, Idle, Domains
  <2> QED
    BY <1>1, <1>2, <1>3, <1>4, <2>1 DEF CallOK, FoldPcs
<1>5. CASE ~Refused(c)
  <2>1. task'[c] = [pc |-> "run", next |-> 1] /\ answer'[c] = "running"
    BY <1>1, <1>5, WentOn DEF Emit
  <2>2. task'[c].pc = "run" /\ task'[c].next = 1
    BY <2>1
  <2>3. 1 \in 1 .. Len(Plan[c])
    BY <1>1, Plans
  <2>4. ASSUME c \notin Supplied, NEW i \in RowsOf(c) PROVE log[i].id[2] # calls[c] + 1
    <3>1. RowOK(log[i]) /\ log[i].body.of = c
      BY <1>1 DEF RowsOf, LogOK
    <3>2. log[i].id[2] \in 1 .. calls[c]
      BY <2>4, <3>1 DEF RowOK, IdOK
    <3> QED
      BY <1>3, <3>2
  <2>5. Reached(c, 1)'
    BY <1>1, <1>2, <1>3, <2>4 DEF Reached
  <2>6. calls'[c] \in Nat \ {0}
    BY <1>3
  <2> QED
    BY <1>1, <1>2, <1>5, <2>1, <2>2, <2>3, <2>5, <2>6 DEF CallOK, FoldPcs
<1> QED
  BY <1>4, <1>5

\* An emit that does not supply its id writes under ids of its own.
LEMMA RunIsFresh ==
    ASSUME WriteInv, NEW c \in Caller, AppendRun(c), c \notin Supplied
    PROVE  Log!Verdict(log, RunStream(c), Log!AnyState, RunBatch(c)) = "append"
<1>0. PICK from, to : from = task[c].next /\ to = RunEnd(c, from)
  OBVIOUS
<1>1. /\ LogOK /\ c \in Writer /\ from \in 1 .. Len(Plan[c]) /\ Reached(c, from)
  BY <1>0 DEF WriteInv, CallsOK, AppendRun, At, CallOK, Writer
<1>2. c \notin Supplied
  OBVIOUS
<1>3. from \in Nat \ {0} /\ to \in Nat /\ from <= to
  <2>1. PICK n \in Nat : n = Len(Plan[c])
    BY <1>1, Plans
  <2>2. to \in from .. n
    BY <1>0, <1>1, <2>1, RunEndIs
  <2> QED
    BY <1>1, <2>1, <2>2
<1>4. ASSUME NEW i \in DOMAIN log, NEW k \in from .. to, log[i].id = Id(c, 0, k)
      PROVE  FALSE
  <2>1. log[i].id = <<c, calls[c], 0, k>>
    BY <1>2, <1>4 DEF Id
  <2>2. RowOK(log[i])
    BY <1>1 DEF LogOK
  <2> DEFINE d == log[i].body.of
             m == log[i].body.nth
  <2>3. log[i].id[1] = d /\ log[i].id[4] = m
    <3>1. IdOK(log[i])
      BY <2>2 DEF RowOK
    <3>2. CASE d \in Supplied
      BY <3>1, <3>2 DEF IdOK
    <3>3. CASE d \notin Supplied
      <4>1. log[i].id = <<d, log[i].id[2], log[i].id[3], m>>
        BY <3>1, <3>3 DEF IdOK
      <4> HIDE DEF d, m
      <4>2. PICK x, y : log[i].id = <<d, x, y, m>>
        BY <4>1
      <4> QED
        BY <4>2
    <3> QED
      BY <3>2, <3>3
  <2>4. d = c /\ m = k /\ log[i].id[2] = calls[c]
    BY <2>1, <2>3
  <2>5. i \in RowsOf(c)
    BY <2>4 DEF RowsOf
  <2>6. m < from
    BY <1>1, <1>2, <2>4, <2>5 DEF Reached
  <2> QED
    BY <1>3, <2>4, <2>6
<1> QED
  BY <1>0, <1>3, <1>4, FreshIsAppended DEF RunBatch

LEMMA RunCall ==
    ASSUME WriteInv, NEW c \in Caller, AppendRun(c) \/ RunError(c)
    PROVE  CallOK(c)'
<1>0. PICK from, to : from = task[c].next /\ to = RunEnd(c, from)
  OBVIOUS
<1>1. /\ LogOK /\ Domains /\ CallOK(c) /\ occ' = occ /\ calls' = calls
      /\ calls[c] \in Nat \ {0} /\ ~Refused(c)
      /\ c \in Emitter /\ from \in 1 .. Len(Plan[c]) /\ Reached(c, from)
      /\ c \notin Commander /\ c \notin Reader /\ c \in Writer
  BY <1>0, CallersDiffer DEF WriteInv, CallsOK, Domains, AppendRun, RunError, At, CallOK, Writer
<1>2. CASE RunError(c)
  <2>1. Return(c, "error")
    BY <1>2 DEF RunError
  <2> QED
    BY <1>1, <2>1, Returned
<1>3. CASE AppendRun(c)
  <2>1. PICK n \in Nat : n = Len(Plan[c])
    BY <1>1, Plans
  <2>2. to \in from .. n
    BY <1>0, <1>1, <2>1, RunEndIs
  <2>3. PICK todo : FoldOn(c, todo, to + 1)
    BY <1>0, <1>3 DEF AppendRun
  <2>4. to + 1 \in Nat \ {0} /\ from \in Nat \ {0} /\ to \in Nat /\ from <= to
    BY <1>1, <2>1, <2>2
  <2>5. ASSUME to + 1 <= n PROVE Reached(c, to + 1)'
    <3>1. c \notin Supplied
      <4>1. n # 1
        BY <2>4, <2>5
      <4> QED
        BY <1>1, <2>1, <4>1, Plans
    <3>2. Log!Verdict(log, RunStream(c), Log!AnyState, RunBatch(c)) = "append"
      BY <1>3, <3>1, RunIsFresh
    <3>3. Adds(c, 0, from, to, 0, RunStream(c))
      BY <1>0, <1>3, <3>2, RunAdds
    <3> QED
      BY <1>1, <2>1, <2>5, <3>3, AddsReached
  <2> QED
    BY <1>1, <2>1, <2>3, <2>4, <2>5, FoldedOn
<1> QED
  BY <1>2, <1>3

LEMMA StateOfCall ==
    ASSUME WriteInv, NEW c \in Caller, StateOf(c)
    PROVE  CallOK(c)'
<1>1. /\ Domains /\ CallOK(c) /\ c \in Reader /\ occ' = occ
      /\ c \notin Commander /\ c \notin Emitter /\ calls'[c] \in Nat
  BY CallersDiffer DEF WriteInv, CallsOK, Domains, StateOf, CallOK
<1>2. CASE Return(c, "ok")
  BY <1>1, <1>2, Returned
<1>3. CASE GoOn(c, Frame("restore", <<>>, 0, 0))
  <2>1. task'[c].pc = "restore" /\ answer'[c] = "running"
    BY <1>1, <1>3, WentOn DEF Frame
  <2> QED
    BY <1>1, <2>1 DEF CallOK, FoldPcs
<1> QED
  BY <1>2, <1>3 DEF StateOf

\* The end of a restore or a repair.
LEMMA Resumed ==
    ASSUME Domains, NEW c \in Caller, CallOK(c), SameRows(c), occ' = occ, calls' = calls,
           task[c].pc \in FoldPcs, Resume(c)
    PROVE  CallOK(c)'
<1>1. task[c].pc # "idle" /\ calls[c] \in Nat /\ answer[c] = "running"
  BY DEF CallOK, FoldPcs
<1>2. CASE c \in Reader
  <2>1. Return(c, "ok") /\ c \notin Emitter
    BY <1>2, CallersDiffer DEF Resume
  <2> QED
    BY <1>1, <2>1, Returned
<1>3. CASE c \notin Reader
  <2>1. /\ task'[c] = Frame("fold", task[c].todo, task[c].next, task[c].round)
        /\ answer' = answer
    BY <1>3 DEF Resume, Domains
  <2>2. task'[c].pc = "fold" /\ task'[c].next = task[c].next
    BY <2>1 DEF Frame
  <2> QED
    BY <1>1, <1>3, <2>1, <2>2, FoldKept DEF FoldPcs
<1> QED
  BY <1>2, <1>3

LEMMA ContinueCall ==
    ASSUME WriteInv, NEW c \in Caller, Continues(c)
    PROVE  CallOK(c)'
<1>1. /\ Domains /\ CallOK(c)
  BY DEF WriteInv, CallsOK, Domains
<1>2. log' = log /\ calls' = calls /\ occ' = occ
  BY DEF Continues, FoldNext, FoldSkips, FoldGap, RestoreRead, RestoreInstall,
         RepairRead, RepairRow, SaveVersion, SaveState, SaveStore
<1>3. SameRows(c)
  BY <1>2 DEF SameRows, RowsOf
<1>4. task[c].pc \in FoldPcs
  BY DEF Continues, FoldNext, FoldSkips, FoldGap, RestoreRead, RestoreInstall, AtFold, At,
         RepairRead, RepairRow, SaveVersion, SaveState, SaveStore, FoldPcs
<1>5. answer[c] = "running" /\ (c \in Reader => task[c].pc \in {"restore", "install"})
  <2>1. c \in Reader => c \notin Writer
    BY CallersDiffer DEF Writer
  <2> QED
    BY <1>1, <1>4, <2>1 DEF CallOK, FoldPcs
<1>6. \A d, todo : d = c /\ c \in Writer /\ FoldOn(c, todo, task[c].next) => CallOK(c)'
  BY <1>1, <1>2, <1>3, <1>4, FoldLeft
<1>7. CASE FoldNext(c)
  <2>1. c \in Writer
    BY <1>5, <1>7 DEF FoldNext, AtFold, At, Writer, Caller
  <2>2. CASE GoOn(c, Frame("save", Tail(task[c].todo), task[c].next, 0))
    <3>1. /\ task'[c] = Frame("save", Tail(task[c].todo), task[c].next, 0)
          /\ answer'[c] = "running"
      BY <1>1, <2>2, WentOn
    <3>2. task'[c].pc = "save" /\ task'[c].next = task[c].next
      BY <3>1 DEF Frame
    <3>3. c \notin Reader
      BY <2>1, CallersDiffer DEF Writer
    <3> QED
      BY <1>1, <1>2, <1>3, <1>4, <3>1, <3>2, <3>3, FoldKept DEF FoldPcs
  <2> QED
    BY <1>6, <1>7, <2>1, <2>2 DEF FoldNext
<1>8. CASE FoldSkips(c)
  <2>1. c \in Writer
    BY <1>5, <1>8 DEF FoldSkips, AtFold, At, Writer, Caller
  <2> QED
    BY <1>6, <1>8, <2>1 DEF FoldSkips
<1>9. CASE FoldGap(c)
  <2>1. /\ task'[c].pc \in {"restore", "repair"} /\ task'[c].next = task[c].next
        /\ answer' = answer
    BY <1>1, <1>9 DEF FoldGap, Frame, Domains
  <2>2. c \notin Reader
    BY <1>5, <1>9 DEF FoldGap, AtFold, At
  <2> QED
    BY <1>1, <1>2, <1>3, <1>4, <1>5, <2>1, <2>2, FoldKept DEF FoldPcs
<1>10. CASE RestoreRead(c)
  <2>1. CASE task'[c].pc = "install" /\ task'[c].next = task[c].next /\ answer' = answer
    BY <1>1, <1>2, <1>3, <1>4, <1>5, <2>1, FoldKept DEF FoldPcs
  <2>2. CASE Resume(c)
    BY <1>1, <1>2, <1>3, <1>4, <2>2, Resumed
  <2>3. \/ Resume(c)
        \/ /\ answer' = answer
           /\ \E e : task' = [task EXCEPT ![c] =
                [pc |-> "install", todo |-> @.todo, next |-> @.next, round |-> @.round,
                 entry |-> e]]
    BY <1>10 DEF RestoreRead
  <2>4. ASSUME NEW e, task' = [task EXCEPT ![c] =
                [pc |-> "install", todo |-> @.todo, next |-> @.next, round |-> @.round,
                 entry |-> e]]
        PROVE  task'[c].pc = "install" /\ task'[c].next = task[c].next
    BY <1>1, <2>4 DEF Domains
  <2> QED
    BY <2>1, <2>2, <2>3, <2>4
<1>11. CASE RestoreInstall(c)
  BY <1>1, <1>2, <1>3, <1>4, <1>11, Resumed DEF RestoreInstall
<1>12. CASE RepairRead(c)
  <2>1. task'[c].pc = "apply" /\ task'[c].next = task[c].next /\ answer' = answer
    BY <1>1, <1>12 DEF RepairRead, Domains
  <2>2. c \notin Reader
    BY <1>5, <1>12 DEF RepairRead, At
  <2> QED
    BY <1>1, <1>2, <1>3, <1>4, <1>5, <2>1, <2>2, FoldKept DEF FoldPcs
<1>13. CASE RepairRow(c)
  <2>1. CASE Resume(c)
    BY <1>1, <1>2, <1>3, <1>4, <2>1, Resumed
  <2>2. CASE task' = [task EXCEPT ![c].rows = @ \ {FirstOf(@)}] /\ answer' = answer
    <3>1. task'[c].pc = task[c].pc /\ task'[c].next = task[c].next
      BY <1>1, <2>2 DEF Domains
    <3>2. c \notin Reader
      BY <1>5, <1>13 DEF RepairRow, At
    <3> QED
      BY <1>1, <1>2, <1>3, <1>4, <1>5, <2>2, <3>1, <3>2, FoldKept
  <2> QED
    BY <1>13, <2>1, <2>2 DEF RepairRow
<1>14. CASE SaveVersion(c) \/ SaveState(c) \/ SaveStore(c)
  <2>1. c \in Writer /\ c \notin Reader
    BY <1>5, <1>14 DEF SaveVersion, SaveState, SaveStore, At, Writer, Caller
  <2>2. CASE \E todo : FoldOn(c, todo, task[c].next)
    BY <1>6, <2>1, <2>2
  <2>3. CASE \E frame : /\ GoOn(c, frame) /\ frame.pc \in {"state", "store"}
                        /\ frame.next = task[c].next
    <3>1. task'[c].pc \in {"state", "store"} /\ task'[c].next = task[c].next
          /\ answer'[c] = "running"
      BY <1>1, <2>3, WentOn
    <3> QED
      BY <1>1, <1>2, <1>3, <1>4, <2>1, <3>1, FoldKept DEF FoldPcs
  <2>4. CASE SaveVersion(c)
    BY <2>2, <2>3, <2>4 DEF SaveVersion
  <2>5. CASE SaveState(c)
    BY <2>2, <2>3, <2>5 DEF SaveState
  <2>6. CASE SaveStore(c)
    BY <2>2, <2>3, <2>6 DEF SaveStore
  <2> QED
    BY <1>14, <2>4, <2>5, <2>6
<1> QED
  BY <1>7, <1>8, <1>9, <1>10, <1>11, <1>12, <1>13, <1>14 DEF Continues

LEMMA WriteInvInit == Init => WriteInv
<1> SUFFICES ASSUME Init PROVE WriteInv
  OBVIOUS
<1>1. log = <<>> /\ DOMAIN log = {} /\ Len(log) = 0
  BY DEF Init
<1>2. Log!IsLog(log)
  BY <1>1 DEF Log!IsLog
<1>3. Log!PositionsOf(log, Home) = {} /\ Log!NextRev(log, Home) = 0
  <2>1. Log!PositionsOf(log, Home) = {}
    BY <1>1 DEF Log!PositionsOf
  <2> QED
    BY <2>1, SameCardinality, FS_EmptySet DEF Log!NextRev
<1>4. LogOK
  BY <1>1, <1>2, <1>3 DEF LogOK, Shaped
<1>5. CommandOnce /\ RunsOK
  BY <1>1 DEF CommandOnce, RunsOK
<1>6. ASSUME NEW c \in Caller PROVE CallOK(c)
  <2>1. task[c].pc = "idle" /\ answer[c] = "none" /\ calls[c] = 0 /\ RowsOf(c) = {}
    BY <1>1 DEF Init, Idle, RowsOf
  <2> QED
    BY <2>1 DEF CallOK, FoldPcs
<1>7. CallsOK
  BY <1>6 DEF CallsOK, Init
<1> QED
  BY <1>4, <1>5, <1>7 DEF WriteInv

LEMMA WriteInvCrash == ASSUME WriteInv, Crash PROVE WriteInv'
<1>1. log' = log /\ calls' = calls /\ occ' = occ
  BY DEF Crash
<1>2. LogOK' /\ CommandOnce' /\ RunsOK' /\ \A d : SameRows(d)
  BY <1>1, SameLog DEF LogMoved
<1>3. ASSUME NEW c \in Caller PROVE CallOK(c)'
  <2>1. CallOK(c) /\ DOMAIN task = Caller /\ DOMAIN answer = Caller
    BY DEF WriteInv, CallsOK
  <2>2. task'[c].pc = "idle"
    BY <1>3 DEF Crash, Idle
  <2>3. answer'[c] = IF answer[c] = "running" THEN "error" ELSE answer[c]
    BY <1>3 DEF Crash
  <2>4. RowsOf(c)' = RowsOf(c) /\ Refused(c)' = Refused(c)
    BY <1>1, <1>2 DEF SameRows, Refused
  <2> QED
    BY <1>1, <2>1, <2>2, <2>3, <2>4 DEF CallOK, FoldPcs
<1>4. CallsOK'
  <2>1. DOMAIN task' = Caller /\ DOMAIN answer' = Caller /\ DOMAIN calls' = Caller
    BY <1>1 DEF Crash, WriteInv, CallsOK
  <2> QED
    BY <1>3, <2>1 DEF CallsOK
<1> QED
  BY <1>2, <1>4 DEF WriteInv

LEMMA WriteInvStep == ASSUME WriteInv, [Next]_vars PROVE WriteInv'
<1>1. CASE Crash
  BY <1>1, WriteInvCrash
<1>2. ASSUME NEW c \in Caller, Writes(c) \/ Starts(c) \/ Continues(c)
      PROVE  WriteInv'
  <2>1. Alone(c)
    BY <1>2, StepAlone DEF WriteInv, CallsOK, Domains
  <2>2. LogMoved(c)
    BY <1>2, LogStep
  <2>3. CallOK(c)'
    BY <1>2, LoadCall, CommitCall, EmitCall, RunCall, StateOfCall, ContinueCall
       DEF Writes, Starts
  <2>4. ASSUME NEW d \in Caller \ {c} PROVE CallOK(d)'
    BY <2>1, <2>2, <2>4, CallKept DEF Alone, LogMoved, WriteInv, CallsOK
  <2>5. CallsOK'
    BY <2>1, <2>3, <2>4 DEF CallsOK, Alone
  <2> QED
    BY <2>2, <2>5 DEF LogMoved, WriteInv
<1>3. CASE UNCHANGED vars
  <2>1. LogOK' /\ CommandOnce' /\ RunsOK' /\ \A d : SameRows(d)
    BY <1>3, SameLog DEF vars, LogMoved
  <2>2. CallsOK'
    BY <1>3, <2>1, CallKept DEF vars, CallsOK, WriteInv
  <2> QED
    BY <2>1, <2>2 DEF WriteInv
<1> QED
  BY <1>1, <1>2, <1>3, Steps

LEMMA WriteInvHolds == Spec => []WriteInv
<1>1. WriteInv /\ [Next]_vars => WriteInv'
  BY WriteInvStep
<1> QED
  BY <1>1, WriteInvInit, PTL DEF Spec

\* Optimistic concurrency: a fact of Engine::append sits at the revision its
\* command was decided on, whatever else wrote to the stream in between.
THEOREM CommandsLandOnTheirTail == Spec => []DecidedOnTail
<1>1. WriteInv => DecidedOnTail
  BY DEF WriteInv, LogOK, RowOK, DecidedOnTail
<1> QED
  BY <1>1, WriteInvHolds, PTL

\* A command whose decider recognises its own facts takes effect at most once,
\* although every attempt mints fresh ids and any reply may be lost.
THEOREM CommandsTakeEffectOnce == Spec => []CommandOnce
<1>1. WriteInv => CommandOnce
  BY DEF WriteInv
<1> QED
  BY <1>1, WriteInvHolds, PTL

\* An emit lands run by run, in order and side by side; what was refused, or
\* used up its tries, left nothing.
THEOREM EmitsLandByRuns == Spec => []LandsByRuns
<1>1. ASSUME WriteInv PROVE LandsByRuns
  <2>1. ASSUME NEW c, NEW m \in Nat, ~Differ(c, m, m + 1) PROVE SameRun(c, m, m + 1)
    <3>1. m .. m + 1 = {m, m + 1}
      OBVIOUS
    <3> QED
      BY <2>1, <3>1 DEF SameRun, Differ
  <2>2. ASSUME NEW c, NEW m \in Nat, SameRun(c, m, m + 1) PROVE ~Differ(c, m, m + 1)
    BY <2>2 DEF SameRun, Differ
  <2>3. ASSUME NEW p \in DOMAIN log
        PROVE  LET c == log[p].body.of
                   n == log[p].body.nth
               IN  /\ n > 1 => \E q \in 1 .. p - 1 :
                                  /\ log[q].body.of = c /\ log[q].body.nth = n - 1
                                  /\ SameRun(c, n - 1, n) => q = p - 1
                   /\ n < Len(Plan[c]) /\ SameRun(c, n, n + 1) =>
                         /\ p < Len(log) /\ log[p + 1].body.of = c
                         /\ log[p + 1].body.nth = n + 1
                   /\ answer[c] \in {"conflict", "refused"} => log[p].id[2] # calls[c]
    <3>1. PICK c, n : c = log[p].body.of /\ n = log[p].body.nth
      OBVIOUS
    <3>2. RowOK(log[p])
      BY <1>1 DEF WriteInv, LogOK
    <3>3. c \in Caller /\ n \in Nat \ {0}
      <4>1. c \in Writer /\ n \in 1 .. Len(Plan[c])
        BY <3>1, <3>2 DEF RowOK
      <4> QED
        BY <4>1, Plans DEF Writer, Caller
    <3>4. ASSUME n > 1
          PROVE  \E q \in 1 .. p - 1 : /\ log[q].body.of = c /\ log[q].body.nth = n - 1
                                       /\ SameRun(c, n - 1, n) => q = p - 1
      <4>1. n - 1 \in Nat /\ (n - 1) + 1 = n
        BY <3>3, <3>4
      <4>2. SameRun(c, n - 1, n) => ~Differ(c, n - 1, n)
        BY <2>2, <4>1
      <4> QED
        BY <1>1, <3>1, <3>4, <4>2 DEF WriteInv, RunsOK
    <3>5. ASSUME n < Len(Plan[c]), SameRun(c, n, n + 1)
          PROVE  /\ p < Len(log) /\ log[p + 1].body.of = c
                 /\ log[p + 1].body.nth = n + 1
      <4>1. ~Differ(c, n, n + 1)
        BY <2>2, <3>3, <3>5
      <4> QED
        BY <1>1, <3>1, <3>5, <4>1 DEF WriteInv, RunsOK
    <3>6. answer[c] \notin {"conflict", "refused"}
      <4>1. p \in RowsOf(c)
        BY <3>1 DEF RowsOf
      <4>2. CallOK(c)
        BY <1>1, <3>3 DEF WriteInv, CallsOK
      <4> QED
        BY <4>1, <4>2 DEF CallOK
    <3> QED
      BY <3>1, <3>4, <3>5, <3>6
  <2> QED
    BY <2>3 DEF LandsByRuns
<1> QED
  BY <1>1, WriteInvHolds, PTL

\* The write path keeps the contract of the event log: whole batches, new ids,
\* dense revisions.
THEOREM WritesKeepTheContract == Spec => ImplementsEventLog
<1>1. Init => Log!Init
  BY DEF Init, Log!Init
<1>2. ASSUME WriteInv, [Next]_vars PROVE [Log!Next]_log
  <2>1. ASSUME NEW c, NEW try, NEW from, NEW to, NEW basis, NEW s,
               Adds(c, try, from, to, basis, s)
        PROVE  Log!Next
    <3>1. s \in Stream
      <4>1. c \in Writer /\ from \in 1 .. Len(Plan[c]) /\ Plan[c][from].stream = s
        BY <2>1, Plans DEF Adds
      <4> QED
        BY <4>1, Plans
    <3>2. Log!NextBatch(log, log', s)
      BY <2>1 DEF Adds, Landing
    <3> QED
      BY <3>1, <3>2 DEF Log!Next
  <2>2. ASSUME NEW c \in Caller, Commit(c) \/ CommitError(c) \/ AppendRun(c) \/ RunError(c)
        PROVE  log' = log \/ Log!Next
    BY <1>2, <2>1, <2>2, CommitAdds, RunAdds
  <2>3. ASSUME NEW c \in Caller, Starts(c) \/ Continues(c) PROVE log' = log
    BY <2>3 DEF Starts, Load, Emit, StateOf, Continues, FoldNext, FoldSkips, FoldGap,
                RestoreRead, RestoreInstall, RepairRead, RepairRow,
                SaveVersion, SaveState, SaveStore
  <2>4. Crash \/ UNCHANGED vars => log' = log
    BY DEF Crash, vars
  <2> QED
    BY <1>2, <2>2, <2>3, <2>4, Steps DEF Writes
<1> QED
  BY <1>1, <1>2, WriteInvHolds, PTL DEF Spec, Log!Spec, ImplementsEventLog

\* Whatever commands and emits race, retry or half fail: no event id is in the
\* log twice, and the revisions of a stream are 0, 1, 2, ...
COROLLARY WritesKeepIdsAndRevisions == Spec => [](Log!UniqueIds /\ Log!DenseRevisions)
<1>1. Log!Init => Contract!Init
  BY DEF Log!Init, Contract!Init
<1>2. Log!Next => Contract!Next
  BY Zenon DEF Log!Next, Log!NextBatch, Log!Grows, Log!IsLog, Log!Fresh, Log!NextRev,
     Log!PositionsOf, Log!IdsOf, Log!Cardinality,
     Contract!Next, Contract!NextBatch, Contract!Grows, Contract!IsLog, Contract!Fresh,
     Contract!NextRev, Contract!PositionsOf, Contract!IdsOf, Contract!Cardinality
<1>3. Contract!UniqueIds /\ Contract!DenseRevisions => Log!UniqueIds /\ Log!DenseRevisions
  BY Zenon DEF Log!UniqueIds, Log!DenseRevisions, Log!Cardinality,
     Contract!UniqueIds, Contract!DenseRevisions, Contract!Cardinality
<1>4. Contract!Spec => [](Contract!UniqueIds /\ Contract!DenseRevisions)
  BY Contract!ContractHolds
<1> QED
  BY <1>1, <1>2, <1>3, <1>4, WritesKeepTheContract,
     PTL DEF ImplementsEventLog, Log!Spec, Contract!Spec

-----------------------------------------------------------------------------
(* The inductive invariant of the folds: the versions, which hold on any     *)
(* runtime, and the states, which hold on one thread.                        *)

\* A revision of the stream whose fact the aggregate folds.
Ours == {log[i].rev : i \in {j \in HomeRows(0) : log[j].body.kind \in Folds}}
Between(r, u) == {i \in HomeRows(0) : log[i].rev \in r .. u - 1}

TodoOK(todo) == todo \in Seq(Nat) /\ \A i \in DOMAIN todo : todo[i] \in Ours

FrameOK(c) ==
    LET t == task[c] IN
    /\ t.pc \in FoldPcs => TodoOK(t.todo)
    /\ t.pc \in {"fold", "restore", "install", "repair", "apply"} => t.round \in Nat
    /\ t.pc = "fold" =>
         /\ t.todo # <<>>
         /\ t.round = 0 \/ (t.round = 1 /\ reg # None /\ Head(t.todo) < reg.version)
    /\ t.pc \in {"restore", "install", "repair", "apply"} /\ c \in Writer =>
         t.round = 1 /\ t.todo # <<>>
    /\ t.pc = "install" =>
         /\ t.entry \in Entry /\ t.entry.version \in 1 .. HomeLen
         /\ c \in Writer => Head(t.todo) < t.entry.version
    /\ t.pc = "repair" => reg # None /\ t.after \in 0 .. reg.version
    /\ t.pc = "apply" =>
         /\ reg # None
         /\ \E r \in 0 .. reg.version, u \in 0 .. HomeLen :
              t.rows = Between(r, u) /\ Head(t.todo) < u
    /\ t.pc \in {"save", "state", "store"} => c \in Writer /\ reg # None
    /\ t.pc \in {"state", "store"} => t.version \in 1 .. HomeLen
    /\ t.pc = "store" => t.state \in Seq(Nat)

RegOK == reg # None => reg \in Entry /\ reg.version \in 1 .. HomeLen
SnapOK == snap # None => snap \in Snapshot /\ snap.rev + 1 \in 1 .. HomeLen

VersionsOK == RegOK /\ SnapOK /\ \A c \in Caller : FrameOK(c)

\* A second read of the registry finds what the first one found.
FrameFolds(c) ==
    LET t == task[c] IN
    /\ t.pc = "install" => t.entry.state = FoldOf(t.entry.version)
    /\ t.pc = "state" => reg # None /\ t.version = reg.version
    /\ t.pc = "store" => t.state = FoldOf(t.version)

StatesOK == FoldsArePrefixes /\ \A c \in Caller : FrameFolds(c)

\* The revisions of the stream: one row each, from 0 on.
LEMMA HomeShape ==
    ASSUME LogOK
    PROVE  /\ HomeLen \in Nat
           /\ \A i \in HomeRows(0) : /\ i \in DOMAIN log /\ log[i].stream = Home
                                     /\ log[i].rev \in 0 .. HomeLen - 1
           /\ \A i, j \in HomeRows(0) : log[i].rev = log[j].rev => i = j
           /\ \A r \in 0 .. HomeLen - 1 : \E i \in HomeRows(0) : log[i].rev = r
           /\ Ours \in SUBSET (0 .. HomeLen - 1)
<1> DEFINE P == Log!PositionsOf(log, Home)
<1>1. HomeLen \in Nat /\ P \in SUBSET (1 .. Len(log)) /\ DOMAIN log = 1 .. Len(log)
      /\ Len(log) \in Nat
  BY LogShape DEF LogOK, HomeLen
<1>2. /\ \A i \in P : log[i].rev \in 0 .. HomeLen - 1
      /\ \A i, j \in P : i < j => log[i].rev < log[j].rev
      /\ \A r \in 0 .. HomeLen - 1 : \E i \in P : log[i].rev = r
  BY DEF LogOK, Shaped, HomeLen
<1>3. HomeRows(0) = P
  BY <1>1, <1>2 DEF HomeRows, Log!StreamFrom
<1>4. \A i \in P : log[i].stream = Home
  BY DEF Log!PositionsOf
<1> HIDE DEF P
<1>5. ASSUME NEW i \in P, NEW j \in P, log[i].rev = log[j].rev PROVE i = j
  <2>1. i \in Nat /\ j \in Nat /\ log[i].rev \in Nat
    BY <1>1, <1>2
  <2>2. ~(i < j) /\ ~(j < i)
    BY <1>2, <1>5, <2>1
  <2> QED
    BY <2>1, <2>2
<1>6. Ours \in SUBSET (0 .. HomeLen - 1)
  BY <1>2, <1>3 DEF Ours
<1> QED
  BY <1>1, <1>2, <1>3, <1>4, <1>5, <1>6

\* The log goes on: what was in the stream stays, and what comes is later.
Onward ==
    /\ HomeLen \in Nat /\ HomeLen' \in Nat /\ HomeLen <= HomeLen'
    /\ Ours' \in SUBSET (0 .. HomeLen' - 1)
    /\ \A r \in Ours : r \in Ours'
    /\ \A r \in Ours' : r < HomeLen => r \in Ours
    /\ \A r, u : u \in 0 .. HomeLen => Between(r, u)' = Between(r, u)

LEMMA LogGoesOn ==
    ASSUME LogOK, LogOK', log' = log \/ \E s : Log!NextBatch(log, log', s)
    PROVE  Onward
<1>1. /\ HomeLen \in Nat /\ Ours \in SUBSET (0 .. HomeLen - 1)
      /\ \A i \in HomeRows(0) : log[i].rev \in 0 .. HomeLen - 1
  BY HomeShape
<1>2. CASE log' = log
  <2>1. HomeLen' = HomeLen /\ Ours' = Ours
    BY <1>2 DEF HomeLen, Ours, HomeRows, Log!StreamFrom, Log!PositionsOf, Log!NextRev,
                Log!Cardinality
  <2>2. \A r, u : Between(r, u)' = Between(r, u)
    BY <1>2 DEF Between, HomeRows, Log!StreamFrom, Log!PositionsOf
  <2> QED
    BY <1>1, <2>1, <2>2 DEF Onward
<1>3. ASSUME NEW s, Log!NextBatch(log, log', s) PROVE Onward
  <2>1. /\ Len(log) \in Nat /\ Len(log') \in Nat /\ Len(log) < Len(log')
        /\ DOMAIN log = 1 .. Len(log) /\ DOMAIN log' = 1 .. Len(log')
        /\ \A i \in 1 .. Len(log) : log'[i] = log[i]
    BY <1>3, PositionsGrow, SMTT(40) DEF LogOK
  <2>2. PICK a \in Nat, b \in Nat : a = Len(log) /\ b = Len(log') /\ a < b
    BY <2>1
  <2>3. HomeRows(0) = Log!PositionsOf(log, Home)
    BY <1>1, HomeShape DEF HomeRows, Log!StreamFrom, LogOK, Shaped, HomeLen
  <2> DEFINE P == Log!PositionsOf(log, Home)
             Q == Log!PositionsOf(log', Home)
             n == Log!NextRev(log, Home)
             m == Log!NextRev(log', Home)
  <2>4. n \in Nat /\ m \in Nat /\ n <= m
    BY <1>3, <2>1, LogShape, PositionsGrow DEF LogOK
  <2>5. \A i \in Q : log'[i].rev \in 0 .. m - 1
    BY DEF LogOK, Shaped
  <2>6. HomeRows(0)' = Q
    BY <2>4, <2>5 DEF HomeRows, Log!StreamFrom, Log!PositionsOf
  <2>7. HomeLen = n /\ HomeLen' = m
    BY DEF HomeLen, Log!NextRev, Log!PositionsOf, Log!Cardinality
  <2>8. /\ \A i \in P : i \in 1 .. a /\ i \in Q /\ log'[i] = log[i]
        /\ \A i \in Q : i \notin P => i \in a + 1 .. b
    <3>1. \A i \in 1 .. a : i \in 1 .. b
      BY <2>2
    <3>2. \A i \in 1 .. b : i \in 1 .. a \/ i \in a + 1 .. b
      BY <2>2
    <3> QED
      BY <2>1, <2>2, <3>1, <3>2 DEF Log!PositionsOf
  <2>9. ASSUME NEW i \in Q, i \notin P PROVE log'[i].rev >= n
    <3>1. i \in a + 1 .. b /\ log'[i].stream = s
      BY <1>3, <2>2, <2>8, <2>9 DEF Log!NextBatch, Log!Fresh
    <3>2. s = Home
      BY <3>1 DEF Log!PositionsOf
    <3>3. log'[i].rev = n + (i - a) - 1
      BY <1>3, <2>2, <3>1, <3>2 DEF Log!NextBatch, Log!Fresh
    <3> QED
      BY <2>4, <3>1, <3>3
  <2> HIDE DEF P, Q, n, m
  <2>10. \A r \in Ours : r \in Ours'
    <3>1. ASSUME NEW r \in Ours PROVE \E i \in P : log[i].rev = r /\ log[i].body.kind \in Folds
      BY <2>3 DEF Ours, P
    <3>2. ASSUME NEW i \in Q, log'[i].body.kind \in Folds PROVE log'[i].rev \in Ours'
      BY <2>6, <3>2 DEF Ours
    <3> QED
      BY <2>8, <3>1, <3>2
  <2>11. \A r \in Ours' : r < n => r \in Ours
    <3>1. ASSUME NEW r \in Ours' PROVE \E i \in Q : log'[i].rev = r /\ log'[i].body.kind \in Folds
      BY <2>6 DEF Ours
    <3>2. ASSUME NEW i \in P, log[i].body.kind \in Folds PROVE log[i].rev \in Ours
      BY <2>3, <3>2 DEF Ours, P
    <3>3. ASSUME NEW i \in Q, log'[i].rev < n PROVE i \in P
      BY <2>4, <2>5, <2>9, <3>3
    <3> QED
      BY <2>8, <3>1, <3>2, <3>3
  <2>13. Ours' \in SUBSET (0 .. m - 1)
    BY <2>5, <2>6 DEF Ours
  <2>12. ASSUME NEW r, NEW u \in 0 .. n PROVE Between(r, u)' = Between(r, u)
    <3>1. \A i : i \in Between(r, u) <=> i \in P /\ log[i].rev \in r .. u - 1
      BY <2>3 DEF Between, P
    <3>2. \A i : i \in Between(r, u)' <=> i \in Q /\ log'[i].rev \in r .. u - 1
      BY <2>6 DEF Between
    <3>3. ASSUME NEW i \in Q, log'[i].rev \in r .. u - 1 PROVE i \in P
      <4>1. log'[i].rev \in Nat /\ log'[i].rev < n
        BY <2>4, <2>5, <2>12, <3>3
      <4> QED
        BY <2>4, <2>9, <4>1
    <3>4. \A i : i \in Between(r, u)' <=> i \in Between(r, u)
      BY <2>8, <3>1, <3>2, <3>3
    <3> QED
      BY <3>4 DEF Between
  <2> QED
    BY <2>4, <2>7, <2>10, <2>11, <2>12, <2>13 DEF Onward
<1> QED
  BY <1>2, <1>3

LEMMA TodoFrom ==
    ASSUME NEW n \in Nat, NEW O \in SUBSET (0 .. n - 1), NEW S \in SUBSET O
    PROVE  Ascending(S) \in Seq(Nat) /\ \A i \in DOMAIN Ascending(S) : Ascending(S)[i] \in O
<1>1. S \in SUBSET (0 .. n - 1)
  OBVIOUS
<1>2. Ascending(S) \in Seq(S) /\ DOMAIN Ascending(S) = 1 .. Cardinality(S)
      /\ Len(Ascending(S)) = Cardinality(S)
  BY <1>1, AscendingSeq
<1>3. S \in SUBSET Nat
  BY <1>1
<1>4. Ascending(S) \in Seq(Nat)
  BY <1>2, <1>3, SeqMonotonic
<1>5. \A i \in 1 .. Len(Ascending(S)) : Ascending(S)[i] \in S
  BY <1>2, ElementOfSeq
<1> QED
  BY <1>2, <1>4, <1>5

\* The folds of a batch that landed in the stream.
LEMMA LandedTodo ==
    ASSUME LogOK, NEW c, NEW try, NEW from, NEW to, NEW basis,
           Adds(c, try, from, to, basis, Home), Onward,
           NEW todo, todo = LET batch == BatchOf(c, try, from, to, basis)
                            IN  ToFold(batch, Log!RevisionOf(log', batch))
    PROVE  TodoOK(todo)'
<1> DEFINE batch == BatchOf(c, try, from, to, basis)
<1>1. /\ from \in Nat \ {0} /\ to \in Nat /\ from <= to
  BY DEF Adds
<1>2. PICK a \in Nat, b \in Nat, m \in Nat \ {0}, n \in Nat :
        /\ a = Len(log) /\ b = Len(log') /\ m = to - from + 1 /\ b = a + m
        /\ n = Log!NextRev(log, Home) /\ DOMAIN log' = 1 .. b /\ DOMAIN log = 1 .. a
  <2>1. PICK m \in Nat \ {0} : m = to - from + 1
    BY <1>1
  <2>2. PICK a \in Nat : a = Len(log) /\ DOMAIN log = 1 .. a
    BY AddsRows
  <2>3. a + m = Len(log') /\ a + m \in Nat /\ DOMAIN log' = 1 .. a + m
    BY <2>1, <2>2, AddsRows
  <2>4. PICK n \in Nat : n = Log!NextRev(log, Home)
    BY LogShape DEF LogOK
  <2> QED
    BY <2>1, <2>2, <2>3, <2>4
<1>3. /\ IsBatch(batch, m)
      /\ \A k \in from .. to : batch[k - from + 1] = Event(c, try, k, basis)
  <2>1. IsBatch(batch, to - from + 1)
    BY <1>1, BatchIs
  <2>2. \A k \in from .. to : batch[k - from + 1] = Event(c, try, k, basis)
    BY <1>1, BatchIs
  <2> HIDE DEF batch
  <2> QED
    BY <1>2, <2>1, <2>2
<1>4. Len(batch) = m /\ DOMAIN batch = 1 .. m
  BY <1>3 DEF IsBatch
<1> HIDE DEF batch
<1>5. \A k \in from .. to : \E p \in a + 1 .. b : NewAt(p, c, try, k, basis, Home, from)
  BY <1>2, AddsRows
<1>6. ASSUME NEW i \in 1 .. m
      PROVE  /\ a + i \in 1 .. b /\ log'[a + i].stream = Home
             /\ log'[a + i].rev = n + i - 1 /\ log'[a + i].id = batch[i].id
             /\ log'[a + i].body.kind = batch[i].body.kind
  <2>1. PICK k \in from .. to : k = i + from - 1 /\ i = k - from + 1
    <3>1. i + from - 1 \in from .. to /\ i = (i + from - 1) - from + 1
      BY <1>1, <1>2
    <3> QED
      BY <3>1
  <2>2. a + i \in 1 .. b
    BY <1>2
  <2>3. log'[a + i] = RowFor(c, try, k, basis, Home, from)
    BY <1>2, <1>5, <2>1 DEF NewAt
  <2>4. batch[i] = Event(c, try, k, basis)
    BY <1>3, <2>1
  <2>5. n + k - from = n + i - 1
    BY <1>1, <1>2, <2>1
  <2> QED
    BY <1>2, <2>2, <2>3, <2>4, <2>5 DEF RowFor, Event
<1>7. Log!RevisionOf(log', batch) = n + m - 1
  <2>1. m \in 1 .. m /\ a + m = b
    BY <1>2
  <2> DEFINE id == batch[Len(batch)].id
             rows == {log'[i] : i \in DOMAIN log'}
  <2>2. b \in 1 .. b /\ log'[b].id = id /\ log'[b].rev = n + m - 1
    BY <1>4, <1>6, <2>1
  <2>3. ASSUME NEW i \in 1 .. b, log'[i].id = id PROVE i = b
    <3>1. Log!NextBatch(log, log', Home)
      BY AddsRows
    <3>2. b \in a + 1 .. b
      BY <1>2
    <3>3. i \notin 1 .. a
      <4>1. log'[b].id \notin Log!IdsOf(log)
        BY <1>2, <3>1, <3>2 DEF Log!NextBatch, Log!Fresh
      <4>2. i \in 1 .. a => log'[i] = log[i]
        BY <1>2, AddsRows
      <4> QED
        BY <1>2, <2>2, <2>3, <4>1, <4>2 DEF Log!IdsOf
    <3>4. i \in a + 1 .. b
      BY <1>2, <3>3
    <3> QED
      BY <1>2, <2>2, <2>3, <3>1, <3>2, <3>4 DEF Log!NextBatch, Log!Fresh
  <2> HIDE DEF id
  <2>4. ASSUME NEW row \in rows, row.id = id PROVE row = log'[b]
    BY <1>2, <2>3, <2>4
  <2>5. log'[b] \in rows
    BY <1>2, <2>2
  <2>6. (CHOOSE row \in rows : row.id = id) = log'[b]
    BY <2>2, <2>4, <2>5
  <2>7. Log!Row(log', id) = log'[b]
    BY <2>6 DEF Log!Row
  <2> QED
    BY <2>2, <2>7 DEF Log!RevisionOf, id
<1> DEFINE S == {(n + m - 1) - (m - i) : i \in {j \in 1 .. m : batch[j].body.kind \in Folds}}
<1>8. todo = Ascending(S)
  BY <1>4, <1>7 DEF ToFold, batch
<1>9. S \in SUBSET Ours'
  <2>1. ASSUME NEW i \in 1 .. m, batch[i].body.kind \in Folds
        PROVE  (n + m - 1) - (m - i) \in Ours'
    <3>1. (n + m - 1) - (m - i) = n + i - 1 /\ n + i - 1 >= 0
      BY <1>2
    <3>2. /\ a + i \in DOMAIN log' /\ log'[a + i].stream = Home
          /\ log'[a + i].rev = n + i - 1 /\ log'[a + i].body.kind \in Folds
      BY <1>2, <1>6, <2>1
    <3>3. log'[a + i].rev \in Ours'
      BY <3>1, <3>2 DEF Ours, HomeRows, Log!StreamFrom, Log!PositionsOf
    <3> QED
      BY <3>1, <3>2, <3>3
  <2> QED
    BY <2>1
<1> HIDE DEF S
<1>10. HomeLen' \in Nat /\ Ours' \in SUBSET (0 .. HomeLen' - 1)
  BY DEF Onward
<1>11. Ascending(S) \in Seq(Nat) /\ \A i \in DOMAIN Ascending(S) : Ascending(S)[i] \in Ours'
  BY <1>9, <1>10, TodoFrom
<1> QED
  BY <1>8, <1>11 DEF TodoOK

LEMMA CommitTodo ==
    ASSUME WriteInv, NEW c \in Caller, Commit(c), Onward,
           Log!Verdict(log, Home, Expected(c), Decision(c)) = "append"
    PROVE  \E todo : TodoOK(todo)' /\ FoldOn(c, todo, 0)
<1>1. PICK todo : todo = ToFold(Decision(c), Log!RevisionOf(log', Decision(c)))
  OBVIOUS
<1>2. FoldOn(c, todo, 0)
  BY <1>1 DEF Commit
<1>3. Adds(c, task[c].try, 1, Len(Plan[c]), task[c].basis, Home)
  BY CommitAdds
<1>4. todo = LET batch == BatchOf(c, task[c].try, 1, Len(Plan[c]), task[c].basis)
             IN  ToFold(batch, Log!RevisionOf(log', batch))
  BY <1>1 DEF Decision
<1>5. TodoOK(todo)'
  BY <1>3, <1>4, LandedTodo DEF WriteInv
<1> QED
  BY <1>2, <1>5

\* A redelivered fact is folded at the revision it was given.
LEMMA RedeliveredTodo ==
    ASSUME LogOK, NEW c \in Supplied, NEW i \in DOMAIN log, log[i].id = Id(c, 0, 1),
           Plan[c][1].stream = Home, NEW todo,
           todo = LET batch == BatchOf(c, 0, 1, 1, 0)
                  IN  ToFold(batch, Log!RevisionOf(log, batch))
    PROVE  TodoOK(todo)
<1> DEFINE batch == BatchOf(c, 0, 1, 1, 0)
<1>1. /\ IsBatch(batch, 1)
      /\ batch[1] = Event(c, 0, 1, 0)
  <2>1. IsBatch(batch, 1 - 1 + 1) /\ \A n \in 1 .. 1 : batch[n - 1 + 1] = Event(c, 0, n, 0)
    BY BatchIs
  <2> HIDE DEF batch
  <2> QED
    BY <2>1
<1>2. Len(batch) = 1 /\ DOMAIN batch = 1 .. 1
  BY <1>1 DEF IsBatch
<1>3. batch[1].id = <<c, 0, 0, 1>> /\ batch[1].body.kind = Plan[c][1].kind
  BY <1>1 DEF Event, Id
<1> HIDE DEF batch
<1>4. ASSUME NEW j \in DOMAIN log, log[j].id = <<c, 0, 0, 1>>
      PROVE  log[j].stream = Home /\ log[j].body.kind = Plan[c][1].kind
  <2> DEFINE d == log[j].body.of
             n == log[j].body.nth
  <2>1. RowOK(log[j]) /\ IdOK(log[j])
    BY DEF LogOK, RowOK
  <2>2. log[j].id[1] = d /\ log[j].id[4] = n
    <3>1. CASE d \in Supplied
      BY <2>1, <3>1 DEF IdOK
    <3>2. CASE d \notin Supplied
      <4>1. log[j].id = <<d, log[j].id[2], log[j].id[3], n>>
        BY <2>1, <3>2 DEF IdOK
      <4> HIDE DEF d, n
      <4>2. PICK x, y : log[j].id = <<d, x, y, n>>
        BY <4>1
      <4> QED
        BY <4>2
    <3> QED
      BY <3>1, <3>2
  <2>3. d = c /\ n = 1
    BY <1>4, <2>2
  <2> QED
    BY <2>1, <2>3 DEF RowOK
<1> DEFINE rows == {log[j] : j \in DOMAIN log}
<1>5. PICK j \in DOMAIN log : /\ log[j].id = <<c, 0, 0, 1>>
                              /\ Log!RevisionOf(log, batch) = log[j].rev
  <2>1. \E row \in rows : row.id = <<c, 0, 0, 1>>
    BY DEF Id
  <2>2. (CHOOSE row \in rows : row.id = <<c, 0, 0, 1>>) \in rows
        /\ (CHOOSE row \in rows : row.id = <<c, 0, 0, 1>>).id = <<c, 0, 0, 1>>
    BY <2>1
  <2>3. Log!RevisionOf(log, batch) = (CHOOSE row \in rows : row.id = <<c, 0, 0, 1>>).rev
    BY <1>2, <1>3 DEF Log!RevisionOf, Log!Row
  <2> QED
    BY <2>2, <2>3
<1> DEFINE S == {log[j].rev - (1 - k) : k \in {l \in 1 .. 1 : batch[l].body.kind \in Folds}}
<1>6. todo = Ascending(S)
  BY <1>2, <1>5 DEF ToFold, batch
<1>7. HomeLen \in Nat /\ Ours \in SUBSET (0 .. HomeLen - 1)
      /\ \A k \in HomeRows(0) : log[k].rev \in 0 .. HomeLen - 1
  BY HomeShape
<1>8. S \in SUBSET Ours
  <2>1. ASSUME Plan[c][1].kind \in Folds PROVE log[j].rev \in Ours /\ log[j].rev - (1 - 1) \in Ours
    <3>1. log[j].stream = Home /\ log[j].body.kind \in Folds
      BY <1>4, <1>5, <2>1
    <3>2. log[j].rev \in Nat
      BY <3>1 DEF LogOK, Shaped, Log!PositionsOf
    <3>3. j \in HomeRows(0)
      BY <3>1, <3>2 DEF HomeRows, Log!StreamFrom, Log!PositionsOf
    <3>4. log[j].rev \in Ours
      BY <3>1, <3>3 DEF Ours
    <3> QED
      BY <3>2, <3>4
  <2>2. \A k \in 1 .. 1 : k = 1
    OBVIOUS
  <2> QED
    BY <1>3, <2>1, <2>2
<1> HIDE DEF S
<1>9. Ascending(S) \in Seq(Nat) /\ \A k \in DOMAIN Ascending(S) : Ascending(S)[k] \in Ours
  BY <1>7, <1>8, TodoFrom
<1> QED
  BY <1>6, <1>9 DEF TodoOK

LEMMA RunTodo ==
    ASSUME WriteInv, NEW c \in Caller, AppendRun(c), Onward
    PROVE  \E todo, next : TodoOK(todo)' /\ FoldOn(c, todo, next)
<1>0. PICK from, to : from = task[c].next /\ to = RunEnd(c, from)
  OBVIOUS
<1>1. PICK todo : todo = ToFold(RunBatch(c), Log!RevisionOf(log', RunBatch(c)))
  OBVIOUS
<1>2. FoldOn(c, IF RunStream(c) = Home THEN todo ELSE <<>>, to + 1)
  <2>1. log' = Log!AppendTo(log, RunStream(c), Log!AnyState, RunBatch(c))
    BY DEF AppendRun
  <2> QED
    BY <1>0, <1>1, <2>1 DEF AppendRun
<1>3. CASE RunStream(c) # Home
  <2>1. TodoOK(<<>>)'
    BY DEF TodoOK
  <2> QED
    BY <1>2, <1>3, <2>1
<1>4. CASE RunStream(c) = Home
  <2>1. todo = LET batch == BatchOf(c, 0, from, to, 0)
               IN  ToFold(batch, Log!RevisionOf(log', batch))
    BY <1>0, <1>1 DEF RunBatch
  <2>2. CASE Log!Verdict(log, RunStream(c), Log!AnyState, RunBatch(c)) = "append"
    <3>1. Adds(c, 0, from, to, 0, Home)
      BY <1>0, <1>4, <2>2, RunAdds
    <3>2. TodoOK(todo)'
      BY <2>1, <3>1, LandedTodo DEF WriteInv
    <3> QED
      BY <1>2, <1>4, <3>2
  <2>3. CASE Log!Verdict(log, RunStream(c), Log!AnyState, RunBatch(c)) # "append"
    <3>1. log' = log
      BY <2>3 DEF AppendRun, Log!AppendTo
    <3>2. /\ LogOK /\ c \in Writer /\ c \in Supplied /\ from \in 1 .. Len(Plan[c])
      BY <1>0, <2>3, RunIsFresh DEF WriteInv, CallsOK, AppendRun, At, CallOK, Writer
    <3>3. Len(Plan[c]) = 1
      BY <3>2, Plans
    <3>4. from = 1 /\ to = 1
      <4>1. from = 1
        BY <3>2, <3>3
      <4>2. to \in 1 .. 1
        BY <1>0, <3>2, <3>3, <4>1, RunEndIs
      <4> QED
        BY <4>1, <4>2
    <3>5. PICK i \in DOMAIN log : log[i].id = Id(c, 0, 1)
      <4>1. ASSUME \A i \in DOMAIN log, n \in 1 .. 1 : log[i].id # Id(c, 0, n) PROVE FALSE
        <5>1. Log!Verdict(log, RunStream(c), Log!AnyState, BatchOf(c, 0, 1, 1, 0)) = "append"
          BY <4>1, FreshIsAppended
        <5> QED
          BY <1>0, <2>3, <3>4, <5>1 DEF RunBatch
      <4>2. \A n \in 1 .. 1 : n = 1
        OBVIOUS
      <4> QED
        BY <4>1, <4>2
    <3>6. Plan[c][1].stream = Home
      BY <1>0, <1>4, <3>4 DEF RunStream
    <3>7. TodoOK(todo)
      BY <2>1, <3>1, <3>2, <3>4, <3>5, <3>6, RedeliveredTodo
    <3>8. TodoOK(todo)'
      BY <3>7 DEF TodoOK, Onward
    <3> QED
      BY <1>2, <1>4, <3>8
  <2> QED
    BY <2>2, <2>3
<1> QED
  BY <1>3, <1>4

-----------------------------------------------------------------------------
(* The versions.                                                             *)

LEMMA HeadTail ==
    ASSUME LogOK, NEW todo, TodoOK(todo), todo # <<>>
    PROVE  /\ Head(todo) \in Ours /\ Head(todo) \in 0 .. HomeLen - 1
           /\ TodoOK(Tail(todo))
<1>1. todo \in Seq(Nat) /\ Len(todo) \in Nat /\ DOMAIN todo = 1 .. Len(todo) /\ Len(todo) # 0
      /\ \A i \in DOMAIN todo : todo[i] \in Ours
  BY EmptySeq, LenProperties DEF TodoOK
<1>2. Head(todo) = todo[1] /\ 1 \in DOMAIN todo
  BY <1>1, HeadTailProperties
<1>3. Head(todo) \in 0 .. HomeLen - 1
  BY <1>1, <1>2, HomeShape
<1>4. /\ Tail(todo) \in Seq(Nat) /\ Len(Tail(todo)) = Len(todo) - 1
      /\ \A i \in 1 .. Len(Tail(todo)) : Tail(todo)[i] = todo[i + 1]
  BY <1>1, HeadTailProperties
<1>5. DOMAIN Tail(todo) = 1 .. Len(todo) - 1
  BY <1>4, LenProperties
<1>6. ASSUME NEW i \in 1 .. Len(todo) - 1 PROVE i + 1 \in 1 .. Len(todo)
  BY <1>1
<1> QED
  BY <1>1, <1>2, <1>3, <1>4, <1>5, <1>6 DEF TodoOK

\* No entry is lost or goes back while the process lives.
RegGoesOn == reg # None => /\ reg' # None /\ reg.version \in Nat /\ reg'.version \in Nat
                           /\ reg.version <= reg'.version

LEMMA TodoGoesOn == ASSUME Onward, NEW todo, TodoOK(todo) PROVE TodoOK(todo)'
  BY DEF Onward, TodoOK

LEMMA FrameKept ==
    ASSUME NEW d, FrameOK(d), task'[d] = task[d], Onward, RegGoesOn
    PROVE  FrameOK(d)'
<1>1. PICK t : t = task[d]
  OBVIOUS
<1>2. HomeLen \in Nat /\ HomeLen' \in Nat /\ HomeLen <= HomeLen'
  BY DEF Onward
<1>3. t.pc \in FoldPcs => TodoOK(t.todo)'
  BY <1>1, TodoGoesOn DEF FrameOK
<1>4. t.pc = "fold" =>
        /\ t.round \in Nat /\ t.todo # <<>>
        /\ t.round = 0 \/ (t.round = 1 /\ reg' # None /\ Head(t.todo) < reg'.version)
  <2>1. t.pc = "fold" => Head(t.todo) \in Nat
    <3>1. t.pc = "fold" => t.todo \in Seq(Nat) /\ t.todo # <<>>
      BY <1>1 DEF FrameOK, FoldPcs, TodoOK
    <3> QED
      BY <3>1, HeadTailProperties
  <2> QED
    BY <1>1, <2>1 DEF FrameOK, RegGoesOn
<1>5. t.pc \in {"restore", "install", "repair", "apply"} =>
        t.round \in Nat /\ (d \in Writer => t.round = 1 /\ t.todo # <<>>)
  BY <1>1 DEF FrameOK
<1>6. t.pc = "install" =>
        /\ t.entry \in Entry /\ t.entry.version \in 1 .. HomeLen'
        /\ d \in Writer => Head(t.todo) < t.entry.version
  BY <1>1, <1>2 DEF FrameOK
<1>7. t.pc = "repair" => reg' # None /\ t.after \in 0 .. reg'.version
  BY <1>1 DEF FrameOK, RegGoesOn
<1>8. ASSUME t.pc = "apply"
      PROVE  /\ reg' # None
             /\ \E r \in 0 .. reg'.version, u \in 0 .. HomeLen' :
                  t.rows = Between(r, u)' /\ Head(t.todo) < u
  <2>1. PICK r \in 0 .. reg.version, u \in 0 .. HomeLen :
          t.rows = Between(r, u) /\ Head(t.todo) < u /\ reg # None
    BY <1>1, <1>8 DEF FrameOK
  <2>2. r \in 0 .. reg'.version /\ u \in 0 .. HomeLen' /\ Between(r, u)' = Between(r, u)
    BY <1>2, <2>1 DEF RegGoesOn, Onward
  <2> QED
    BY <2>1, <2>2 DEF RegGoesOn
<1>9. /\ t.pc \in {"save", "state", "store"} => d \in Writer /\ reg' # None
      /\ t.pc \in {"state", "store"} => t.version \in 1 .. HomeLen'
      /\ t.pc = "store" => t.state \in Seq(Nat)
  BY <1>1, <1>2 DEF FrameOK, RegGoesOn
<1> QED
  BY <1>1, <1>3, <1>4, <1>5, <1>6, <1>7, <1>8, <1>9 DEF FrameOK

LEMMA RegStays ==
    ASSUME RegOK, reg' = reg, Onward
    PROVE  RegOK' /\ RegGoesOn
  BY DEF RegOK, RegGoesOn, Onward, Entry

LEMMA SnapStays ==
    ASSUME SnapOK, snap' = snap, Onward
    PROVE  SnapOK'
<1>1. snap # None => snap.rev + 1 \in Nat
  BY DEF SnapOK, Snapshot
<1> QED
  BY <1>1 DEF SnapOK, Onward

LEMMA NoFrame ==
    ASSUME NEW c, task'[c].pc \notin FoldPcs
    PROVE  FrameOK(c)'
  BY DEF FrameOK, FoldPcs

LEMMA FoldOnFrame ==
    ASSUME Domains, NEW c \in Caller, NEW todo, NEW next, FoldOn(c, todo, next), TodoOK(todo)'
    PROVE  FrameOK(c)'
<1>1. CASE todo # <<>>
  <2>1. task'[c] = Folding(todo, next)
    BY <1>1, WentOn DEF FoldOn
  <2>2. /\ task'[c].pc = "fold" /\ task'[c].todo = todo /\ task'[c].round = 0
    BY <2>1 DEF Folding, Frame
  <2> QED
    BY <1>1, <2>2 DEF FrameOK, FoldPcs, TodoOK
<1>2. CASE todo = <<>>
  <2>1. Return(c, "ok") \/ GoOn(c, [pc |-> "run", next |-> next])
    BY <1>2 DEF FoldOn
  <2>2. task'[c].pc \in {"idle", "run"}
    <3>1. CASE Return(c, "ok")
      BY <3>1 DEF Return, Idle, Domains
    <3>2. CASE GoOn(c, [pc |-> "run", next |-> next])
      BY <3>2, WentOn
    <3> QED
      BY <2>1, <3>1, <3>2
  <2> QED
    BY <2>2, NoFrame DEF FoldPcs
<1> QED
  BY <1>1, <1>2

LEMMA ReturnFrame ==
    ASSUME Domains, NEW c \in Caller, NEW what, Return(c, what)
    PROVE  FrameOK(c)'
<1>1. task'[c].pc = "idle"
  BY DEF Return, Idle, Domains
<1> QED
  BY <1>1, NoFrame DEF FoldPcs

LEMMA WriteFrame ==
    ASSUME WriteInv, Onward, NEW c \in Caller, Writes(c)
    PROVE  FrameOK(c)'
<1>1. Domains
  BY DEF WriteInv, CallsOK, Domains
<1>2. CASE CommitError(c) \/ RunError(c)
  BY <1>1, <1>2, ReturnFrame DEF CommitError, RunError
<1>3. CASE AppendRun(c)
  BY <1>1, <1>3, RunTodo, FoldOnFrame
<1>4. CASE Commit(c)
  <2>1. CASE Log!Verdict(log, Home, Expected(c), Decision(c)) = "append"
    BY <1>1, <1>4, <2>1, CommitTodo, FoldOnFrame
  <2>2. CASE Log!Verdict(log, Home, Expected(c), Decision(c)) # "append"
    <3>1. Return(c, "conflict") \/ GoOn(c, [pc |-> "load", try |-> task[c].try + 1])
      BY <1>4, <2>2 DEF Commit
    <3>2. CASE GoOn(c, [pc |-> "load", try |-> task[c].try + 1])
      <4>1. task'[c].pc = "load"
        BY <1>1, <3>2, WentOn
      <4> QED
        BY <4>1, NoFrame DEF FoldPcs
    <3> QED
      BY <1>1, <3>1, <3>2, ReturnFrame
  <2> QED
    BY <2>1, <2>2
<1> QED
  BY <1>2, <1>3, <1>4 DEF Writes

LEMMA StartFrame ==
    ASSUME WriteInv, VersionsOK, Onward, NEW c \in Caller, Starts(c)
    PROVE  FrameOK(c)'
<1>1. Domains
  BY DEF WriteInv, CallsOK, Domains
<1>2. CASE Load(c)
  <2>1. Return(c, "ok") \/ \E try : GoOn(c, [pc |-> "commit", try |-> try, basis |-> HomeLen])
    BY <1>2 DEF Load, LoadAndDecide
  <2>2. ASSUME NEW try, GoOn(c, [pc |-> "commit", try |-> try, basis |-> HomeLen])
        PROVE  FrameOK(c)'
    <3>1. task'[c].pc = "commit"
      BY <1>1, <2>2, WentOn
    <3> QED
      BY <3>1, NoFrame DEF FoldPcs
  <2> QED
    BY <1>1, <2>1, <2>2, ReturnFrame
<1>3. CASE Emit(c)
  <2>1. Return(c, "refused") \/ GoOn(c, [pc |-> "run", next |-> 1])
    BY <1>3 DEF Emit
  <2>2. CASE GoOn(c, [pc |-> "run", next |-> 1])
    <3>1. task'[c].pc = "run"
      BY <1>1, <2>2, WentOn
    <3> QED
      BY <3>1, NoFrame DEF FoldPcs
  <2> QED
    BY <1>1, <2>1, <2>2, ReturnFrame
<1>4. CASE StateOf(c)
  <2>1. Return(c, "ok") \/ GoOn(c, Frame("restore", <<>>, 0, 0))
    BY <1>4 DEF StateOf
  <2>2. CASE GoOn(c, Frame("restore", <<>>, 0, 0))
    <3>1. task'[c].pc = "restore" /\ task'[c].todo = <<>> /\ task'[c].round = 0
      BY <1>1, <2>2, WentOn DEF Frame
    <3>2. c \notin Writer
      BY <1>4, CallersDiffer DEF StateOf, Writer
    <3>3. TodoOK(<<>>)'
      BY DEF TodoOK
    <3> QED
      BY <3>1, <3>2, <3>3 DEF FrameOK, FoldPcs
  <2> QED
    BY <1>1, <2>1, <2>2, ReturnFrame
<1> QED
  BY <1>2, <1>3, <1>4 DEF Starts

LEMMA LogSame ==
    ASSUME log' = log
    PROVE  /\ HomeLen' = HomeLen /\ Ours' = Ours
           /\ \A todo : TodoOK(todo) => TodoOK(todo)'
           /\ \A r : HomeRows(r)' = HomeRows(r)
           /\ \A r, u : Between(r, u)' = Between(r, u)
<1>1. HomeLen' = HomeLen /\ Ours' = Ours
  BY DEF HomeLen, Ours, HomeRows, Log!StreamFrom, Log!PositionsOf, Log!NextRev,
         Log!Cardinality
<1>2. \A r : HomeRows(r)' = HomeRows(r)
  BY DEF HomeRows, Log!StreamFrom, Log!PositionsOf
<1>3. \A r, u : Between(r, u)' = Between(r, u)
  BY DEF Between, HomeRows, Log!StreamFrom, Log!PositionsOf
<1>4. \A todo : TodoOK(todo) => TodoOK(todo)'
  BY <1>1 DEF TodoOK
<1> QED
  BY <1>1, <1>2, <1>3, <1>4

\* What a step of c does to the entry, the snapshot and its own frame.
Sound(c) == RegOK' /\ RegGoesOn /\ SnapOK' /\ FrameOK(c)'

LEMMA FoldVersions ==
    ASSUME WriteInv, VersionsOK, Onward, NEW c \in Caller,
           FoldNext(c) \/ FoldSkips(c) \/ FoldGap(c)
    PROVE  Sound(c)
<1>1. PICK t : t = task[c]
  OBVIOUS
<1>2. /\ Domains /\ LogOK /\ t.pc = "fold" /\ FrameOK(c) /\ RegOK /\ SnapOK
      /\ log' = log /\ snap' = snap /\ c \in Writer
  <2>1. t.pc = "fold" /\ FrameOK(c) /\ CallOK(c)
    BY <1>1 DEF FoldNext, FoldSkips, FoldGap, AtFold, At, VersionsOK, WriteInv, CallsOK
  <2>2. c \in Writer
    BY <1>1, <2>1 DEF CallOK, FoldPcs
  <2> QED
    BY <2>1, <2>2 DEF WriteInv, CallsOK, Domains, VersionsOK, FoldNext, FoldSkips, FoldGap
<1>3. TodoOK(t.todo) /\ t.todo # <<>>
      /\ (t.round = 0 \/ (t.round = 1 /\ reg # None /\ Head(t.todo) < reg.version))
  BY <1>1, <1>2 DEF FrameOK, FoldPcs
<1>4. PICK h : /\ h = Head(t.todo) /\ h \in Ours /\ h \in 0 .. HomeLen - 1
               /\ TodoOK(Tail(t.todo))
  BY <1>2, <1>3, HeadTail
<1>5. TodoOK(t.todo)' /\ TodoOK(Tail(t.todo))' /\ HomeLen' = HomeLen /\ HomeLen \in Nat
  <2>1. \A todo : TodoOK(todo) => TodoOK(todo)'
    BY <1>2, LogSame
  <2> QED
    BY <1>2, <1>3, <1>4, <2>1, LogSame, HomeShape
<1>6. SnapOK'
  BY <1>2, SnapStays
<1>7. reg # None => reg \in Entry /\ reg.version \in Nat /\ reg.version \in 1 .. HomeLen
  BY <1>2 DEF RegOK, Entry
<1>8. CASE FoldNext(c)
  <2>1. h = Version
    BY <1>1, <1>4, <1>8 DEF FoldNext, Rev
  <2>2. reg' \in Entry /\ reg'.version = h + 1
    <3>1. CASE reg = None
      <4>1. reg' = [state |-> <<0>>, version |-> 1, snapAt |-> 0] /\ h = 0
        BY <1>8, <2>1, <3>1 DEF FoldNext, Version
      <4>2. <<0>> \in Seq(Nat)
        OBVIOUS
      <4> QED
        BY <4>1, <4>2 DEF Entry
    <3>2. CASE reg # None
      <4>1. reg' = [reg EXCEPT !.state = Append(@, reg.version), !.version = @ + 1]
            /\ h = reg.version
        BY <1>8, <2>1, <3>2 DEF FoldNext, Version
      <4>2. Append(reg.state, reg.version) \in Seq(Nat)
        BY <1>7, <3>2, AppendProperties DEF Entry
      <4>3. reg \in [state : Seq(Nat), version : Nat, snapAt : Nat] /\ h + 1 \in Nat
        BY <1>4, <1>7, <3>2 DEF Entry
      <4> DEFINE new == Append(reg.state, reg.version)
      <4>4. reg' = [reg EXCEPT !.state = new, !.version = h + 1]
        BY <4>1
      <4> HIDE DEF new
      <4>5. reg' = [state |-> new, version |-> h + 1, snapAt |-> reg.snapAt]
        BY <4>3, <4>4
      <4> QED
        BY <4>2, <4>3, <4>5 DEF Entry, new
    <3> QED
      BY <3>1, <3>2
  <2>3. RegOK' /\ RegGoesOn /\ reg' # None
    <3>1. reg' # None /\ reg'.version \in 1 .. HomeLen'
      BY <1>4, <1>5, <2>2, NoneDiffers
    <3>2. reg # None => reg.version = h
      BY <2>1 DEF Version
    <3> QED
      BY <1>4, <1>5, <1>7, <2>2, <3>1, <3>2 DEF RegOK, RegGoesOn
  <2>4. CASE GoOn(c, Frame("save", Tail(task[c].todo), task[c].next, 0))
    <3>1. task'[c].pc = "save" /\ task'[c].todo = Tail(t.todo)
      <4>1. task'[c] = Frame("save", Tail(t.todo), t.next, 0)
        BY <1>1, <1>2, <2>4, WentOn
      <4> QED
        BY <4>1 DEF Frame
    <3>2. FrameOK(c)'
      BY <1>2, <1>5, <2>3, <3>1 DEF FrameOK, FoldPcs
    <3> QED
      BY <1>6, <2>3, <3>2 DEF Sound
  <2>5. CASE FoldOn(c, Tail(task[c].todo), task[c].next)
    <3>1. FrameOK(c)'
      BY <1>1, <1>2, <1>5, <2>5, FoldOnFrame
    <3> QED
      BY <1>6, <2>3, <3>1 DEF Sound
  <2> QED
    BY <1>8, <2>4, <2>5 DEF FoldNext
<1>9. CASE FoldSkips(c)
  <2>1. FrameOK(c)'
    BY <1>1, <1>2, <1>5, <1>9, FoldOnFrame DEF FoldSkips
  <2>2. RegOK' /\ RegGoesOn
    BY <1>2, <1>9, RegStays DEF FoldSkips
  <2> QED
    BY <1>6, <2>1, <2>2 DEF Sound
<1>10. CASE FoldGap(c)
  <2>1. h > Version /\ reg' = reg
    BY <1>1, <1>4, <1>10 DEF FoldGap, Rev
  <2>2. RegOK' /\ RegGoesOn
    BY <1>2, <2>1, RegStays
  <2>3. t.round = 0
    BY <1>3, <1>4, <1>7, <2>1 DEF Version
  <2>4. CASE reg = None
    <3>1. task'[c] = Frame("restore", t.todo, t.next, t.round + 1)
      BY <1>1, <1>2, <1>10, <2>4 DEF FoldGap, Domains
    <3>2. task'[c].pc = "restore" /\ task'[c].todo = t.todo /\ task'[c].round = 1
      BY <2>3, <3>1 DEF Frame
    <3>3. FrameOK(c)'
      BY <1>3, <1>5, <3>2 DEF FrameOK, FoldPcs
    <3> QED
      BY <1>6, <2>2, <3>3 DEF Sound
  <2>5. CASE reg # None
    <3>1. task'[c] = [pc |-> "repair", todo |-> t.todo, next |-> t.next,
                      round |-> t.round + 1, after |-> Version]
      BY <1>1, <1>2, <1>10, <2>5 DEF FoldGap, Domains
    <3>2. /\ task'[c].pc = "repair" /\ task'[c].todo = t.todo /\ task'[c].round = 1
          /\ task'[c].after = reg.version
      BY <2>3, <2>5, <3>1 DEF Version
    <3>3. reg' # None /\ task'[c].after \in 0 .. reg'.version
      BY <1>7, <2>1, <2>5, <3>2
    <3>4. FrameOK(c)'
      BY <1>3, <1>5, <3>2, <3>3 DEF FrameOK, FoldPcs
    <3> QED
      BY <1>6, <2>2, <3>4 DEF Sound
  <2> QED
    BY <2>4, <2>5
<1> QED
  BY <1>8, <1>9, <1>10

\* What a reader of the stream past a revision finds.
LEMMA HomeFrom ==
    ASSUME LogOK, NEW r \in Nat
    PROVE  /\ \A i : i \in HomeRows(r) <=> i \in HomeRows(0) /\ log[i].rev >= r
           /\ HomeRows(r) = {} <=> r >= HomeLen
           /\ Folded(HomeRows(r)) = Ascending({x \in Ours : x >= r})
           /\ Folded(HomeRows(r)) \in Seq(Nat)
<1>1. /\ HomeLen \in Nat
      /\ \A i \in HomeRows(0) : log[i].rev \in 0 .. HomeLen - 1
      /\ \A x \in 0 .. HomeLen - 1 : \E i \in HomeRows(0) : log[i].rev = x
      /\ Ours \in SUBSET (0 .. HomeLen - 1)
  BY HomeShape
<1>2. \A i : i \in HomeRows(r) <=> i \in HomeRows(0) /\ log[i].rev >= r
  <2>1. \A i \in Log!PositionsOf(log, Home) : log[i].rev \in Nat
    <3>1. \A i \in Log!PositionsOf(log, Home) : log[i].rev \in 0 .. HomeLen - 1
      BY DEF LogOK, Shaped, HomeLen
    <3> QED
      BY <1>1, <3>1
  <2> QED
    BY <2>1 DEF HomeRows, Log!StreamFrom
<1>3. HomeRows(r) = {} <=> r >= HomeLen
  <2>1. ASSUME r < HomeLen PROVE HomeRows(r) # {}
    <3>1. r \in 0 .. HomeLen - 1
      BY <1>1, <2>1
    <3>2. PICK i \in HomeRows(0) : log[i].rev = r
      BY <1>1, <3>1
    <3> QED
      BY <1>2, <3>2
  <2>2. ASSUME r >= HomeLen, NEW i \in HomeRows(r) PROVE FALSE
    <3>1. log[i].rev \in 0 .. HomeLen - 1 /\ log[i].rev >= r
      BY <1>1, <1>2
    <3> QED
      BY <1>1, <2>2, <3>1
  <2> QED
    BY <1>1, <2>1, <2>2
<1> DEFINE S == {x \in Ours : x >= r}
           R == {log[i].rev : i \in {j \in HomeRows(r) : log[j].body.kind \in Folds}}
<1>4. R = S
  <2>1. ASSUME NEW x \in R PROVE x \in S
    BY <1>2 DEF Ours
  <2>2. ASSUME NEW x \in S PROVE x \in R
    <3>1. PICK i \in HomeRows(0) : log[i].rev = x /\ log[i].body.kind \in Folds
      BY DEF Ours
    <3> QED
      BY <1>2, <3>1
  <2> QED
    BY <2>1, <2>2
<1>5. Folded(HomeRows(r)) = Ascending(S)
  BY <1>4 DEF Folded
<1>6. S \in SUBSET Ours
  OBVIOUS
<1> HIDE DEF S
<1>7. Ascending(S) \in Seq(Nat)
  BY <1>1, <1>6, TodoFrom
<1> QED
  BY <1>2, <1>3, <1>5, <1>7 DEF S

LEMMA RestoreReadVersions ==
    ASSUME WriteInv, VersionsOK, Onward, NEW c \in Caller, RestoreRead(c)
    PROVE  Sound(c)
<1>1. PICK t : t = task[c]
  OBVIOUS
<1>2. /\ Domains /\ LogOK /\ t.pc = "restore" /\ FrameOK(c) /\ RegOK /\ SnapOK
      /\ log' = log /\ reg' = reg
  BY <1>1 DEF WriteInv, CallsOK, Domains, VersionsOK, RestoreRead, At
<1>3. TodoOK(t.todo) /\ t.round \in Nat /\ (c \in Writer => t.round = 1 /\ t.todo # <<>>)
  BY <1>1, <1>2 DEF FrameOK, FoldPcs
<1>4. /\ HomeLen \in Nat /\ HomeLen' = HomeLen /\ TodoOK(t.todo)'
  <2>1. \A todo : TodoOK(todo) => TodoOK(todo)'
    BY <1>2, LogSame
  <2> QED
    BY <1>2, <1>3, <2>1, LogSame, HomeShape
<1>5. RegOK' /\ RegGoesOn
  BY <1>2, RegStays
<1>6. snap' = (IF Usable THEN snap ELSE None) /\ SnapOK'
  <2>1. snap' = (IF Usable THEN snap ELSE None)
    BY DEF RestoreRead
  <2>2. snap' = None => SnapOK'
    BY DEF SnapOK
  <2>3. snap' = snap => SnapOK'
    BY <1>2, SnapStays
  <2> QED
    BY <2>1, <2>2, <2>3
<1>7. c \in Writer => Head(t.todo) < HomeLen /\ 1 <= HomeLen
  <2>1. c \in Writer => Head(t.todo) \in 0 .. HomeLen - 1
    BY <1>2, <1>3, HeadTail
  <2> QED
    BY <1>4, <2>1
<1> DEFINE rows == HomeRows(Seed.from)
<1>8. Seed.state \in Seq(Nat) /\ Seed.from \in Nat /\ Seed.from <= HomeLen
      /\ (Usable => Seed.from >= 1) /\ (~Usable => Seed.from = 0)
  <2>1. CASE Usable
    <3>1. snap \in [rev : Nat, state : Seq(Nat), readable : BOOLEAN]
          /\ snap.rev + 1 \in 1 .. HomeLen
      BY <1>2, <2>1 DEF Usable, SnapOK, Snapshot
    <3>2. Seed = [state |-> snap.state, from |-> snap.rev + 1]
      BY <2>1 DEF Seed
    <3> QED
      BY <1>4, <2>1, <3>1, <3>2
  <2>2. CASE ~Usable
    <3>1. Seed = [state |-> <<>>, from |-> 0]
      BY <2>2 DEF Seed
    <3>2. <<>> \in Seq(Nat)
      OBVIOUS
    <3> QED
      BY <1>4, <2>2, <3>1, <3>2
  <2> QED
    BY <2>1, <2>2
<1>9. /\ rows = {} <=> Seed.from >= HomeLen
      /\ Folded(rows) \in Seq(Nat)
  BY <1>2, <1>8, HomeFrom
<1>10. CASE ~Usable /\ rows = {}
  <2>1. c \in Reader
    BY <1>4, <1>7, <1>8, <1>9, <1>10 DEF Writer, Caller
  <2>2. Return(c, "ok")
    BY <1>10, <2>1 DEF RestoreRead, Resume
  <2>3. FrameOK(c)'
    BY <1>2, <2>2, ReturnFrame
  <2> QED
    BY <1>5, <1>6, <2>3 DEF Sound
<1>11. CASE ~(~Usable /\ rows = {})
  <2> DEFINE e == [state   |-> Seed.state \o Folded(rows),
                   version |-> IF rows = {} THEN Seed.from ELSE HomeLen,
                   snapAt  |-> IF snap = None THEN 0 ELSE snap.rev + 1]
  <2>1. task' = [task EXCEPT ![c] = [pc |-> "install", todo |-> @.todo, next |-> @.next,
                                     round |-> @.round, entry |-> e]]
    BY <1>11 DEF RestoreRead
  <2>2. /\ (IF rows = {} THEN Seed.from ELSE HomeLen) = HomeLen /\ 1 <= HomeLen
    BY <1>4, <1>8, <1>9, <1>11
  <2>3. Seed.state \o Folded(rows) \in Seq(Nat)
    BY <1>8, <1>9, ConcatProperties
  <2>4. (IF snap = None THEN 0 ELSE snap.rev + 1) \in Nat
    BY <1>2 DEF SnapOK, Snapshot
  <2>5. e \in Entry /\ e.version = HomeLen
    BY <1>4, <2>2, <2>3, <2>4 DEF Entry
  <2> HIDE DEF e
  <2>6. task'[c] = [pc |-> "install", todo |-> t.todo, next |-> t.next,
                    round |-> t.round, entry |-> e]
    BY <1>1, <1>2, <2>1 DEF Domains
  <2>7. /\ task'[c].pc = "install" /\ task'[c].todo = t.todo /\ task'[c].round = t.round
        /\ task'[c].entry = e
    BY <2>6
  <2>8. e.version \in 1 .. HomeLen' /\ (c \in Writer => Head(t.todo) < e.version)
    BY <1>4, <1>7, <2>2, <2>5
  <2>9. FrameOK(c)'
    BY <1>3, <1>4, <2>5, <2>7, <2>8 DEF FrameOK, FoldPcs
  <2> QED
    BY <1>5, <1>6, <2>9 DEF Sound
<1> QED
  BY <1>10, <1>11

\* The caller goes on with a fold whose gap is closed.
LEMMA ResumedFrame ==
    ASSUME Domains, NEW c \in Caller, Resume(c), NEW t, t = task[c], TodoOK(t.todo)',
           c \in Writer => /\ t.round = 1 /\ t.todo # <<>> /\ reg' # None
                           /\ Head(t.todo) < reg'.version
    PROVE  FrameOK(c)'
<1>1. CASE c \in Reader
  BY <1>1, ReturnFrame DEF Resume
<1>2. CASE c \notin Reader
  <2>2. task'[c] = Frame("fold", t.todo, t.next, t.round) /\ c \in Writer
    BY <1>2 DEF Resume, Domains, Writer, Caller
  <2>3. task'[c].pc = "fold" /\ task'[c].todo = t.todo /\ task'[c].round = t.round
    BY <2>2 DEF Frame
  <2>4. t.round = 1 /\ t.todo # <<>> /\ reg' # None /\ Head(t.todo) < reg'.version
    BY <2>2
  <2> QED
    BY <2>3, <2>4 DEF FrameOK, FoldPcs
<1> QED
  BY <1>1, <1>2

LEMMA InstallVersions ==
    ASSUME WriteInv, VersionsOK, Onward, NEW c \in Caller, RestoreInstall(c)
    PROVE  Sound(c)
<1>1. PICK t : t = task[c]
  OBVIOUS
<1>2. /\ Domains /\ LogOK /\ t.pc = "install" /\ FrameOK(c) /\ RegOK /\ SnapOK
      /\ log' = log /\ snap' = snap
  BY <1>1 DEF WriteInv, CallsOK, Domains, VersionsOK, RestoreInstall, At
<1>3. /\ TodoOK(t.todo) /\ (c \in Writer => t.round = 1 /\ t.todo # <<>>)
      /\ t.entry \in Entry /\ t.entry.version \in 1 .. HomeLen
      /\ (c \in Writer => Head(t.todo) < t.entry.version)
  BY <1>1, <1>2 DEF FrameOK, FoldPcs
<1>4. /\ HomeLen \in Nat /\ HomeLen' = HomeLen /\ TodoOK(t.todo)'
  <2>1. \A todo : TodoOK(todo) => TodoOK(todo)'
    BY <1>2, LogSame
  <2> QED
    BY <1>2, <1>3, <2>1, LogSame, HomeShape
<1>5. reg # None => reg \in Entry /\ reg.version \in Nat /\ reg.version \in 1 .. HomeLen
  BY <1>2 DEF RegOK, Entry
<1>6. /\ reg' \in Entry /\ reg'.version \in 1 .. HomeLen /\ t.entry.version <= reg'.version
      /\ (reg # None => reg.version <= reg'.version)
  <2>1. reg' = (IF reg = None \/ t.entry.version > reg.version THEN t.entry ELSE reg)
    BY <1>1 DEF RestoreInstall, SetState
  <2>2. t.entry.version \in Nat
    BY <1>3 DEF Entry
  <2>3. CASE reg = None \/ t.entry.version > reg.version
    BY <1>3, <1>5, <2>1, <2>2, <2>3
  <2>4. CASE ~(reg = None \/ t.entry.version > reg.version)
    BY <1>3, <1>5, <2>1, <2>2, <2>4
  <2> QED
    BY <2>3, <2>4
<1>7. reg' # None /\ reg'.version \in Nat
  BY <1>4, <1>6, NoneDiffers
<1>8. RegOK' /\ RegGoesOn
  BY <1>4, <1>5, <1>6, <1>7 DEF RegOK, RegGoesOn
<1>9. c \in Writer => Head(t.todo) < reg'.version
  <2>1. c \in Writer => Head(t.todo) \in Nat
    <3>1. c \in Writer => Head(t.todo) \in 0 .. HomeLen - 1
      BY <1>2, <1>3, HeadTail
    <3> QED
      BY <1>4, <3>1
  <2>2. t.entry.version \in Nat
    BY <1>3 DEF Entry
  <2> QED
    BY <1>3, <1>6, <1>7, <2>1, <2>2
<1>10. FrameOK(c)'
  BY <1>1, <1>2, <1>3, <1>4, <1>7, <1>9, ResumedFrame DEF RestoreInstall
<1>11. SnapOK'
  BY <1>2, SnapStays
<1> QED
  BY <1>8, <1>10, <1>11 DEF Sound

LEMMA RepairReadVersions ==
    ASSUME WriteInv, VersionsOK, Onward, NEW c \in Caller, RepairRead(c)
    PROVE  Sound(c)
<1>1. PICK t : t = task[c]
  OBVIOUS
<1>2. /\ Domains /\ LogOK /\ t.pc = "repair" /\ FrameOK(c) /\ RegOK /\ SnapOK
      /\ log' = log /\ snap' = snap /\ reg' = reg /\ c \in Writer
  <2>1. t.pc = "repair" /\ CallOK(c)
    BY <1>1 DEF WriteInv, CallsOK, RepairRead, At
  <2>2. c \in Writer
    BY <1>1, <2>1 DEF CallOK, FoldPcs
  <2> QED
    BY <2>1, <2>2 DEF WriteInv, CallsOK, Domains, VersionsOK, RepairRead
<1>3. /\ TodoOK(t.todo) /\ t.round = 1 /\ t.todo # <<>>
      /\ reg # None /\ t.after \in 0 .. reg.version
  BY <1>1, <1>2 DEF FrameOK, FoldPcs
<1>4. /\ HomeLen \in Nat /\ HomeLen' = HomeLen /\ TodoOK(t.todo)'
      /\ Head(t.todo) \in 0 .. HomeLen - 1
  <2>1. \A todo : TodoOK(todo) => TodoOK(todo)'
    BY <1>2, LogSame
  <2> QED
    BY <1>2, <1>3, <2>1, LogSame, HomeShape, HeadTail
<1>5. t.after \in Nat /\ reg.version \in Nat
  <2>1. reg.version \in Nat
    BY <1>2, <1>3 DEF RegOK, Entry
  <2> QED
    BY <1>3, <2>1
<1>6. HomeRows(t.after) = Between(t.after, HomeLen)
  <2>1. ASSUME NEW i \in HomeRows(0)
        PROVE  log[i].rev >= t.after <=> log[i].rev \in t.after .. HomeLen - 1
    <3>1. log[i].rev \in 0 .. HomeLen - 1
      BY <1>2, HomeShape
    <3> QED
      BY <1>4, <1>5, <3>1
  <2>2. \A i : i \in HomeRows(t.after) <=> i \in HomeRows(0) /\ log[i].rev >= t.after
    BY <1>2, <1>5, HomeFrom
  <2>3. \A i : i \in HomeRows(t.after) <=> i \in Between(t.after, HomeLen)
    BY <2>1, <2>2 DEF Between
  <2> QED
    BY <2>3 DEF HomeRows, Log!StreamFrom, Between
<1>7. task'[c] = [pc |-> "apply", todo |-> t.todo, next |-> t.next, round |-> t.round,
                  rows |-> HomeRows(t.after)]
  BY <1>1, <1>2 DEF RepairRead, Domains
<1>8. /\ task'[c].pc = "apply" /\ task'[c].todo = t.todo /\ task'[c].round = 1
      /\ task'[c].rows = Between(t.after, HomeLen)'
  <2>1. Between(t.after, HomeLen)' = Between(t.after, HomeLen)
    BY <1>2, LogSame, <1>4 DEF Between
  <2> QED
    BY <1>3, <1>6, <1>7, <2>1
<1>9. \E r \in 0 .. reg'.version, u \in 0 .. HomeLen' :
        task'[c].rows = Between(r, u)' /\ Head(t.todo) < u
  <2>1. PICK n : n = HomeLen
    OBVIOUS
  <2>2. task'[c].rows = Between(t.after, n)'
    BY <1>4, <1>8, <2>1 DEF Between
  <2>3. n \in 0 .. HomeLen' /\ Head(t.todo) < n /\ t.after \in 0 .. reg'.version
    BY <1>2, <1>3, <1>4, <2>1
  <2> QED
    BY <2>2, <2>3
<1>10. FrameOK(c)'
  BY <1>2, <1>3, <1>4, <1>8, <1>9 DEF FrameOK, FoldPcs
<1>11. RegOK' /\ RegGoesOn /\ SnapOK'
  BY <1>2, RegStays, SnapStays
<1> QED
  BY <1>10, <1>11 DEF Sound

\* The rows of a repair are a stretch of the stream; the first of them is its
\* lowest revision.
LEMMA FirstRow ==
    ASSUME LogOK, NEW r \in Nat, NEW u \in 0 .. HomeLen
    PROVE  LET rows == Between(r, u) IN
           /\ rows = {} => u <= r
           /\ rows # {} => /\ r < u /\ FirstOf(rows) \in HomeRows(0)
                           /\ log[FirstOf(rows)].rev = r
                           /\ rows \ {FirstOf(rows)} = Between(r + 1, u)
<1> DEFINE rows == Between(r, u)
<1>1. /\ HomeLen \in Nat
      /\ \A i \in HomeRows(0) : log[i].rev \in 0 .. HomeLen - 1
      /\ \A i, j \in HomeRows(0) : log[i].rev = log[j].rev => i = j
      /\ \A x \in 0 .. HomeLen - 1 : \E i \in HomeRows(0) : log[i].rev = x
  BY HomeShape
<1>2. u \in Nat /\ u <= HomeLen
  BY <1>1
<1>3. \A i : i \in rows <=> i \in HomeRows(0) /\ log[i].rev \in r .. u - 1
  BY DEF Between
<1> HIDE DEF rows
<1>4. ASSUME r < u PROVE \E i \in rows : log[i].rev = r
  <2>1. r \in 0 .. HomeLen - 1 /\ r \in r .. u - 1
    BY <1>1, <1>2, <1>4
  <2> QED
    BY <1>1, <1>3, <2>1
<1>5. ASSUME rows # {}
      PROVE  /\ r < u /\ FirstOf(rows) \in HomeRows(0) /\ log[FirstOf(rows)].rev = r
             /\ rows \ {FirstOf(rows)} = Between(r + 1, u)
  <2>1. r < u
    BY <1>2, <1>3, <1>5
  <2>2. PICK i \in rows : log[i].rev = r
    BY <1>4, <2>1
  <2>3. \A j \in rows : log[i].rev <= log[j].rev
    BY <1>2, <1>3, <2>2
  <2>4. FirstOf(rows) \in rows /\ \A j \in rows : log[FirstOf(rows)].rev <= log[j].rev
    BY <2>3 DEF FirstOf
  <2>5. log[FirstOf(rows)].rev = r /\ FirstOf(rows) \in HomeRows(0)
    <3>1. log[FirstOf(rows)].rev <= r /\ log[FirstOf(rows)].rev \in r .. u - 1
      BY <1>3, <2>2, <2>4
    <3> QED
      BY <1>2, <1>3, <2>4, <3>1
  <2>6. ASSUME NEW j \in HomeRows(0)
        PROVE  log[j].rev \in r + 1 .. u - 1 <=> log[j].rev \in r .. u - 1 /\ j # FirstOf(rows)
    <3>1. j = FirstOf(rows) <=> log[j].rev = r
      BY <1>1, <2>5
    <3>2. log[j].rev \in Nat
      BY <1>1
    <3> QED
      BY <1>2, <3>1, <3>2
  <2>7. \A j : j \in Between(r + 1, u) <=> j \in rows /\ j # FirstOf(rows)
    BY <1>3, <2>6 DEF Between
  <2>8. \A j : j \in Between(r + 1, u) <=> j \in rows \ {FirstOf(rows)}
    BY <2>7
  <2>9. rows \ {FirstOf(rows)} = Between(r + 1, u)
    BY <2>8 DEF Between
  <2> QED
    BY <2>1, <2>5, <2>9
<1>6. rows = {} => u <= r
  BY <1>2, <1>4
<1> QED
  BY <1>5, <1>6 DEF rows

LEMMA RepairRowVersions ==
    ASSUME WriteInv, VersionsOK, Onward, NEW c \in Caller, RepairRow(c)
    PROVE  Sound(c)
<1>1. PICK t : t = task[c]
  OBVIOUS
<1>2. /\ Domains /\ LogOK /\ t.pc = "apply" /\ FrameOK(c) /\ RegOK /\ SnapOK
      /\ log' = log /\ snap' = snap /\ c \in Writer
  <2>1. t.pc = "apply" /\ CallOK(c)
    BY <1>1 DEF WriteInv, CallsOK, RepairRow, At
  <2>2. c \in Writer
    BY <1>1, <2>1 DEF CallOK, FoldPcs
  <2> QED
    BY <2>1, <2>2 DEF WriteInv, CallsOK, Domains, VersionsOK, RepairRow
<1>3. /\ TodoOK(t.todo) /\ t.round = 1 /\ t.todo # <<>> /\ reg # None
  BY <1>1, <1>2 DEF FrameOK, FoldPcs
<1>4. /\ HomeLen \in Nat /\ HomeLen' = HomeLen /\ TodoOK(t.todo)'
      /\ Head(t.todo) \in 0 .. HomeLen - 1
  <2>1. \A todo : TodoOK(todo) => TodoOK(todo)'
    BY <1>2, LogSame
  <2> QED
    BY <1>2, <1>3, <2>1, LogSame, HomeShape, HeadTail
<1>5. reg \in Entry /\ reg.version \in Nat /\ reg.version \in 1 .. HomeLen
  BY <1>2, <1>3 DEF RegOK, Entry
<1>6. PICK r \in Nat, u \in 0 .. HomeLen :
        t.rows = Between(r, u) /\ Head(t.todo) < u /\ r <= reg.version
  <2>1. PICK r \in 0 .. reg.version, u \in 0 .. HomeLen :
          t.rows = Between(r, u) /\ Head(t.todo) < u
    BY <1>1, <1>2 DEF FrameOK
  <2> QED
    BY <1>5, <2>1
<1>7. SnapOK'
  BY <1>2, SnapStays
<1>8. CASE t.rows = {}
  <2>1. Resume(c) /\ reg' = reg
    BY <1>1, <1>8 DEF RepairRow
  <2>2. RegOK' /\ RegGoesOn
    BY <1>2, <2>1, RegStays
  <2>3. u <= r
    BY <1>2, <1>6, <1>8, FirstRow
  <2>4. Head(t.todo) < reg'.version
    BY <1>4, <1>5, <1>6, <2>1, <2>3
  <2>5. FrameOK(c)'
    BY <1>1, <1>2, <1>3, <1>4, <2>1, <2>4, ResumedFrame
  <2> QED
    BY <1>7, <2>2, <2>5 DEF Sound
<1>9. CASE t.rows # {}
  <2>1. PICK f : f = FirstOf(t.rows)
    OBVIOUS
  <2>2. r < u /\ log[f].rev = r /\ t.rows \ {f} = Between(r + 1, u)
    BY <1>2, <1>6, <1>9, <2>1, FirstRow
  <2>3. reg' = Repaired(log[f]) /\ task' = [task EXCEPT ![c].rows = @ \ {FirstOf(@)}]
    BY <1>1, <1>9, <2>1 DEF RepairRow
  <2>4. r + 1 \in Nat /\ r + 1 <= HomeLen
    BY <1>4, <1>6, <2>2
  <2>5. reg' \in Entry /\ reg'.version \in 1 .. HomeLen
        /\ reg.version <= reg'.version /\ r + 1 <= reg'.version
    <3>1. CASE r < reg.version
      BY <1>5, <1>6, <2>2, <2>3, <3>1 DEF Repaired
    <3>2. CASE r = reg.version
      <4>1. PICK new \in Seq(Nat) :
              new = (IF log[f].body.kind \in Folds THEN Append(reg.state, r) ELSE reg.state)
        BY <1>5, <1>6, AppendProperties DEF Entry
      <4>2. reg \in [state : Seq(Nat), version : Nat, snapAt : Nat]
        BY <1>5 DEF Entry
      <4>3. reg' = [state |-> new, version |-> r + 1, snapAt |-> reg.snapAt]
        <5>1. CASE log[f].body.kind \in Folds
          <6>1. reg' = [reg EXCEPT !.state = Append(@, r), !.version = r + 1]
            BY <1>5, <1>6, <2>2, <2>3, <3>2, <5>1 DEF Repaired
          <6>2. Append(reg.state, r) = new
            BY <4>1, <5>1
          <6>3. reg' = [reg EXCEPT !.state = new, !.version = r + 1]
            BY <6>1, <6>2
          <6> QED
            BY <4>2, <6>3
        <5>2. CASE log[f].body.kind \notin Folds
          <6>1. reg' = [reg EXCEPT !.version = r + 1]
            BY <1>5, <1>6, <2>2, <2>3, <3>2, <5>2 DEF Repaired
          <6>2. new = reg.state
            BY <4>1, <5>2
          <6> QED
            BY <4>2, <6>1, <6>2
        <5> QED
          BY <5>1, <5>2
      <4>4. reg' \in Entry /\ reg'.version = r + 1
        BY <4>1, <4>2, <2>4, <4>3 DEF Entry
      <4> QED
        BY <1>5, <1>6, <2>4, <3>2, <4>4
    <3> QED
      BY <1>5, <1>6, <3>1, <3>2
  <2>6. reg' # None /\ reg'.version \in Nat
    BY <1>4, <2>5, NoneDiffers
  <2>7. RegOK' /\ RegGoesOn
    BY <1>4, <1>5, <2>5, <2>6 DEF RegOK, RegGoesOn
  <2>8. /\ task'[c].pc = "apply" /\ task'[c].todo = t.todo /\ task'[c].round = 1
        /\ task'[c].rows = Between(r + 1, u)'
    <3>1. Between(r + 1, u)' = Between(r + 1, u)
      BY <1>2, LogSame
    <3>2. task'[c] = [t EXCEPT !.rows = t.rows \ {f}]
      BY <1>1, <1>2, <2>1, <2>3 DEF Domains
    <3> QED
      BY <1>2, <1>3, <2>2, <3>1, <3>2
  <2>9. r + 1 \in 0 .. reg'.version /\ u \in 0 .. HomeLen'
    BY <1>4, <2>4, <2>5, <2>6
  <2>10. FrameOK(c)'
    BY <1>2, <1>3, <1>4, <1>6, <2>6, <2>8, <2>9 DEF FrameOK, FoldPcs
  <2> QED
    BY <1>7, <2>7, <2>10 DEF Sound
<1> QED
  BY <1>8, <1>9

LEMMA SaveVersions ==
    ASSUME WriteInv, VersionsOK, Onward, NEW c \in Caller,
           SaveVersion(c) \/ SaveState(c) \/ SaveStore(c)
    PROVE  Sound(c)
<1>1. PICK t : t = task[c]
  OBVIOUS
<1>2. /\ Domains /\ LogOK /\ t.pc \in {"save", "state", "store"}
      /\ FrameOK(c) /\ RegOK /\ SnapOK /\ log' = log
  BY <1>1 DEF WriteInv, CallsOK, Domains, VersionsOK, SaveVersion, SaveState, SaveStore, At
<1>3. /\ TodoOK(t.todo) /\ c \in Writer /\ reg # None
      /\ (t.pc \in {"state", "store"} => t.version \in 1 .. HomeLen)
      /\ (t.pc = "store" => t.state \in Seq(Nat))
  BY <1>1, <1>2 DEF FrameOK, FoldPcs
<1>4. HomeLen \in Nat /\ HomeLen' = HomeLen /\ TodoOK(t.todo)'
  <2>1. \A todo : TodoOK(todo) => TodoOK(todo)'
    BY <1>2, LogSame
  <2> QED
    BY <1>2, <1>3, <2>1, LogSame, HomeShape
<1>5. reg \in [state : Seq(Nat), version : Nat, snapAt : Nat] /\ reg.version \in 1 .. HomeLen
  BY <1>2, <1>3 DEF RegOK, Entry
<1>6. CASE SaveVersion(c)
  <2>1. RegOK' /\ RegGoesOn /\ SnapOK' /\ reg' = reg
    BY <1>2, <1>6, RegStays, SnapStays DEF SaveVersion
  <2>2. CASE FoldOn(c, task[c].todo, task[c].next)
    BY <1>1, <1>2, <1>4, <2>1, <2>2, FoldOnFrame DEF Sound
  <2>3. CASE GoOn(c, [pc |-> "state", todo |-> task[c].todo, next |-> task[c].next,
                      version |-> reg.version])
    <3>1. task'[c].pc = "state" /\ task'[c].todo = t.todo /\ task'[c].version = reg.version
      BY <1>1, <1>2, <2>3, WentOn
    <3>2. FrameOK(c)'
      BY <1>3, <1>4, <1>5, <2>1, <3>1 DEF FrameOK, FoldPcs
    <3> QED
      BY <2>1, <3>2 DEF Sound
  <2> QED
    BY <1>6, <2>2, <2>3 DEF SaveVersion
<1>7. CASE SaveState(c)
  <2>1. RegOK' /\ RegGoesOn /\ SnapOK' /\ reg' = reg /\ t.pc = "state"
    BY <1>1, <1>2, <1>7, RegStays, SnapStays DEF SaveState
  <2>2. task'[c] = [pc |-> "store", todo |-> t.todo, next |-> t.next,
                    version |-> t.version, state |-> reg.state]
    BY <1>1, <1>2, <1>7, WentOn DEF SaveState
  <2>3. /\ task'[c].pc = "store" /\ task'[c].todo = t.todo
        /\ task'[c].version = t.version /\ task'[c].state = reg.state
    BY <2>2
  <2>4. FrameOK(c)'
    BY <1>3, <1>4, <1>5, <2>1, <2>3 DEF FrameOK, FoldPcs
  <2> QED
    BY <2>1, <2>4 DEF Sound
<1>8. CASE SaveStore(c)
  <2>1. /\ snap' = [rev |-> t.version - 1, state |-> t.state, readable |-> TRUE]
        /\ reg' = [reg EXCEPT !.snapAt = t.version] /\ t.pc = "store"
    BY <1>1, <1>8 DEF SaveStore, SnapRev, At
  <2>2. t.version \in Nat /\ t.version - 1 \in Nat /\ t.version - 1 + 1 \in 1 .. HomeLen'
    BY <1>3, <1>4, <2>1
  <2>3. snap' \in Snapshot /\ snap'.rev = t.version - 1
    BY <1>3, <2>1, <2>2 DEF Snapshot
  <2>4. SnapOK'
    BY <2>2, <2>3 DEF SnapOK
  <2>5. reg' = [state |-> reg.state, version |-> reg.version, snapAt |-> t.version]
    BY <1>5, <2>1
  <2>6. reg' \in Entry /\ reg'.version = reg.version
    BY <1>5, <2>2, <2>5 DEF Entry
  <2>7. RegOK' /\ RegGoesOn
    BY <1>4, <1>5, <2>6, NoneDiffers DEF RegOK, RegGoesOn
  <2>8. FrameOK(c)'
    BY <1>1, <1>2, <1>4, <1>8, FoldOnFrame DEF SaveStore
  <2> QED
    BY <2>4, <2>7, <2>8 DEF Sound
<1> QED
  BY <1>6, <1>7, <1>8

\* What any step of a caller does to the log.
LEMMA StepOnward ==
    ASSUME WriteInv, NEW c \in Caller, Writes(c) \/ Starts(c) \/ Continues(c)
    PROVE  Onward
<1>1. LogOK /\ LogOK'
  BY LogStep DEF WriteInv, LogMoved
<1>2. ASSUME Starts(c) \/ Continues(c) PROVE log' = log
  BY <1>2 DEF Starts, Load, Emit, StateOf, Continues, FoldNext, FoldSkips, FoldGap,
              RestoreRead, RestoreInstall, RepairRead, RepairRow,
              SaveVersion, SaveState, SaveStore
<1>3. ASSUME Writes(c) PROVE log' = log \/ \E s : Log!NextBatch(log, log', s)
  <2>1. ASSUME NEW d, NEW try, NEW from, NEW to, NEW basis, NEW s,
               Adds(d, try, from, to, basis, s)
        PROVE  Log!NextBatch(log, log', s)
    BY <2>1 DEF Adds, Landing
  <2> QED
    BY <1>3, <2>1, CommitAdds, RunAdds DEF Writes
<1> QED
  BY <1>1, <1>2, <1>3, LogGoesOn

LEMMA StepVersions ==
    ASSUME WriteInv, VersionsOK, NEW c \in Caller, Writes(c) \/ Starts(c) \/ Continues(c)
    PROVE  Sound(c)
<1>1. Onward
  BY StepOnward
<1>2. ASSUME Writes(c) \/ Starts(c) PROVE Sound(c)
  <2>1. reg' = reg /\ snap' = snap
    BY <1>2 DEF Writes, Commit, CommitError, AppendRun, RunError, Starts, Load, Emit, StateOf
  <2>2. RegOK' /\ RegGoesOn /\ SnapOK'
    BY <1>1, <2>1, RegStays, SnapStays DEF VersionsOK
  <2>3. FrameOK(c)'
    BY <1>1, <1>2, WriteFrame, StartFrame
  <2> QED
    BY <2>2, <2>3 DEF Sound
<1>3. ASSUME Continues(c) PROVE Sound(c)
  BY <1>1, <1>3, FoldVersions, RestoreReadVersions, InstallVersions, RepairReadVersions,
     RepairRowVersions, SaveVersions DEF Continues
<1> QED
  BY <1>2, <1>3

LEMMA VersionsCrash == ASSUME WriteInv, VersionsOK, Crash PROVE VersionsOK'
<1>1. log' = log /\ reg' = None /\ \A c \in Caller : task'[c].pc = "idle"
  BY DEF Crash, Idle
<1>2. RegOK' /\ \A c \in Caller : FrameOK(c)'
  BY <1>1, NoFrame DEF RegOK, FoldPcs
<1>3. HomeLen' = HomeLen
  BY <1>1, LogSame
<1>4. SnapOK'
  <2>1. CASE snap' = snap
    BY <1>3, <2>1 DEF SnapOK, VersionsOK
  <2>2. CASE snap # None /\ snap' = [snap EXCEPT !.readable = FALSE]
    <3>1. snap \in [rev : Nat, state : Seq(Nat), readable : BOOLEAN]
          /\ snap.rev + 1 \in 1 .. HomeLen
      BY <2>2 DEF VersionsOK, SnapOK, Snapshot
    <3>2. snap' = [rev |-> snap.rev, state |-> snap.state, readable |-> FALSE]
      BY <2>2, <3>1
    <3>3. snap' \in Snapshot /\ snap'.rev = snap.rev
      BY <3>1, <3>2 DEF Snapshot
    <3> QED
      BY <1>3, <3>1, <3>3 DEF SnapOK
  <2> QED
    BY <2>1, <2>2 DEF Crash
<1> QED
  BY <1>2, <1>4 DEF VersionsOK

LEMMA VersionsStep == ASSUME WriteInv, VersionsOK, [Next]_vars PROVE VersionsOK'
<1>1. CASE Crash
  BY <1>1, VersionsCrash
<1>2. ASSUME NEW c \in Caller, Writes(c) \/ Starts(c) \/ Continues(c)
      PROVE  VersionsOK'
  <2>1. Onward /\ Sound(c)
    BY <1>2, StepOnward, StepVersions
  <2>2. Alone(c)
    BY <1>2, StepAlone DEF WriteInv, CallsOK, Domains
  <2>3. ASSUME NEW d \in Caller \ {c} PROVE FrameOK(d)'
    <3>1. FrameOK(d) /\ task'[d] = task[d] /\ RegGoesOn
      BY <2>1, <2>2 DEF VersionsOK, Sound, Alone
    <3> QED
      BY <2>1, <3>1, FrameKept
  <2> QED
    BY <2>1, <2>3 DEF VersionsOK, Sound
<1>3. CASE UNCHANGED vars
  <2>1. LogOK' /\ LogOK /\ log' = log /\ reg' = reg /\ snap' = snap /\ task' = task
    BY <1>3, WriteInvStep DEF vars, WriteInv
  <2>2. Onward
    BY <2>1, LogGoesOn
  <2>3. RegOK' /\ RegGoesOn /\ SnapOK'
    BY <2>1, <2>2, RegStays, SnapStays DEF VersionsOK
  <2>4. ASSUME NEW d \in Caller PROVE FrameOK(d)'
    <3>1. FrameOK(d) /\ task'[d] = task[d]
      BY <2>1 DEF VersionsOK
    <3> QED
      BY <2>2, <2>3, <3>1, FrameKept
  <2> QED
    BY <2>3, <2>4 DEF VersionsOK
<1> QED
  BY <1>1, <1>2, <1>3, Steps

LEMMA VersionsHold == Spec => []VersionsOK
<1>1. Init => VersionsOK
  <2>1. Init => RegOK /\ SnapOK
    BY DEF Init, RegOK, SnapOK
  <2>2. ASSUME Init, NEW c \in Caller PROVE FrameOK(c)
    <3>1. task[c].pc = "idle"
      BY <2>2 DEF Init, Idle
    <3> QED
      BY <3>1 DEF FrameOK, FoldPcs
  <2> QED
    BY <2>1, <2>2 DEF VersionsOK
<1>2. WriteInv /\ VersionsOK /\ [Next]_vars => VersionsOK'
  BY VersionsStep
<1> QED
  BY <1>1, <1>2, WriteInvHolds, PTL DEF Spec

\* fold_event has eight rounds to find its revision; the gap it meets in the
\* first is closed in the second, whatever other folds, repairs, restores and
\* appends come in between.
THEOREM OneRepairClosesTheGap == Spec => []RepairConverges
<1>1. VersionsOK => RepairConverges
  <2>1. ASSUME NEW c \in Caller, FrameOK(c), task[c].pc = "fold" PROVE task[c].round <= 1
    BY <2>1 DEF FrameOK
  <2> QED
    BY <2>1 DEF VersionsOK, RepairConverges
<1> QED
  BY <1>1, VersionsHold, PTL

-----------------------------------------------------------------------------
(* The folded states, on one thread.                                         *)

\* The revisions a fold up to v has taken.
Before(v) == {x \in Ours : x < v}

LEMMA FoldIs ==
    ASSUME NEW v
    PROVE  FoldOf(v) = Ascending(Before(v))
<1> DEFINE R == {log[i].rev : i \in {j \in {k \in HomeRows(0) : log[k].rev < v} :
                                       log[j].body.kind \in Folds}}
<1>1. \A x : x \in R <=> x \in Before(v)
  BY DEF Before, Ours
<1>2. R = Before(v)
  BY <1>1 DEF Before
<1> QED
  BY <1>2 DEF FoldOf, Folded

\* What is folded does not change when the stream grows.
LEMMA FoldStays ==
    ASSUME Onward, NEW v \in Nat, v <= HomeLen
    PROVE  FoldOf(v)' = FoldOf(v)
<1>1. /\ HomeLen \in Nat /\ HomeLen' \in Nat
      /\ Ours' \in SUBSET (0 .. HomeLen' - 1)
      /\ \A r \in Ours : r \in Ours'
      /\ \A r \in Ours' : r < HomeLen => r \in Ours
  BY DEF Onward
<1>2. \A x : x \in Before(v)' <=> x \in Before(v)
  <2>1. \A x \in Ours' : x < v => x < HomeLen
    BY <1>1
  <2> QED
    BY <1>1, <2>1 DEF Before
<1>3. Before(v)' = Before(v)
  BY <1>2 DEF Before
<1>4. FoldOf(v)' = Ascending(Before(v)')
  <2> DEFINE R == {log'[i].rev : i \in {j \in {k \in HomeRows(0)' : log'[k].rev < v} :
                                          log'[j].body.kind \in Folds}}
  <2>1. \A x : x \in R <=> x \in Before(v)'
    BY DEF Before, Ours
  <2>2. R = Before(v)'
    BY <2>1 DEF Before
  <2> QED
    BY <2>2 DEF FoldOf, Folded, Ascending
<1> QED
  BY <1>3, <1>4, FoldIs

LEMMA FoldOfNothing ==
    ASSUME LogOK
    PROVE  FoldOf(0) = <<>>
<1>1. HomeLen \in Nat /\ Ours \in SUBSET (0 .. HomeLen - 1)
  BY HomeShape
<1>2. Before(0) = {}
  <2>1. \A x \in Ours : x \in Nat
    BY <1>1
  <2>2. \A x \in Ours : ~(x < 0)
    BY <2>1
  <2> QED
    BY <2>2 DEF Before
<1>3. Ascending({}) \in Seq({}) /\ Len(Ascending({})) = 0
  <2>1. {} \in SUBSET (0 .. 0 - 1) /\ Cardinality({}) = 0
    BY FS_EmptySet
  <2> QED
    BY <2>1, AscendingSeq
<1> QED
  BY <1>2, <1>3, FoldIs, EmptySeq

\* The next revision: one of the aggregate's own is folded, another is not.
LEMMA FoldOfNext ==
    ASSUME LogOK, NEW v \in Nat
    PROVE  /\ v \in Ours => FoldOf(v + 1) = Append(FoldOf(v), v)
           /\ v \notin Ours => FoldOf(v + 1) = FoldOf(v)
<1>1. HomeLen \in Nat /\ Ours \in SUBSET (0 .. HomeLen - 1)
  BY HomeShape
<1>2. Before(v) \in SUBSET (0 .. HomeLen - 1) /\ \A y \in Before(v) : y < v
  BY <1>1 DEF Before
<1>3. \A x \in Ours : x < v + 1 <=> x < v \/ x = v
  BY <1>1
<1>4. ASSUME v \in Ours PROVE Before(v + 1) = Before(v) \cup {v}
  BY <1>1, <1>3, <1>4 DEF Before
<1>5. ASSUME v \notin Ours PROVE Before(v + 1) = Before(v)
  BY <1>1, <1>3, <1>5 DEF Before
<1>6. Ascending(Before(v) \cup {v}) = Append(Ascending(Before(v)), v)
  BY <1>1, <1>2, AscendingAppend
<1> QED
  BY <1>4, <1>5, <1>6, FoldIs

\* A fold and the rest of the stream.
LEMMA FoldOfRest ==
    ASSUME LogOK, NEW v \in Nat, v <= HomeLen
    PROVE  FoldOf(HomeLen) = FoldOf(v) \o Folded(HomeRows(v))
<1>1. HomeLen \in Nat /\ Ours \in SUBSET (0 .. HomeLen - 1)
  BY HomeShape
<1> DEFINE rest == {x \in Ours : x >= v}
<1>2. Folded(HomeRows(v)) = Ascending(rest)
  BY HomeFrom
<1>3. /\ Before(v) \in SUBSET (0 .. HomeLen - 1) /\ rest \in SUBSET (0 .. HomeLen - 1)
      /\ \A a \in Before(v), b \in rest : a < b
  <2>1. \A x \in Ours : x \in Nat
    BY <1>1
  <2>2. \A a \in Before(v), b \in rest : a \in Nat /\ b \in Nat /\ a < v /\ b >= v
    BY <2>1 DEF Before
  <2>3. \A a \in Before(v), b \in rest : a < b
    BY <2>2
  <2>4. Before(v) \in SUBSET Ours /\ rest \in SUBSET Ours
    BY DEF Before
  <2> QED
    BY <1>1, <2>3, <2>4
<1>4. \A x \in Ours : x < HomeLen /\ (x < v \/ x >= v)
  BY <1>1
<1>5. Before(HomeLen) = Before(v) \cup rest
  BY <1>4 DEF Before
<1> HIDE DEF rest
<1>6. Ascending(Before(v) \cup rest) = Ascending(Before(v)) \o Ascending(rest)
  BY <1>1, <1>3, AscendingJoin
<1> QED
  BY <1>2, <1>5, <1>6, FoldIs

\* No step but a save's own comes between its two reads of the registry with a
\* fold: what moves the entry while one is under way is ruled out, no other step.
Undisturbed ==
    \A d \in Caller : task[d].pc = "state" /\ task'[d].pc = "state" => reg'.version = reg.version

\* The fold up to a version that is named.
LEMMA RegFold ==
    ASSUME NEW v, reg'.version = v
    PROVE  FoldOf(reg.version)' = FoldOf(v)'
  BY DEF FoldOf, Folded

LEMMA SnapFold ==
    ASSUME NEW v, snap'.rev + 1 = v
    PROVE  FoldOf(snap.rev + 1)' = FoldOf(v)'
  BY DEF FoldOf, Folded

\* Entry, snapshot and frames that a step leaves alone.
LEMMA RegFoldStays ==
    ASSUME VersionsOK, Onward, FoldsArePrefixes, reg' = reg, reg # None
    PROVE  reg'.state = FoldOf(reg.version)'
<1>1. reg.version \in Nat /\ reg.version <= HomeLen
  BY DEF VersionsOK, RegOK, Entry, Onward
<1>2. PICK v \in Nat : v = reg.version
  BY <1>1
<1>3. FoldOf(v)' = FoldOf(v) /\ FoldOf(reg.version)' = FoldOf(v)'
  BY <1>1, <1>2, FoldStays, RegFold
<1> QED
  BY <1>2, <1>3 DEF FoldsArePrefixes

LEMMA SnapFoldStays ==
    ASSUME VersionsOK, Onward, FoldsArePrefixes, snap # None,
           snap'.rev = snap.rev, snap'.state = snap.state
    PROVE  snap'.state = FoldOf(snap.rev + 1)'
<1>1. snap.rev + 1 \in Nat /\ snap.rev + 1 <= HomeLen
  BY DEF VersionsOK, SnapOK, Snapshot, Onward
<1>2. PICK v \in Nat : v = snap.rev + 1
  BY <1>1
<1>3. FoldOf(v)' = FoldOf(v) /\ FoldOf(snap.rev + 1)' = FoldOf(v)'
  BY <1>1, <1>2, FoldStays, SnapFold
<1> QED
  BY <1>2, <1>3 DEF FoldsArePrefixes

LEMMA InstallFold ==
    ASSUME NEW c, NEW v, task'[c].entry.version = v
    PROVE  FoldOf(task[c].entry.version)' = FoldOf(v)'
  BY DEF FoldOf, Folded

LEMMA StoreFold ==
    ASSUME NEW c, NEW v, task'[c].version = v
    PROVE  FoldOf(task[c].version)' = FoldOf(v)'
  BY DEF FoldOf, Folded

\* A frame is not disturbed by what another caller does.
LEMMA FrameFoldsKept ==
    ASSUME Onward, NEW d, FrameOK(d), FrameFolds(d), task'[d] = task[d],
           task[d].pc = "state" => reg' # None /\ reg'.version = reg.version
    PROVE  FrameFolds(d)'
<1>1. HomeLen \in Nat
  BY DEF Onward
<1>2. ASSUME task[d].pc = "install"
      PROVE  task'[d].entry.state = FoldOf(task[d].entry.version)'
  <2>1. PICK v \in Nat : v = task[d].entry.version /\ v <= HomeLen
    BY <1>1, <1>2 DEF FrameOK
  <2>2. FoldOf(v)' = FoldOf(v) /\ FoldOf(task[d].entry.version)' = FoldOf(v)'
    BY <2>1, FoldStays, InstallFold
  <2> QED
    BY <1>2, <2>1, <2>2 DEF FrameFolds
<1>3. ASSUME task[d].pc = "store"
      PROVE  task'[d].state = FoldOf(task[d].version)'
  <2>1. PICK v \in Nat : v = task[d].version /\ v <= HomeLen
    BY <1>1, <1>3 DEF FrameOK
  <2>2. FoldOf(v)' = FoldOf(v) /\ FoldOf(task[d].version)' = FoldOf(v)'
    BY <2>1, FoldStays, StoreFold
  <2> QED
    BY <1>3, <2>1, <2>2 DEF FrameFolds
<1>4. task[d].pc = "state" => reg' # None /\ task'[d].version = reg'.version
  BY DEF FrameFolds
<1> QED
  BY <1>2, <1>3, <1>4 DEF FrameFolds

LEMMA NoFrameFolds ==
    ASSUME NEW c, task'[c].pc \notin {"install", "state", "store"}
    PROVE  FrameFolds(c)'
  BY DEF FrameFolds

LEMMA FoldOnFolds ==
    ASSUME Domains, NEW c \in Caller, NEW todo, NEW next, FoldOn(c, todo, next)
    PROVE  FrameFolds(c)'
<1>1. Return(c, "ok") \/ GoOn(c, Folding(todo, next)) \/ GoOn(c, [pc |-> "run", next |-> next])
  BY DEF FoldOn
<1>2. task'[c].pc \in {"idle", "fold", "run"}
  <2>1. CASE Return(c, "ok")
    BY <2>1 DEF Return, Idle, Domains
  <2>2. CASE GoOn(c, Folding(todo, next))
    BY <2>2, WentOn DEF Folding, Frame
  <2>3. CASE GoOn(c, [pc |-> "run", next |-> next])
    BY <2>3, WentOn
  <2> QED
    BY <1>1, <2>1, <2>2, <2>3
<1> QED
  BY <1>2, NoFrameFolds

LEMMA ResumeFolds ==
    ASSUME Domains, NEW c \in Caller, Resume(c)
    PROVE  FrameFolds(c)'
<1>1. CASE Return(c, "ok")
  <2>1. task'[c].pc = "idle"
    BY <1>1 DEF Return, Idle, Domains
  <2> QED
    BY <2>1, NoFrameFolds
<1>2. CASE task' = [task EXCEPT ![c] = Frame("fold", @.todo, @.next, @.round)]
  <2>1. task'[c].pc = "fold"
    BY <1>2 DEF Domains, Frame
  <2> QED
    BY <2>1, NoFrameFolds
<1> QED
  BY <1>1, <1>2 DEF Resume

\* What a step of c does to the folded states.
StatesMove(c) == FoldsArePrefixes' /\ FrameFolds(c)'

LEMMA LogAlone ==
    ASSUME WriteInv, VersionsOK, FoldsArePrefixes, Onward, reg' = reg, snap' = snap
    PROVE  FoldsArePrefixes'
  BY RegFoldStays, SnapFoldStays DEF FoldsArePrefixes

LEMMA WriteFolds ==
    ASSUME WriteInv, VersionsOK, StatesOK, Onward, NEW c \in Caller, Writes(c) \/ Starts(c)
    PROVE  StatesMove(c)
<1>1. Domains
  BY DEF WriteInv, CallsOK, Domains
<1>2. FoldsArePrefixes'
  <2>1. reg' = reg /\ snap' = snap
    BY DEF Writes, Commit, CommitError, AppendRun, RunError, Starts, Load, Emit, StateOf
  <2> QED
    BY <2>1, LogAlone DEF StatesOK
<1>3. FrameFolds(c)'
  <2>1. ASSUME NEW what, Return(c, what) PROVE FrameFolds(c)'
    <3>1. task'[c].pc = "idle"
      BY <1>1, <2>1 DEF Return, Idle, Domains
    <3> QED
      BY <3>1, NoFrameFolds
  <2>2. ASSUME NEW frame, GoOn(c, frame), frame.pc \in {"load", "commit", "run", "restore"}
        PROVE  FrameFolds(c)'
    <3>1. task'[c].pc \in {"load", "commit", "run", "restore"}
      BY <1>1, <2>2, WentOn
    <3> QED
      BY <3>1, NoFrameFolds
  <2>3. CASE Commit(c) \/ CommitError(c)
    BY <1>1, <2>1, <2>2, <2>3, FoldOnFolds DEF Commit, CommitError
  <2>4. CASE AppendRun(c) \/ RunError(c)
    BY <1>1, <2>1, <2>4, FoldOnFolds DEF AppendRun, RunError
  <2>5. CASE Load(c)
    BY <2>1, <2>2, <2>5 DEF Load, LoadAndDecide
  <2>6. CASE Emit(c)
    BY <2>1, <2>2, <2>6 DEF Emit
  <2>7. CASE StateOf(c)
    <3>1. Frame("restore", <<>>, 0, 0).pc = "restore"
      BY DEF Frame
    <3> QED
      BY <2>1, <2>2, <2>7, <3>1 DEF StateOf
  <2> QED
    BY <2>3, <2>4, <2>5, <2>6, <2>7 DEF Writes, Starts
<1> QED
  BY <1>2, <1>3 DEF StatesMove

LEMMA EntryIsFold ==
    ASSUME Onward, NEW v \in Nat, v <= HomeLen, reg'.version = v, reg'.state = FoldOf(v)
    PROVE  reg'.state = FoldOf(reg.version)'
  BY FoldStays, RegFold

\* The entry is what moves.
LEMMA EntryMoves ==
    ASSUME VersionsOK, FoldsArePrefixes, Onward, snap' = snap,
           NEW v \in Nat, v <= HomeLen, reg'.version = v, reg'.state = FoldOf(v)
    PROVE  FoldsArePrefixes'
  BY EntryIsFold, SnapFoldStays DEF FoldsArePrefixes

LEMMA FoldNextStates ==
    ASSUME WriteInv, VersionsOK, StatesOK, Onward, NEW c \in Caller, FoldNext(c)
    PROVE  StatesMove(c)
<1>1. PICK t : t = task[c]
  OBVIOUS
<1>2. /\ Domains /\ LogOK /\ t.pc = "fold" /\ FrameOK(c) /\ RegOK /\ FoldsArePrefixes
      /\ snap' = snap
  BY <1>1 DEF WriteInv, CallsOK, Domains, VersionsOK, FoldNext, AtFold, At, StatesOK
<1>3. TodoOK(t.todo) /\ t.todo # <<>>
  BY <1>1, <1>2 DEF FrameOK, FoldPcs
<1>4. PICK h : h = Head(t.todo) /\ h \in Ours /\ h \in 0 .. HomeLen - 1
  BY <1>2, <1>3, HeadTail
<1>5. HomeLen \in Nat /\ h \in Nat /\ h + 1 \in Nat /\ h + 1 <= HomeLen
  <2>1. HomeLen \in Nat
    BY <1>2, HomeShape
  <2> QED
    BY <1>4, <2>1
<1>6. h = Version
  BY <1>1, <1>4 DEF FoldNext, Rev
<1>7. FoldOf(h + 1) = Append(FoldOf(h), h)
  BY <1>2, <1>4, <1>5, FoldOfNext
<1>8. reg'.version = h + 1 /\ reg'.state = FoldOf(h + 1)
  <2>1. CASE reg = None
    <3>1. reg' = [state |-> <<0>>, version |-> 1, snapAt |-> 0] /\ h = 0
      BY <1>6, <2>1 DEF FoldNext, Version
    <3>2. FoldOf(0) = <<>>
      BY <1>2, FoldOfNothing
    <3>3. Append(<<>>, 0) = <<0>>
      OBVIOUS
    <3>4. reg'.state = <<0>> /\ reg'.version = 1
      BY <3>1
    <3> QED
      BY <1>7, <3>1, <3>2, <3>3, <3>4
  <2>2. CASE reg # None
    <3>1. reg' = [reg EXCEPT !.state = Append(@, reg.version), !.version = @ + 1]
          /\ h = reg.version
      BY <1>6, <2>2 DEF FoldNext, Version
    <3>2. reg \in [state : Seq(Nat), version : Nat, snapAt : Nat]
      BY <1>2, <2>2 DEF RegOK, Entry
    <3>3. PICK new : new = Append(reg.state, h)
      OBVIOUS
    <3>4. reg' = [reg EXCEPT !.state = new, !.version = h + 1]
      BY <3>1, <3>3
    <3>5. reg'.state = new /\ reg'.version = h + 1
      BY <3>2, <3>4
    <3>6. reg.state = FoldOf(h)
      BY <1>2, <2>2, <3>1 DEF FoldsArePrefixes
    <3> QED
      BY <1>7, <3>3, <3>5, <3>6
  <2> QED
    BY <2>1, <2>2
<1>9. FoldsArePrefixes'
  <2>1. PICK v : v = h + 1
    OBVIOUS
  <2> QED
    BY <1>2, <1>5, <1>8, <2>1, EntryMoves
<1>10. FrameFolds(c)'
  <2>1. CASE GoOn(c, Frame("save", Tail(task[c].todo), task[c].next, 0))
    <3>1. task'[c].pc = "save"
      BY <1>2, <2>1, WentOn DEF Frame
    <3> QED
      BY <3>1, NoFrameFolds
  <2>2. CASE FoldOn(c, Tail(task[c].todo), task[c].next)
    BY <1>2, <2>2, FoldOnFolds
  <2> QED
    BY <2>1, <2>2 DEF FoldNext
<1> QED
  BY <1>9, <1>10 DEF StatesMove

\* The steps that only read.
LEMMA ReadStates ==
    ASSUME WriteInv, VersionsOK, StatesOK, Onward, NEW c \in Caller,
           FoldSkips(c) \/ FoldGap(c) \/ RepairRead(c)
    PROVE  StatesMove(c)
<1>1. Domains
  BY DEF WriteInv, CallsOK, Domains
<1>2. FoldsArePrefixes'
  <2>1. reg' = reg /\ snap' = snap
    BY DEF FoldSkips, FoldGap, RepairRead
  <2> QED
    BY <2>1, LogAlone DEF StatesOK
<1>3. FrameFolds(c)'
  <2>1. CASE FoldSkips(c)
    BY <1>1, <2>1, FoldOnFolds DEF FoldSkips
  <2>2. CASE FoldGap(c)
    <3>1. task'[c].pc \in {"restore", "repair"}
      BY <1>1, <2>2 DEF FoldGap, Domains, Frame
    <3> QED
      BY <3>1, NoFrameFolds
  <2>3. CASE RepairRead(c)
    <3>1. task'[c].pc = "apply"
      BY <1>1, <2>3 DEF RepairRead, Domains
    <3> QED
      BY <3>1, NoFrameFolds
  <2> QED
    BY <2>1, <2>2, <2>3
<1> QED
  BY <1>2, <1>3 DEF StatesMove

LEMMA RestoreReadStates ==
    ASSUME WriteInv, VersionsOK, StatesOK, Onward, NEW c \in Caller, RestoreRead(c)
    PROVE  StatesMove(c)
<1>1. /\ Domains /\ LogOK /\ RegOK /\ SnapOK /\ FoldsArePrefixes
      /\ reg' = reg /\ log' = log
  BY DEF WriteInv, CallsOK, Domains, VersionsOK, StatesOK, RestoreRead
<1>2. HomeLen \in Nat
  BY <1>1, HomeShape
<1>3. FoldsArePrefixes'
  <2>1. reg' # None => reg'.state = FoldOf(reg.version)'
    BY <1>1, RegFoldStays
  <2>2. snap' = snap \/ snap' = None
    BY DEF RestoreRead
  <2>3. snap' # None => snap'.state = FoldOf(snap.rev + 1)'
    BY <1>1, <2>2, SnapFoldStays
  <2> QED
    BY <2>1, <2>3 DEF FoldsArePrefixes
<1> DEFINE from == Seed.from
           rows == HomeRows(from)
<1>4. /\ from \in Nat /\ from <= HomeLen /\ Seed.state = FoldOf(from)
      /\ (Usable => from >= 1) /\ (~Usable => from = 0)
  <2>1. CASE Usable
    <3>1. /\ snap \in [rev : Nat, state : Seq(Nat), readable : BOOLEAN]
          /\ snap.rev + 1 \in 1 .. HomeLen /\ snap.state = FoldOf(snap.rev + 1)
      BY <1>1, <2>1 DEF Usable, SnapOK, Snapshot, FoldsArePrefixes
    <3>2. Seed = [state |-> snap.state, from |-> snap.rev + 1]
      BY <2>1 DEF Seed
    <3>3. Seed.state = snap.state /\ Seed.from = snap.rev + 1
      BY <3>2
    <3> QED
      BY <1>2, <2>1, <3>1, <3>3
  <2>2. CASE ~Usable
    <3>1. Seed = [state |-> <<>>, from |-> 0]
      BY <2>2 DEF Seed
    <3>2. Seed.state = <<>> /\ Seed.from = 0
      BY <3>1
    <3> QED
      BY <1>1, <1>2, <2>2, <3>2, FoldOfNothing
  <2> QED
    BY <2>1, <2>2
<1>5. FoldOf(HomeLen) = Seed.state \o Folded(rows) /\ (rows = {} <=> from >= HomeLen)
  BY <1>1, <1>4, FoldOfRest, HomeFrom
<1>6. CASE ~Usable /\ rows = {}
  <2>1. Resume(c)
    BY <1>6 DEF RestoreRead
  <2> QED
    BY <1>1, <1>3, <2>1, ResumeFolds DEF StatesMove
<1>7. CASE ~(~Usable /\ rows = {})
  <2> DEFINE e == [state   |-> Seed.state \o Folded(rows),
                   version |-> IF rows = {} THEN from ELSE HomeLen,
                   snapAt  |-> IF snap = None THEN 0 ELSE snap.rev + 1]
  <2>1. task' = [task EXCEPT ![c] = [pc |-> "install", todo |-> @.todo, next |-> @.next,
                                     round |-> @.round, entry |-> e]]
    BY <1>7 DEF RestoreRead
  <2>2. e.state = FoldOf(HomeLen) /\ e.version = HomeLen
    <3>1. (IF rows = {} THEN from ELSE HomeLen) = HomeLen
      BY <1>2, <1>4, <1>5
    <3> QED
      BY <1>5, <3>1
  <2> HIDE DEF e
  <2>3. task'[c] = [pc |-> "install", todo |-> task[c].todo, next |-> task[c].next,
                    round |-> task[c].round, entry |-> e]
    BY <1>1, <2>1 DEF Domains
  <2>4. task'[c].pc = "install" /\ task'[c].entry = e
    BY <2>3
  <2>5. task'[c].entry.state = FoldOf(task[c].entry.version)'
    <3>1. PICK v \in Nat : v = HomeLen
      BY <1>2
    <3>2. FoldOf(v)' = FoldOf(v)
      BY <1>2, <3>1, FoldStays
    <3>3. FoldOf(task[c].entry.version)' = FoldOf(v)'
      BY <2>2, <2>4, <3>1, InstallFold
    <3> QED
      BY <2>2, <2>4, <3>1, <3>2, <3>3
  <2>6. FrameFolds(c)'
    BY <2>4, <2>5 DEF FrameFolds
  <2> QED
    BY <1>3, <2>6 DEF StatesMove
<1> QED
  BY <1>6, <1>7

LEMMA InstallStates ==
    ASSUME WriteInv, VersionsOK, StatesOK, Onward, NEW c \in Caller, RestoreInstall(c)
    PROVE  StatesMove(c)
<1>1. /\ Domains /\ FrameOK(c) /\ FrameFolds(c) /\ RegOK /\ FoldsArePrefixes
      /\ task[c].pc = "install" /\ snap' = snap /\ HomeLen \in Nat
  BY DEF WriteInv, CallsOK, Domains, VersionsOK, StatesOK, RestoreInstall, At, Onward
<1>2. PICK e : e = task[c].entry /\ e \in Entry /\ e.version \in 1 .. HomeLen
               /\ e.state = FoldOf(e.version)
  BY <1>1 DEF FrameOK, FrameFolds
<1>3. reg' = (IF reg = None \/ e.version > reg.version THEN e ELSE reg)
  BY <1>2 DEF RestoreInstall, SetState
<1>4. FoldsArePrefixes'
  <2>1. CASE reg = None \/ e.version > reg.version
    <3>1. PICK v \in Nat : v = e.version /\ v <= HomeLen
      BY <1>1, <1>2
    <3>2. reg'.version = v /\ reg'.state = FoldOf(v)
      BY <1>2, <1>3, <2>1, <3>1
    <3> QED
      BY <1>1, <3>1, <3>2, EntryMoves
  <2>2. CASE ~(reg = None \/ e.version > reg.version)
    BY <1>1, <1>3, <2>2, LogAlone
  <2> QED
    BY <2>1, <2>2
<1>5. FrameFolds(c)'
  BY <1>1, ResumeFolds DEF RestoreInstall
<1> QED
  BY <1>4, <1>5 DEF StatesMove

\* Whose revision a row is.
LEMMA OwnRevision ==
    ASSUME LogOK, NEW f \in HomeRows(0)
    PROVE  log[f].rev \in Ours <=> log[f].body.kind \in Folds
<1>1. \A i, j \in HomeRows(0) : log[i].rev = log[j].rev => i = j
  BY HomeShape
<1> QED
  BY <1>1 DEF Ours

LEMMA RepairRowStates ==
    ASSUME WriteInv, VersionsOK, StatesOK, Onward, NEW c \in Caller, RepairRow(c)
    PROVE  StatesMove(c)
<1>1. PICK t : t = task[c]
  OBVIOUS
<1>2. /\ Domains /\ LogOK /\ FrameOK(c) /\ RegOK /\ FoldsArePrefixes
      /\ t.pc = "apply" /\ snap' = snap /\ HomeLen \in Nat
  BY <1>1 DEF WriteInv, CallsOK, Domains, VersionsOK, StatesOK, RepairRow, At, Onward
<1>3. PICK r \in 0 .. reg.version, u \in 0 .. HomeLen : t.rows = Between(r, u) /\ reg # None
  BY <1>1, <1>2 DEF FrameOK
<1>4. /\ reg \in [state : Seq(Nat), version : Nat, snapAt : Nat]
      /\ reg.version \in 1 .. HomeLen /\ reg.version \in Nat /\ r \in Nat /\ r <= reg.version
      /\ reg.state = FoldOf(reg.version)
  <2>1. reg \in [state : Seq(Nat), version : Nat, snapAt : Nat] /\ reg.version \in 1 .. HomeLen
    BY <1>2, <1>3 DEF RegOK, Entry
  <2> QED
    BY <1>2, <1>3, <2>1 DEF FoldsArePrefixes
<1>5. CASE t.rows = {}
  <2>1. Resume(c) /\ reg' = reg
    BY <1>1, <1>5 DEF RepairRow
  <2>2. FoldsArePrefixes'
    BY <1>2, <2>1, LogAlone
  <2> QED
    BY <1>2, <2>1, <2>2, ResumeFolds DEF StatesMove
<1>6. CASE t.rows # {}
  <2>1. PICK f : f = FirstOf(t.rows)
    OBVIOUS
  <2>2. r < u /\ f \in HomeRows(0) /\ log[f].rev = r
    BY <1>2, <1>3, <1>4, <1>6, <2>1, FirstRow
  <2>3. reg' = Repaired(log[f]) /\ task' = [task EXCEPT ![c].rows = @ \ {FirstOf(@)}]
    BY <1>1, <1>6, <2>1 DEF RepairRow
  <2>4. r + 1 \in Nat /\ r + 1 <= HomeLen
    BY <1>2, <1>4, <2>2
  <2>5. ASSUME r < reg.version PROVE FoldsArePrefixes'
    <3>1. reg' = reg
      BY <2>2, <2>3, <2>5 DEF Repaired
    <3> QED
      BY <1>2, <3>1, LogAlone
  <2>6. ASSUME r = reg.version PROVE FoldsArePrefixes'
    <3>1. reg'.version = r + 1 /\ reg'.state = FoldOf(r + 1)
      <4>1. CASE log[f].body.kind \in Folds
        <5>1. reg' = [reg EXCEPT !.state = Append(@, r), !.version = r + 1]
          BY <1>4, <2>2, <2>3, <2>6, <4>1 DEF Repaired
        <5>2. PICK new : new = Append(reg.state, r)
          OBVIOUS
        <5>3. reg' = [reg EXCEPT !.state = new, !.version = r + 1]
          BY <5>1, <5>2
        <5>4. reg'.state = new /\ reg'.version = r + 1
          BY <1>4, <5>3
        <5>5. FoldOf(r + 1) = Append(FoldOf(r), r)
          <6>1. r \in Ours
            BY <1>2, <2>2, <4>1, OwnRevision
          <6> QED
            BY <1>2, <1>4, <6>1, FoldOfNext
        <5> QED
          BY <1>4, <2>6, <5>2, <5>4, <5>5
      <4>2. CASE log[f].body.kind \notin Folds
        <5>1. reg' = [reg EXCEPT !.version = r + 1]
          BY <1>4, <2>2, <2>3, <2>6, <4>2 DEF Repaired
        <5>2. reg'.state = reg.state /\ reg'.version = r + 1
          BY <1>4, <5>1
        <5>3. FoldOf(r + 1) = FoldOf(r)
          <6>1. r \notin Ours
            BY <1>2, <2>2, <4>2, OwnRevision
          <6> QED
            BY <1>2, <1>4, <6>1, FoldOfNext
        <5> QED
          BY <1>4, <2>6, <5>2, <5>3
      <4> QED
        BY <4>1, <4>2
    <3>2. PICK v : v = r + 1
      OBVIOUS
    <3> QED
      BY <1>2, <2>4, <3>1, <3>2, EntryMoves
  <2>7. FoldsArePrefixes'
    BY <1>4, <2>5, <2>6
  <2>8. task'[c].pc = "apply"
    BY <1>1, <1>2, <2>3 DEF Domains
  <2> QED
    BY <2>7, <2>8, NoFrameFolds DEF StatesMove
<1> QED
  BY <1>5, <1>6

LEMMA SaveStates ==
    ASSUME WriteInv, VersionsOK, StatesOK, Onward, NEW c \in Caller,
           SaveVersion(c) \/ SaveState(c) \/ SaveStore(c)
    PROVE  StatesMove(c)
<1>1. PICK t : t = task[c]
  OBVIOUS
<1>2. /\ Domains /\ FrameOK(c) /\ FrameFolds(c) /\ RegOK /\ FoldsArePrefixes
      /\ HomeLen \in Nat /\ t.pc \in {"save", "state", "store"} /\ log' = log
  BY <1>1 DEF WriteInv, CallsOK, Domains, VersionsOK, StatesOK, Onward,
              SaveVersion, SaveState, SaveStore, At
<1>3. /\ reg # None /\ reg \in [state : Seq(Nat), version : Nat, snapAt : Nat]
      /\ reg.version \in 1 .. HomeLen /\ reg.state = FoldOf(reg.version)
      /\ (t.pc \in {"state", "store"} => t.version \in 1 .. HomeLen)
  <2>1. reg # None /\ (t.pc \in {"state", "store"} => t.version \in 1 .. HomeLen)
    BY <1>1, <1>2 DEF FrameOK
  <2> QED
    BY <1>2, <2>1 DEF RegOK, Entry, FoldsArePrefixes
<1>4. CASE SaveVersion(c)
  <2>1. FoldsArePrefixes' /\ reg' = reg
    BY <1>2, <1>4, LogAlone DEF SaveVersion
  <2>2. CASE FoldOn(c, task[c].todo, task[c].next)
    BY <1>2, <2>1, <2>2, FoldOnFolds DEF StatesMove
  <2>3. CASE GoOn(c, [pc |-> "state", todo |-> task[c].todo, next |-> task[c].next,
                      version |-> reg.version])
    <3>1. task'[c].pc = "state" /\ task'[c].version = reg.version
      BY <1>2, <2>3, WentOn
    <3>2. FrameFolds(c)'
      BY <1>3, <2>1, <3>1 DEF FrameFolds
    <3> QED
      BY <2>1, <3>2 DEF StatesMove
  <2> QED
    BY <1>4, <2>2, <2>3 DEF SaveVersion
<1>5. CASE SaveState(c)
  <2>1. FoldsArePrefixes' /\ reg' = reg /\ t.pc = "state"
    BY <1>1, <1>2, <1>5, LogAlone DEF SaveState
  <2>2. task'[c] = [pc |-> "store", todo |-> t.todo, next |-> t.next,
                    version |-> t.version, state |-> reg.state]
    BY <1>1, <1>2, <1>5, WentOn DEF SaveState
  <2>3. task'[c].pc = "store" /\ task'[c].version = t.version /\ task'[c].state = reg.state
    BY <2>2
  <2>4. PICK v \in Nat : v = reg.version /\ v <= HomeLen
    BY <1>2, <1>3
  <2>5. t.version = v /\ task'[c].state = FoldOf(v)
    BY <1>1, <1>2, <1>3, <2>1, <2>3, <2>4 DEF FrameFolds
  <2>6. FoldOf(task[c].version)' = FoldOf(v)' /\ FoldOf(v)' = FoldOf(v)
    BY <2>3, <2>4, <2>5, StoreFold, FoldStays
  <2>7. FrameFolds(c)'
    BY <2>3, <2>5, <2>6 DEF FrameFolds
  <2> QED
    BY <2>1, <2>7 DEF StatesMove
<1>6. CASE SaveStore(c)
  <2>1. /\ snap' = [rev |-> t.version - 1, state |-> t.state, readable |-> TRUE]
        /\ reg' = [reg EXCEPT !.snapAt = t.version] /\ t.pc = "store"
    BY <1>1, <1>6 DEF SaveStore, SnapRev, At
  <2>2. PICK v \in Nat : v = t.version /\ v <= HomeLen
    BY <1>2, <1>3, <2>1
  <2>3. snap'.rev + 1 = v /\ snap'.state = FoldOf(v)
    <3>1. snap'.rev = v - 1 /\ snap'.state = t.state
      BY <2>1, <2>2
    <3>2. t.state = FoldOf(v)
      BY <1>1, <1>2, <2>1, <2>2 DEF FrameFolds
    <3> QED
      BY <2>2, <3>1, <3>2
  <2>4. snap'.state = FoldOf(snap.rev + 1)'
    BY <2>2, <2>3, FoldStays, SnapFold
  <2>5. PICK w \in Nat : w = reg.version /\ w <= HomeLen
    BY <1>2, <1>3
  <2>6. reg'.version = w /\ reg'.state = FoldOf(w)
    BY <1>3, <2>1, <2>5
  <2>7. reg'.state = FoldOf(reg.version)'
    BY <2>5, <2>6, EntryIsFold
  <2>8. FoldsArePrefixes'
    BY <2>4, <2>7 DEF FoldsArePrefixes
  <2>9. FrameFolds(c)'
    BY <1>2, <1>6, FoldOnFolds DEF SaveStore
  <2> QED
    BY <2>8, <2>9 DEF StatesMove
<1> QED
  BY <1>4, <1>5, <1>6

LEMMA StatesStep ==
    ASSUME WriteInv, VersionsOK, StatesOK, [Next]_vars, [Undisturbed]_vars
    PROVE  StatesOK'
<1>1. CASE Crash
  <2>1. log' = log /\ reg' = None /\ \A c \in Caller : task'[c].pc = "idle"
    BY <1>1 DEF Crash, Idle
  <2>2. \A c \in Caller : FrameFolds(c)'
    BY <2>1, NoFrameFolds
  <2>3. Onward
    <3>1. LogOK /\ LogOK'
      BY <1>1, WriteInvCrash DEF WriteInv
    <3> QED
      BY <2>1, <3>1, LogGoesOn
  <2>4. snap' # None => snap # None /\ snap'.rev = snap.rev /\ snap'.state = snap.state
    <3>1. snap # None => snap \in [rev : Nat, state : Seq(Nat), readable : BOOLEAN]
      BY DEF VersionsOK, SnapOK, Snapshot
    <3> QED
      BY <1>1, <3>1 DEF Crash
  <2>5. snap' # None => snap'.state = FoldOf(snap.rev + 1)'
    BY <2>3, <2>4, SnapFoldStays DEF StatesOK
  <2> QED
    BY <2>1, <2>2, <2>5 DEF StatesOK, FoldsArePrefixes
<1>2. ASSUME NEW c \in Caller, Writes(c) \/ Starts(c) \/ Continues(c)
      PROVE  StatesOK'
  <2>1. Onward /\ Sound(c)
    BY <1>2, StepOnward, StepVersions
  <2>2. Alone(c)
    BY <1>2, StepAlone DEF WriteInv, CallsOK, Domains
  <2>3. StatesMove(c)
    BY <1>2, <2>1, WriteFolds, FoldNextStates, ReadStates, RestoreReadStates, InstallStates,
       RepairRowStates, SaveStates DEF Continues
  <2>4. ASSUME NEW d \in Caller \ {c} PROVE FrameFolds(d)'
    <3>1. FrameOK(d) /\ FrameFolds(d) /\ task'[d] = task[d]
      BY <2>2 DEF VersionsOK, StatesOK, Alone
    <3>2. task[d].pc = "state" => reg' # None /\ reg'.version = reg.version
      <4>1. ASSUME task[d].pc = "state" PROVE reg' # None
        <5>1. FrameOK(d)'
          BY VersionsStep DEF VersionsOK
        <5> QED
          BY <3>1, <4>1, <5>1 DEF FrameOK
      <4>2. ASSUME task[d].pc = "state" PROVE reg'.version = reg.version
        BY <3>1, <4>2 DEF Undisturbed, vars
      <4> QED
        BY <4>1, <4>2
    <3> QED
      BY <2>1, <3>1, <3>2, FrameFoldsKept
  <2> QED
    BY <2>3, <2>4 DEF StatesOK, StatesMove
<1>3. CASE UNCHANGED vars
  <2>1. LogOK' /\ LogOK /\ log' = log /\ reg' = reg /\ snap' = snap /\ task' = task
    BY <1>3, WriteInvStep DEF vars, WriteInv
  <2>2. Onward
    BY <2>1, LogGoesOn
  <2>3. FoldsArePrefixes'
    BY <2>1, <2>2, LogAlone DEF StatesOK
  <2>4. ASSUME NEW d \in Caller PROVE FrameFolds(d)'
    <3>1. FrameOK(d) /\ FrameFolds(d) /\ task'[d] = task[d]
      BY <2>1 DEF VersionsOK, StatesOK
    <3>2. task[d].pc = "state" => reg' # None /\ reg'.version = reg.version
      BY <2>1, <3>1 DEF FrameFolds
    <3> QED
      BY <2>2, <3>1, <3>2, FrameFoldsKept
  <2> QED
    BY <2>3, <2>4 DEF StatesOK
<1> QED
  BY <1>1, <1>2, <1>3, Steps

\* The registry's entry and the snapshot are folds of the stream up to the
\* revision they name, on any runtime: nothing folded twice, skipped or out of
\* order, whatever folds, repairs, restores, saves and crashes overlap - in every
\* behaviour in which no other caller's fold comes between the two registry reads
\* of a save (maybe_save_snapshots).  That interleaving is all that can break it.
THEOREM OnlyTornSavesBreakFolds ==
    Spec /\ [][Undisturbed]_vars => []FoldsArePrefixes
<1>1. Init => StatesOK
  <2>1. ASSUME Init, NEW c \in Caller PROVE FrameFolds(c)
    <3>1. task[c].pc = "idle"
      BY <2>1 DEF Init, Idle
    <3> QED
      BY <3>1 DEF FrameFolds
  <2>2. Init => FoldsArePrefixes
    BY DEF Init, FoldsArePrefixes
  <2> QED
    BY <2>1, <2>2 DEF StatesOK
<1>2. WriteInv /\ VersionsOK /\ StatesOK /\ [Next]_vars /\ [Undisturbed]_vars => StatesOK'
  BY StatesStep
<1>3. StatesOK => FoldsArePrefixes
  BY DEF StatesOK
<1> QED
  BY <1>1, <1>2, <1>3, WriteInvHolds, VersionsHold, PTL DEF Spec

\* An engine without snapshots never begins a save.
NoSave == \A c \in Caller : task[c].pc \notin {"save", "state", "store"}

LEMMA NotSaving ==
    ASSUME Domains, NEW c \in Caller, task'[c].pc \in {"save", "state", "store"},
           NEW todo, NEW next
    PROVE  ~FoldOn(c, todo, next) /\ ~Resume(c) /\ \A what : ~Return(c, what)
<1>1. ASSUME NEW what, Return(c, what) PROVE FALSE
  BY <1>1 DEF Return, Idle, Domains
<1>2. ASSUME FoldOn(c, todo, next) PROVE FALSE
  <2>1. GoOn(c, Folding(todo, next)) \/ GoOn(c, [pc |-> "run", next |-> next])
    BY <1>1, <1>2 DEF FoldOn
  <2> QED
    BY <2>1, WentOn DEF Folding, Frame
<1>3. ASSUME Resume(c) PROVE FALSE
  <2>1. task'[c] = Frame("fold", task[c].todo, task[c].next, task[c].round)
    BY <1>1, <1>3 DEF Resume, Domains
  <2> QED
    BY <2>1 DEF Frame
<1> QED
  BY <1>1, <1>2, <1>3

LEMMA NoSaveStep ==
    ASSUME SnapEvery = 0, Domains, NoSave, [Next]_vars PROVE NoSave'
<1>1. CASE Crash
  BY <1>1 DEF Crash, Idle, NoSave
<1>2. ASSUME NEW c \in Caller, Writes(c) \/ Starts(c) \/ Continues(c),
             task'[c].pc \in {"save", "state", "store"}
      PROVE  FALSE
  <2>1. /\ \A todo, next : ~FoldOn(c, todo, next)
        /\ ~Resume(c) /\ \A what : ~Return(c, what)
    BY <1>2, NotSaving
  <2>2. \A frame : GoOn(c, frame) => frame.pc \in {"save", "state", "store"}
    BY <1>2, WentOn
  <2>3. CASE Writes(c)
    BY <2>1, <2>2, <2>3 DEF Writes, Commit, CommitError, AppendRun, RunError
  <2>4. CASE Starts(c)
    BY <2>1, <2>2, <2>4 DEF Starts, Load, LoadAndDecide, Emit, StateOf, Frame
  <2>5. CASE Continues(c)
    <3>1. task[c].pc \notin {"save", "state", "store"}
      BY DEF NoSave
    <3>2. CASE FoldNext(c) \/ FoldSkips(c)
      BY <2>1, <3>2 DEF FoldNext, FoldSkips
    <3>3. CASE FoldGap(c)
      <4>1. task'[c].pc \in {"restore", "repair"}
        BY <3>3 DEF FoldGap, Frame, Domains
      <4> QED
        BY <1>2, <4>1
    <3>4. CASE RestoreRead(c)
      <4>1. PICK e : task' = [task EXCEPT ![c] =
                [pc |-> "install", todo |-> @.todo, next |-> @.next, round |-> @.round,
                 entry |-> e]]
        BY <2>1, <3>4 DEF RestoreRead
      <4>2. task'[c].pc = "install"
        BY <4>1 DEF Domains
      <4> QED
        BY <1>2, <4>2
    <3>5. CASE RestoreInstall(c)
      BY <2>1, <3>5 DEF RestoreInstall
    <3>6. CASE RepairRead(c)
      <4>1. task'[c].pc = "apply"
        BY <3>6 DEF RepairRead, Domains
      <4> QED
        BY <1>2, <4>1
    <3>7. CASE RepairRow(c)
      <4>1. task[c].pc = "apply" /\ task' = [task EXCEPT ![c].rows = @ \ {FirstOf(@)}]
        BY <2>1, <3>7 DEF RepairRow, At
      <4>2. task'[c].pc = "apply"
        BY <4>1 DEF Domains
      <4> QED
        BY <1>2, <4>2
    <3>8. CASE SaveVersion(c) \/ SaveState(c) \/ SaveStore(c)
      BY <3>1, <3>8 DEF SaveVersion, SaveState, SaveStore, At
    <3> QED
      BY <2>5, <3>2, <3>3, <3>4, <3>5, <3>6, <3>7, <3>8 DEF Continues
  <2> QED
    BY <1>2, <2>3, <2>4, <2>5
<1>3. ASSUME NEW c \in Caller, Writes(c) \/ Starts(c) \/ Continues(c) PROVE NoSave'
  <2>1. \A d \in Caller \ {c} : task'[d] = task[d]
    BY <1>3, StepAlone DEF Alone
  <2> QED
    BY <1>2, <1>3, <2>1 DEF NoSave
<1>4. CASE UNCHANGED vars
  BY <1>4 DEF vars, NoSave
<1> QED
  BY <1>1, <1>3, <1>4, Steps

\* Without snapshots (SnapEvery is 0) the registry holds folds of prefixes on any
\* runtime, however its threads interleave.
THEOREM NoSnapshotsNoTornFold ==
    ASSUME SnapEvery = 0 PROVE Spec => []FoldsArePrefixes
<1>1. Init => NoSave
  <2>1. ASSUME Init, NEW c \in Caller PROVE task[c].pc = "idle"
    BY <2>1 DEF Init, Idle
  <2> QED
    BY <2>1 DEF NoSave
<1>2. WriteInv /\ NoSave /\ [Next]_vars => NoSave'
  <2>1. WriteInv => Domains
    BY DEF WriteInv, CallsOK, Domains
  <2> QED
    BY <2>1, NoSaveStep
<1>3. NoSave => [Undisturbed]_vars
  BY DEF NoSave, Undisturbed
<1> QED
  BY <1>1, <1>2, <1>3, WriteInvHolds, OnlyTornSavesBreakFolds, PTL DEF Spec

=============================================================================
