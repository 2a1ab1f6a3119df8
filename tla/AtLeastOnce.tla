----------------------------- MODULE AtLeastOnce -----------------------------
(***************************************************************************)
(* What a consumer's cursor promises: a log that grows, triggers that get  *)
(* delivered in whatever order, any number of times, and a cursor that     *)
(* only moves forward and never past a trigger that is neither delivered   *)
(* nor excused.                                                            *)
(***************************************************************************)
EXTENDS Naturals

CONSTANTS Triggers, MaxLog

VARIABLES length, cursor, delivered, excused

vars == <<length, cursor, delivered, excused>>

Init == length = 0 /\ cursor = 0 /\ delivered = {} /\ excused = {}

\* The next event; when it is a cancel, triggers may become excused.
Grow ==
    /\ length < MaxLog
    /\ length' = length + 1
    /\ excused \subseteq excused' /\ excused' \subseteq Triggers
    /\ UNCHANGED <<cursor, delivered>>

Deliver ==
    /\ \E p \in Triggers : p <= length /\ delivered' = delivered \cup {p}
    /\ UNCHANGED <<length, cursor, excused>>

Move ==
    /\ cursor' \in cursor + 1 .. length
    /\ \A p \in Triggers : p <= cursor' => p \in delivered \cup excused
    /\ UNCHANGED <<length, delivered, excused>>

Next == Grow \/ Deliver \/ Move

Spec == Init /\ [][Next]_vars
=============================================================================
