----------------------------- MODULE MC_KurrentLog -----------------------------
(* Small instances of KurrentLog for TLC. *)
EXTENDS KurrentLog, TLC

CONSTANTS c1, c2, ia, ib, iid, m, n

Event(key, body) == [id |-> key, body |-> body]

\* A batch of two that is redelivered, the same decided differently, one that
\* overlaps it, and one that expects the stream to hold one row.
MCBatch ==
    {[events |-> <<Event(ia, m), Event(ib, m)>>, want |-> AnyHead],
     [events |-> <<Event(ia, m), Event(ib, n)>>, want |-> AnyHead],
     [events |-> <<Event(ib, m)>>, want |-> AnyHead],
     [events |-> <<Event(iid, m)>>, want |-> 1]}

MCSymmetry == Permutations(Caller)
=============================================================================
