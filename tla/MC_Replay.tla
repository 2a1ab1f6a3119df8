----------------------------- MODULE MC_Replay -----------------------------
(* Small instances of Replay for TLC. *)
EXTENDS Replay, TLC

CONSTANTS w1, w2, lv, rp, s1, s2, ia, ib, ic, iid, m

Event(key) == [id |-> key, body |-> m]

\* A batch that is redelivered whatever the head, one of two rows that expects
\* a new stream, and one that expects a revision.
MCBatch ==
    {[stream |-> s1, expected |-> [kind |-> "any"], events |-> <<Event(ia)>>],
     [stream |-> s2, expected |-> [kind |-> "no_stream"], events |-> <<Event(ib), Event(ic)>>],
     [stream |-> s1, expected |-> [kind |-> "at", rev |-> 0], events |-> <<Event(iid)>>]}
=============================================================================
