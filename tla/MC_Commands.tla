-------------------------- MODULE MC_Commands --------------------------
(* Small instances of Commands. *)
EXTENDS Commands, TLC

CONSTANTS s1, s2, a1, e1, e2, q1, f, g, h

In(s, k) == [stream |-> s, kind |-> k]

\* A command that may call again after an error; an emit whose first run shares
\* the command's stream and whose second holds a fact of a category that may be
\* OCC-only; an emit with a supplied id, redelivered after an error; a reader.
MCPlan ==
    (a1 :> <<In(s1, f)>>)
    @@ (e1 :> <<In(s1, g), In(s1, f), In(s2, h)>>)
    @@ (e2 :> <<In(s1, f)>>) @@ (q1 :> <<>>)

MCCalls == (a1 :> 2) @@ (e1 :> 1) @@ (e2 :> 2) @@ (q1 :> 1)
=============================================================================
