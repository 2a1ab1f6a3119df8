------------------------------ MODULE MC_Settle ------------------------------
(* Small instances of Settle for TLC. *)
EXTENDS Settle, TLC

CONSTANTS ra, rb, pj,        \* two reactors in a chain and a projector
          w1, w2, w3,        \* workflows
          a, b, z,           \* kinds: a triggers ra, its output b triggers rb
          c1, c2, c3

Chain == (ra :> a) @@ (rb :> b)
\* rb ends the chain.
ShortChain == (ra :> b) @@ (rb :> NoKind)

\* The reactor at the end of the chain is asked first: the worst order.
BackToFront == <<rb, pj, ra>>

TwoWorkflows ==
    (c1 :> [wf |-> w1, kind |-> a, settled |-> TRUE]) @@
    (c2 :> [wf |-> w2, kind |-> a, settled |-> TRUE])

\* A fact is emitted into a workflow without waiting, then a second one into
\* the same workflow by a caller that does.
SameWorkflowLater ==
    (c1 :> [wf |-> w1, kind |-> a, settled |-> FALSE]) @@
    (c2 :> [wf |-> w1, kind |-> a, settled |-> TRUE])

\* Two callers wait on the same workflow while a third emits elsewhere.
SameWorkflowTwice ==
    (c1 :> [wf |-> w1, kind |-> a, settled |-> TRUE]) @@
    (c2 :> [wf |-> w1, kind |-> a, settled |-> TRUE]) @@
    (c3 :> [wf |-> w2, kind |-> a, settled |-> FALSE])

\* A single reactor.
Alone == <<ra>>
JustA == ra :> a
AtoB == ra :> b

\* One caller waits; the others emit into workflows of their own.
OneWaits ==
    (c1 :> [wf |-> w1, kind |-> a, settled |-> TRUE]) @@
    (c2 :> [wf |-> w2, kind |-> a, settled |-> FALSE]) @@
    (c3 :> [wf |-> w3, kind |-> a, settled |-> FALSE])

\* One of them only ever fails transiently: its trigger and one acked behind it
\* fill a window of two, and what comes after them is not ingested.
StuckElsewhere == {<<ra, w2>>}

\* A reactor before a projector.
ReactorFirst == <<ra, pj>>
=============================================================================
