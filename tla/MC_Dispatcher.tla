---------------------------- MODULE MC_Dispatcher ----------------------------
(* Small instances of Dispatcher for TLC. *)
EXTENDS Dispatcher, TLC

CONSTANTS k1, k2, w1, w2, p1, p2

\* Two triggers of one partition, then one of another.
TwoPartitions == [p \in Triggers |-> IF p <= 2 THEN k1 ELSE k2]
TwoWorkflows == [p \in Triggers |-> IF p % 2 = 1 THEN w1 ELSE w2]
NoCancels == [p \in Position |-> NoWf]

\* A trigger, the cancel of its workflow, and another trigger of it.
AroundCancel == [p \in Triggers |-> k1]
OneWorkflow == [p \in Triggers |-> w1]
CancelAt2 == [p \in Position |-> IF p = 2 THEN w1 ELSE NoWf]
=============================================================================
