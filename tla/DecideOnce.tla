------------------------------ MODULE DecideOnce ------------------------------
(***************************************************************************)
(* What decision_store.rs promises about a reactor, without runners,       *)
(* crashes, retries or a store: each trigger gets at most one outcome, its *)
(* batch becomes visible in the log row by row, in the batch's order, and  *)
(* the consumer's cursor passes a trigger only when an outcome promised    *)
(* for it is visible in full.  An outcome decided after the workflow was   *)
(* withdrawn (cancelled) is no promise: the cursor may already have passed *)
(* its trigger.                                                            *)
(***************************************************************************)
EXTENDS Naturals, Sequences

CONSTANTS NTriggers,   \* triggers are the positions 1..NTriggers
          Outcome,     \* records with a field outs, the batch
          NoOutcome

VARIABLES outcome,     \* the decision about each trigger
          visible,     \* the rows of each trigger that are in the log
          retired,     \* the cursor: triggers at or below it are done with
          withdrawn,   \* the workflow is cancelled
          promised     \* triggers decided before it was

vars == <<outcome, visible, retired, withdrawn, promised>>

FirstRows(o, n) == {o.outs[i] : i \in 1 .. n}

Shown(t) == visible[t] = FirstRows(outcome[t], Len(outcome[t].outs))

Init ==
    /\ outcome = [t \in 1 .. NTriggers |-> NoOutcome]
    /\ visible = [t \in 1 .. NTriggers |-> {}]
    /\ retired = 0
    /\ withdrawn = FALSE
    /\ promised = {}

\* The outcome of t is fixed, once.
Decide(t) ==
    /\ outcome[t] = NoOutcome
    /\ outcome'[t] \in Outcome
    /\ outcome' = [outcome EXCEPT ![t] = outcome'[t]]
    /\ promised' = IF withdrawn THEN promised ELSE promised \cup {t}
    /\ UNCHANGED <<visible, retired, withdrawn>>

\* The next row of t's batch enters the log.
Show(t) ==
    /\ outcome[t] # NoOutcome
    /\ \E n \in 1 .. Len(outcome[t].outs) :
          /\ visible[t] = FirstRows(outcome[t], n - 1)
          /\ visible' = [visible EXCEPT ![t] = FirstRows(outcome[t], n)]
    /\ UNCHANGED <<outcome, retired, withdrawn, promised>>

\* The cursor moves past triggers whose promised outcomes are all visible.
Retire ==
    /\ retired' \in retired + 1 .. NTriggers
    /\ \A t \in 1 .. retired' : t \in promised => Shown(t)
    /\ UNCHANGED <<outcome, visible, withdrawn, promised>>

Withdraw ==
    /\ ~withdrawn
    /\ withdrawn' = TRUE
    /\ UNCHANGED <<outcome, visible, retired, promised>>

Next ==
    \/ \E t \in 1 .. NTriggers : Decide(t) \/ Show(t)
    \/ Retire
    \/ Withdraw

Spec == Init /\ [][Next]_vars
=============================================================================
