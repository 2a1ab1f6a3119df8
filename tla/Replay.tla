----------------------------- MODULE Replay -----------------------------
(***************************************************************************)
(* Read models built from the Postgres log: ProjectionStream               *)
(* (causal_replay/src/stream.rs) in live and in replay mode, the pointer   *)
(* they share (pointer.rs) and the tail source that wakes a live stream    *)
(* (tail.rs), while writers append.                                        *)
(***************************************************************************)
EXTENDS PgLog

CONSTANTS Live, Replayer,         \* the streams, by mode
          Limit,                  \* batch_size
          Interval,               \* checkpoint_interval
          NoPosition, MaxCrashes, MaxReplays

Reader == Live \cup Replayer

ASSUME ReaderAssumption ==
    /\ Limit \in Nat \ {0} /\ Interval \in Nat \ {0}
    /\ Live \cap Replayer = {}

\* Nothing keeps two replays from running at once: deployments run one.
ASSUME OneReplay == \A s, r \in Replayer : s = r

VARIABLES active, staged,         \* the pointer row
          st,                     \* each stream's run
          signal,                 \* a notification is waiting for each live stream
          handed,                 \* history: positions given to apply
          crashes, replays
replayVars == <<active, staged, st, signal, handed, crashes, replays>>
vars == <<pgVars, replayVars>>

Off == [pc |-> "off", at |-> 0, batch |-> {}, count |-> 0, tailing |-> FALSE]

Init ==
    /\ PgInit
    /\ active = 0
    /\ staged = NoPosition
    /\ st = [s \in Reader |-> Off]
    /\ signal = [s \in Live |-> FALSE]
    /\ handed = {}
    /\ crashes = 0
    /\ replays = 0

Run(from) == [pc |-> "read", at |-> from, batch |-> {}, count |-> 0, tailing |-> FALSE]

\* position() and run(): a live stream continues from the promoted position, a
\* replay stages its target and starts from nothing.
Open(s) ==
    /\ st[s].pc = "off"
    /\ IF s \in Live
       THEN /\ st' = [st EXCEPT ![s] = Run(active)]
            /\ UNCHANGED <<staged, replays>>
       ELSE /\ replays < MaxReplays
            /\ replays' = replays + 1
            /\ staged' = LatestPosition
            /\ st' = [st EXCEPT ![s] = Run(0)]
    /\ UNCHANGED <<pgVars, active, signal, handed, crashes>>

\* An empty read: a replay is at the end, a live stream waits.
Read(s) ==
    LET batch == ReadAll(st[s].at, Limit)
    IN  /\ st[s].pc = "read"
        /\ st' = [st EXCEPT ![s].batch = batch,
                            ![s].pc = IF batch # {} THEN "apply"
                                      ELSE IF s \in Live THEN "wait" ELSE "finish",
                            ![s].tailing = @ \/ batch = {}]
        /\ UNCHANGED <<pgVars, active, staged, signal, handed, crashes, replays>>

Lowest(row, rows) == row \in rows /\ \A other \in rows : row.pos <= other.pos

Advanced(s, row) ==
    LET rest == st[s].batch \ {row}
    IN  [st EXCEPT ![s].at = row.pos, ![s].count = (@ + 1) % Interval,
                   ![s].batch = rest,
                   ![s].pc = IF rest # {} THEN "apply"
                             ELSE IF s \in Live THEN "save" ELSE "read"]

\* The pointer is saved for the batch before it is applied.
WrongApply(s) ==
    \E row, last \in st[s].batch :
        /\ st[s].pc = "apply"
        /\ Lowest(row, st[s].batch)
        /\ \A other \in st[s].batch : other.pos <= last.pos
        /\ handed' = handed \cup {row.pos}
        /\ st' = Advanced(s, row)
        /\ active' = IF s \in Live THEN last.pos ELSE active
        /\ UNCHANGED <<pgVars, staged, signal, crashes, replays>>

\* The next row is applied.  A live stream skips a row it fails on; a replay
\* (Stops) ends there.  A replay stages its progress every Interval rows.
Apply(s) ==
    \E row \in st[s].batch :
        /\ st[s].pc = "apply"
        /\ Lowest(row, st[s].batch)
        /\ handed' = handed \cup {row.pos}
        /\ st' = Advanced(s, row)
        /\ staged' = IF s \in Replayer /\ (st[s].count + 1) % Interval = 0
                     THEN row.pos ELSE staged
        /\ UNCHANGED <<pgVars, active, signal, crashes, replays>>

Save(s) ==
    /\ st[s].pc = "save"
    /\ active' = st[s].at
    /\ st' = [st EXCEPT ![s].pc = IF st[s].tailing THEN "wait" ELSE "read"]
    /\ UNCHANGED <<pgVars, staged, signal, handed, crashes, replays>>

\* Only the notification wakes the stream.
WrongWake(s) ==
    /\ st[s].pc = "wait"
    /\ signal[s]
    /\ signal' = [signal EXCEPT ![s] = FALSE]
    /\ st' = [st EXCEPT ![s].pc = "read"]
    /\ UNCHANGED <<pgVars, active, staged, handed, crashes, replays>>

\* The notification or the poll interval.
Wake(s) ==
    /\ st[s].pc = "wait"
    /\ signal' = [signal EXCEPT ![s] = FALSE]
    /\ st' = [st EXCEPT ![s].pc = "read"]
    /\ UNCHANGED <<pgVars, active, staged, handed, crashes, replays>>

\* finish_replay: the final position is staged, then the gate decides.
Finish(s) ==
    /\ st[s].pc = "finish"
    /\ staged' = st[s].at
    /\ st' = [st EXCEPT ![s].pc = "promote"]
    /\ UNCHANGED <<pgVars, active, signal, handed, crashes, replays>>

Promote(s) ==
    /\ st[s].pc = "promote"
    /\ \/ /\ staged # NoPosition
          /\ active' = staged
          /\ staged' = NoPosition
       \/ UNCHANGED <<active, staged>>      \* the gate refuses, nothing is staged
    /\ st' = [st EXCEPT ![s] = Off]
    /\ UNCHANGED <<pgVars, signal, handed, crashes, replays>>

\* A replay fails on a row, a call of any stream fails, or its process dies.
Stops(s) ==
    /\ st[s].pc # "off"
    /\ crashes < MaxCrashes
    /\ crashes' = crashes + 1
    /\ st' = [st EXCEPT ![s] = Off]
    /\ UNCHANGED <<pgVars, active, staged, signal, handed, replays>>

\* A commit notifies the live streams, unless the notification is lost.
Notifies ==
    \E T \in SUBSET Live : signal' = [s \in Live |-> signal[s] \/ s \in T]

Next ==
    \/ \E w \in Writer :
         \/ \E b \in Batch : Begin(w, b) /\ UNCHANGED replayVars
         \/ Insert(w) /\ UNCHANGED replayVars
         \/ Commit(w) /\ Notifies
                      /\ UNCHANGED <<active, staged, st, handed, crashes, replays>>
         \/ Abort(w) /\ UNCHANGED replayVars
    \/ \E s \in Reader :
         \/ Open(s) \/ Read(s) \/ Apply(s) \/ Save(s) \/ Wake(s)
         \/ Finish(s) \/ Promote(s) \/ Stops(s)

Spec == Init /\ [][Next]_vars

\* A live stream is a loop the process runs and its orchestrator restarts; its
\* waits end at the poll interval.
FairSpec ==
    Spec /\ \A s \in Live :
        WF_vars(Open(s) \/ Read(s) \/ Apply(s) \/ Save(s) \/ Wake(s))

-----------------------------------------------------------------------------
(* Properties.                                                              *)

\* No stream's position and no promoted position lies past a committed row that
\* was never given to apply: a row that commits late never appears behind a
\* reader, and a pointer is written only for rows already applied.
NothingPassed ==
    \A p \in Positions \ handed :
        /\ active < p
        /\ \A s \in Reader : st[s].pc # "off" => st[s].at < p

\* Every live stream gets past every committed row, though notifications are
\* lost, streams die and a replay promotes in between.
EventuallyRead ==
    \A s \in Live, p \in 1 .. MaxSeq :
        p \in Positions ~> st[s].pc # "off" /\ st[s].at >= p
=============================================================================
