----------------------------- MODULE RunReplay -----------------------------
(* The event log of one run, the pruning of ended runs, and its two        *)
(* readers: a realtime subscription, which reads bounds and rows in one    *)
(* transaction, and the server-sent-event replay, which reads the floor,   *)
(* the anchor and the rows one after the other.                            *)
EXTENDS Integers, FiniteSets, FiniteSetsExt

CONSTANTS
    MaxSeq,         \* bound: the last sequence number a run may reach
    Page,           \* rows read or pruned at once (256)
    MaxWork         \* bound: jobs of the thread

ASSUME RunAssumption == MaxSeq \in Nat /\ Page \in Nat \ {0} /\ MaxWork \in Nat

RunSeqs == 0..MaxSeq
Nowhere == -1       \* the cursor before the first event, and the missing floor

VARIABLES
    nextSeq,    \* the next sequence number of the stream
    done,       \* whether the last event written is the terminal one
    runRows,    \* stream_events that still exist
    old,        \* those past their retention
    runFloor,   \* run_replay_floors, or Nowhere
    busy,       \* the thread has a live job or a pending approval
    work,       \* jobs of the thread so far
    selected,   \* what a pruning pass has selected, or {}
    live,       \* realtime: where the reader is, its first cursor, its cursor
    replay,     \* server-sent events: the same, and what it has read ahead
    got         \* what each reader has handed to its client

runVars == <<nextSeq, done, runRows, old, runFloor, busy, work, selected, live, replay, got>>
stream == <<nextSeq, done, runRows, runFloor>>
readers == <<live, replay, got>>

Last == nextSeq - 1
Terminal == IF done THEN {Last} ELSE {}
Readers == {"live", "replay"}

RunTypeOK ==
    /\ nextSeq \in 0..MaxSeq + 1 /\ done \in BOOLEAN
    /\ runRows \in SUBSET (0..Last) /\ old \in SUBSET (0..Last)
    /\ runFloor \in Nowhere..Last
    /\ busy \in BOOLEAN /\ work \in 0..MaxWork
    /\ selected \in SUBSET (0..Last)
    /\ live \in [at : {"out", "in", "resync", "missing"}, from : Nowhere..Last, cursor : Nowhere..Last]
    /\ replay \in [at : {"out", "checked", "anchored", "in", "end", "resync", "missing"},
                   from : Nowhere..Last, cursor : Nowhere..Last,
                   ahead : SUBSET (0..Last), last : BOOLEAN]
    /\ got \in [Readers -> SUBSET (0..Last)]

RunInit ==
    /\ nextSeq = 0 /\ done = FALSE /\ runRows = {} /\ old = {} /\ runFloor = Nowhere
    /\ busy = FALSE /\ work = 0
    /\ selected = {}
    /\ live = [at |-> "out", from |-> Nowhere, cursor |-> Nowhere]
    /\ replay = [at |-> "out", from |-> Nowhere, cursor |-> Nowhere,
                 ahead |-> {}, last |-> FALSE]
    /\ got = [r \in Readers |-> {}]
-----------------------------------------------------------------------------
(* The run and its thread *)

\* The worker that a job started; it may still write after its job was cancelled.
Emit(terminal) ==
    /\ work > 0 /\ ~done
    /\ nextSeq < IF terminal THEN MaxSeq + 1 ELSE MaxSeq
    /\ runRows' = runRows \cup {nextSeq}
    /\ nextSeq' = nextSeq + 1
    /\ done' = terminal
    /\ UNCHANGED <<old, runFloor, busy, work, selected, readers>>

\* A job of the thread is accepted: the one that writes the stream, or a later one.
Engage ==
    /\ ~busy /\ work < MaxWork
    /\ busy' = TRUE /\ work' = work + 1
    /\ UNCHANGED <<stream, old, selected, readers>>

\* The job ends, or its approval is settled.
Rest ==
    /\ busy
    /\ busy' = FALSE
    /\ UNCHANGED <<stream, old, work, selected, readers>>

Age(s) ==
    /\ s \in runRows \ old
    /\ old' = old \cup {s}
    /\ UNCHANGED <<stream, busy, work, selected, readers>>
-----------------------------------------------------------------------------
(* prune_run_events *)

\* The terminal row goes last, so that what is left stays eligible.
Eligible ==
    IF busy \/ ~(done /\ Last \in runRows) THEN {}
    ELSE (runRows \cap old) \ (IF runRows = Terminal THEN {} ELSE Terminal)

SelectRows ==
    /\ selected = {} /\ Eligible # {}
    /\ \E v \in SUBSET Eligible :
         /\ v # {}
         /\ v = Eligible \/ Cardinality(v) = Page
         /\ Cardinality(v) <= Page
         /\ selected' = v
    /\ UNCHANGED <<stream, old, busy, work, readers>>

\* Mutation: what was selected is deleted.
Unprotected == FALSE

\* Under the lock each deletion looks for work on the thread again.
Protected == busy
DeleteSelected ==
    /\ selected # {}
    /\ LET deleted == IF Protected THEN {} ELSE selected \cap runRows
       IN  /\ runRows' = runRows \ deleted
           /\ runFloor' = Max({runFloor} \cup deleted)
    /\ selected' = {}
    /\ UNCHANGED <<nextSeq, done, old, busy, work, readers>>
-----------------------------------------------------------------------------
(* Realtime: run_after in one transaction *)

Newest(s) == IF s = {} THEN Nowhere ELSE Max(s)
\* Mutation: only the upper bound of the replay window.
AboveRun(after) == after > Newest(runRows \cup {runFloor})

OutsideRun(after) == after < runFloor \/ after > Newest(runRows \cup {runFloor})
RowsAfter(cursor, limit) ==
    LET later == {s \in runRows : s > cursor}
    IN  {s \in later : Cardinality({u \in later : u < s}) < limit}

SubscribeLive(from) ==
    /\ live.at = "out"
    /\ live' = [at |-> IF OutsideRun(from) THEN "resync" ELSE "in", from |-> from, cursor |-> from]
    /\ UNCHANGED <<stream, old, busy, work, selected, replay, got>>

PollLive ==
    /\ live.at = "in"
    /\ LET batch == RowsAfter(live.cursor, Page)
       IN  \/ /\ OutsideRun(live.cursor)
              /\ live' = [live EXCEPT !.at = "resync"]
              /\ UNCHANGED got
           \/ /\ ~OutsideRun(live.cursor) /\ batch # {}
              /\ live' = [live EXCEPT !.cursor = Max(batch)]
              /\ got' = [got EXCEPT !["live"] = @ \cup batch]
    /\ UNCHANGED <<stream, old, busy, work, selected, replay>>
-----------------------------------------------------------------------------
(* Server-sent events: three reads, then polls that look at rows only *)

\* check_retention, after a cursor or for a whole stream (Nowhere).
CheckRetention(from) ==
    /\ replay.at = "out"
    /\ replay' = [replay EXCEPT !.from = from, !.cursor = from,
                    !.at = IF runFloor # Nowhere /\ from <= runFloor THEN "resync"
                           ELSE IF from = Nowhere THEN "anchored" ELSE "checked"]
    /\ UNCHANGED <<stream, old, busy, work, selected, live, got>>

ReadAnchor ==
    /\ replay.at = "checked"
    /\ replay' = [replay EXCEPT !.at = IF @ = "checked" /\ replay.cursor \in runRows
                                       THEN "anchored" ELSE "missing",
                                !.last = replay.cursor \in Terminal \cap runRows]
    /\ UNCHANGED <<stream, old, busy, work, selected, live, got>>

ReadRows ==
    /\ replay.at = "anchored"
    /\ LET later == RowsAfter(replay.cursor, MaxSeq + 1)
       IN  replay' = [replay EXCEPT !.at = IF replay.from = Nowhere /\ later = {}
                                           THEN "missing" ELSE "in",
                                    !.ahead = later]
    /\ UNCHANGED <<stream, old, busy, work, selected, live, got>>

Hand ==
    /\ replay.at = "in" /\ replay.ahead # {}
    /\ LET s == Min(replay.ahead)
       IN  /\ replay' = [replay EXCEPT !.ahead = @ \ {s}, !.cursor = s,
                                       !.last = s \in Terminal]
           /\ got' = [got EXCEPT !["replay"] = @ \cup {s}]
    /\ UNCHANGED <<stream, old, busy, work, selected, live>>

PollReplay ==
    /\ replay.at = "in" /\ replay.ahead = {}
    /\ replay' = IF replay.last THEN [replay EXCEPT !.at = "end"]
                 ELSE [replay EXCEPT !.ahead = RowsAfter(replay.cursor, MaxSeq + 1)]
    /\ UNCHANGED <<stream, old, busy, work, selected, live, got>>
-----------------------------------------------------------------------------
Run == Emit(TRUE) \/ Emit(FALSE) \/ Rest \/ Engage \/ \E s \in RunSeqs : Age(s)
Prune == SelectRows \/ DeleteSelected
Live == PollLive \/ \E from \in Nowhere..Last : SubscribeLive(from)
Replay ==
    \/ \E from \in Nowhere..Last : CheckRetention(from)
    \/ ReadAnchor \/ ReadRows \/ Hand \/ PollReplay

RunNext == Run \/ Prune \/ Live \/ Replay

RunSpec == RunInit /\ [][RunNext]_runVars

RunFairness ==
    /\ WF_runVars(Emit(TRUE)) /\ WF_runVars(Rest)
    /\ WF_runVars(SelectRows) /\ WF_runVars(DeleteSelected)
    /\ \A s \in RunSeqs : WF_runVars(Age(s))

FairRunSpec == RunSpec /\ RunFairness
-----------------------------------------------------------------------------
Missed(r, from, cursor) == {s \in 0..Last : from < s /\ s < cursor} \ got[r]

(* A realtime subscription hands over every event between the cursor it     *)
(* began with and the one it has reached, although the run is pruned beside *)
(* it: a pruned stretch ends in a resync, never in a gap.                   *)
LiveHasNoGap == Missed("live", live.from, live.cursor) = {}

(* Pruning leaves alone what a recovery or an approval may still need: no   *)
(* row goes while the thread has a live job, also when the job began after  *)
(* the rows were selected.                                                  *)
BusyThreadIsKept == [][busy => runRows \subseteq runRows']_runVars

(* A run whose every row is past retention is reclaimed entirely; were the  *)
(* terminal row to go early the rest would stay for good.                   *)
HistoryIsReclaimed == <>[](busy \/ runRows = {})

(* The guide: "Run retention floors distinguish expired replay from a       *)
(* missing or unauthorized resource" (realtime.md).  A replay that begins   *)
(* at an event the client has been given is refused as expired, never as    *)
(* missing.                                                                 *)
ExpiredIsNotMissing == replay.at = "missing" => replay.from = Nowhere

(* The guide: "Replay bounds and rows share a read transaction so cleanup   *)
(* cannot hide a gap between them" (realtime.md).                           *)
ReplayHasNoGap == Missed("replay", replay.from, replay.cursor) = {}
=============================================================================
