---------------------------- MODULE AccountFeed ----------------------------
(* The durable event log of one account, its pruning, the workspace        *)
(* invalidation intents, and one client that follows the log.  The log is  *)
(* account_events with its counters, written by triggers in the            *)
(* transaction that changes a resource; files change outside of SQLite, so *)
(* an intent row is there before the change and its deletion is the event. *)
EXTENDS Integers, Sequences, FiniteSets, FiniteSetsExt

CONSTANTS
    Rows,           \* resources kept in SQLite
    Files,          \* workspaces, whose content is not
    Requests,       \* HTTP requests that change workspaces
    Target,         \* the workspace each of them changes
    Keep,           \* events kept whatever their age (100,000)
    Batch,          \* rows read by one poll or pruned by one pass (256)
    MaxEvents,      \* bound: events of the account
    MaxBreaks       \* bound: lost connections and server stops

ASSUME ConstantsAssumption ==
    /\ Rows \cap Files = {}
    /\ IsFiniteSet(Requests) /\ Target \in [Requests -> Files]
    /\ Keep \in Nat /\ Batch \in Nat \ {0}
    /\ MaxEvents \in Nat /\ MaxBreaks \in Nat

Resources == Rows \cup Files
Seqs == 1..MaxEvents
NoFeed == -1

VARIABLES
    kind,       \* the resource of every event written so far, by sequence number
    kept,       \* sequence numbers that still have a row
    expired,    \* those older than seven days
    floor,      \* retained_after
    victims,    \* what a pruning pass has selected, or {}
    intents,    \* workspace_event_intents, by request, and who is to settle it
    behind,     \* resources that changed since the client last read them
    stale,      \* what the client knows it must fetch again
    cursor,     \* the client's cursor
    client,     \* whether the client is open, must take a snapshot, waits for it, or follows
    reply,      \* the snapshot under way: its cursor, and what changed after it
    feed,       \* the server's subscription: its own cursor, or NoFeed
    wire,       \* frames sent and not handled yet
    breaks

log == <<kind, kept, expired, floor>>
prune == <<victims>>
view == <<behind, stale, cursor, client, reply>>
connection == <<feed, wire>>
vars == <<log, prune, intents, view, connection, breaks>>

High == Len(kind)
Snapshot == [cursor : 0..MaxEvents, outdated : SUBSET Resources]
Frame == [resync : BOOLEAN, events : SUBSET Seqs]

TypeOK ==
    /\ kind \in Seq(Resources) /\ High <= MaxEvents
    /\ kept \in SUBSET (1..High) /\ expired \in SUBSET (1..High)
    /\ floor \in 0..High
    /\ victims \in SUBSET (1..High)
    /\ intents \in [Requests -> {"none", "handler", "task", "startup"}]
    /\ behind \in SUBSET Resources /\ stale \in SUBSET Resources
    /\ cursor \in 0..High
    /\ client \in {"closed", "start", "asking", "live"}
    /\ reply \in SUBSET Snapshot /\ (reply # {} => client = "asking")
    /\ feed \in NoFeed..High
    /\ wire \in Seq(Frame)
    /\ breaks \in 0..MaxBreaks

Init ==
    /\ kind = << >> /\ kept = {} /\ expired = {} /\ floor = 0
    /\ victims = {}
    /\ intents = [q \in Requests |-> "none"]
    /\ behind = {} /\ stale = {} /\ cursor = 0
    /\ client = "closed" /\ reply = {}
    /\ feed = NoFeed /\ wire = << >>
    /\ breaks = 0
-----------------------------------------------------------------------------
(* Writers *)

\* The trigger's two statements: the counter goes up and the row takes its value.
Publish(r) ==
    /\ High < MaxEvents
    /\ kind' = Append(kind, r)
    /\ kept' = kept \cup {High + 1}
    /\ UNCHANGED <<expired, floor>>

Change(r) ==
    /\ behind' = behind \cup {r}
    /\ reply' = {[s EXCEPT !.outdated = @ \cup {r}] : s \in reply}

WriteRow(r) ==
    /\ Change(r)
    /\ Publish(r)
    /\ UNCHANGED <<prune, intents, stale, cursor, client, connection, breaks>>

\* track: the intent is inserted before the handler runs.
OpenIntent(q) ==
    /\ intents[q] = "none"
    /\ intents' = [intents EXCEPT ![q] = "handler"]
    /\ UNCHANGED <<log, prune, view, connection, breaks>>

ChangeFile(q) ==
    /\ intents[q] = "handler"
    /\ Change(Target[q])
    /\ UNCHANGED <<log, prune, intents, stale, cursor, client, connection, breaks>>

\* The deletion after the response, or the one Drop spawns.
SettleIntent(q) ==
    /\ intents[q] \in {"handler", "task"}
    /\ Publish(Target[q])
    /\ intents' = [intents EXCEPT ![q] = "none"]
    /\ UNCHANGED <<prune, view, connection, breaks>>

\* The request is cancelled, or its deletion fails: Drop spawns a task.
DropIntent(q) ==
    /\ intents[q] = "handler"
    /\ intents' = [intents EXCEPT ![q] = "task"]
    /\ UNCHANGED <<log, prune, view, connection, breaks>>

\* The task's deletion fails as well; it is logged and nothing retries it.
LeaveIntent(q) ==
    /\ intents[q] = "task"
    /\ intents' = [intents EXCEPT ![q] = "startup"]
    /\ UNCHANGED <<log, prune, view, connection, breaks>>

\* recover: one DELETE, so one event for every intent left.
Left == {q \in Requests : intents[q] # "none"}
RestartServer ==
    /\ breaks < MaxBreaks /\ breaks' = breaks + 1
    /\ High + Cardinality(Left) <= MaxEvents
    /\ \E order \in [1..Cardinality(Left) -> Left] :
         /\ \A q \in Left : \E i \in DOMAIN order : order[i] = q
         /\ kind' = kind \o [i \in DOMAIN order |-> Target[order[i]]]
    /\ kept' = kept \cup (High + 1)..(High + Cardinality(Left))
    /\ intents' = [q \in Requests |-> "none"]
    /\ victims' = {} /\ feed' = NoFeed /\ wire' = << >> /\ reply' = {}
    /\ client' = IF client = "asking" THEN "start" ELSE client
    /\ UNCHANGED <<expired, floor, behind, stale, cursor>>
-----------------------------------------------------------------------------
(* Pruning *)

Larger(a, b) == IF a > b THEN a ELSE b
Threshold == Larger(floor, High - Keep)
Surplus == {s \in kept : s <= Threshold}

\* Clocks may step back, so age does not follow the sequence.
Expire(s) ==
    /\ s \in kept \ expired
    /\ expired' = expired \cup {s}
    /\ UNCHANGED <<kind, kept, floor, prune, intents, view, connection, breaks>>

\* Selected without the writer: a full batch of the surplus, else of the old.
SelectVictims ==
    /\ victims = {}
    /\ LET pool == IF Surplus # {} THEN Surplus ELSE kept \cap expired
       IN  \E v \in SUBSET pool :
             /\ v # {}
             /\ v = pool \/ Cardinality(v) = Batch
             /\ Cardinality(v) <= Batch
             /\ victims' = v
    /\ UNCHANGED <<log, intents, view, connection, breaks>>

\* Rechecked under the lock; the floor moves in the same transaction.
FloorAfter(deleted) == Larger(floor, IF deleted = {} THEN 0 ELSE Max(deleted))
DeleteVictims ==
    /\ victims # {}
    /\ LET deleted == {s \in victims \cap kept : s \in expired \/ s <= Threshold}
       IN  /\ kept' = kept \ deleted
           /\ floor' = FloorAfter(deleted)
    /\ victims' = {}
    /\ UNCHANGED <<kind, expired, intents, view, connection, breaks>>
-----------------------------------------------------------------------------
(* The client *)

OpenClient ==
    /\ client = "closed"
    /\ client' = "start"
    /\ UNCHANGED <<log, prune, intents, behind, stale, cursor, reply, connection, breaks>>

\* Mutation: the watermark is read after the resource data.
ReadSnapshotLate == [cursor |-> IF High = MaxEvents THEN High ELSE High + 1,
                     outdated |-> {}]

\* account::snapshot: watermark and rows from one read transaction.
ReadSnapshot == [cursor |-> High, outdated |-> {}]
TakeSnapshot ==
    /\ client = "start"
    /\ client' = "asking"
    /\ reply' = {ReadSnapshot}
    /\ UNCHANGED <<log, prune, intents, behind, stale, cursor, connection, breaks>>

\* Rows are shown from the snapshot; mounted queries of files are fetched again.
ApplySnapshot ==
    /\ client = "asking" /\ reply # {}
    /\ \E s \in reply :
         /\ cursor' = s.cursor
         /\ behind' = (behind \cap Files) \cup (s.outdated \cap Rows)
    /\ stale' = Files
    /\ client' = "live"
    /\ reply' = {}
    /\ feed' = NoFeed /\ wire' = << >>
    /\ UNCHANGED <<log, prune, intents, breaks>>

LoseSnapshot ==
    /\ breaks < MaxBreaks /\ breaks' = breaks + 1
    /\ client = "asking"
    /\ client' = "start"
    /\ reply' = {}
    /\ UNCHANGED <<log, prune, intents, behind, stale, cursor, connection>>

Fetch(r) ==
    /\ r \in stale
    /\ behind' = behind \ {r}
    /\ stale' = stale \ {r}
    /\ UNCHANGED <<log, prune, intents, cursor, client, reply, connection, breaks>>
-----------------------------------------------------------------------------
(* The connection *)

\* Mutation: only the upper bound of the replay window.
OutsideAbove(after) == after > High

\* events_after: bounds and rows from one read transaction.
Outside(after) == after < floor \/ after > High
After(after) ==
    LET later == {s \in kept : s > after}
    IN  {s \in later : Cardinality({u \in later : u < s}) < Batch}

\* A (re)connected client subscribes from its own cursor; a refusal makes it start over.
Subscribe ==
    /\ client = "live" /\ feed = NoFeed /\ wire = << >>
    /\ IF Outside(cursor)
       THEN client' = "start" /\ UNCHANGED feed
       ELSE feed' = cursor /\ UNCHANGED client
    /\ UNCHANGED <<log, prune, intents, behind, stale, cursor, reply, wire, breaks>>

\* One tick of the connection: one frame for what is new, or a resync and the end.
Poll ==
    /\ feed # NoFeed
    /\ \/ /\ Outside(feed)
          /\ wire' = Append(wire, [resync |-> TRUE, events |-> {}])
          /\ feed' = NoFeed
       \/ /\ ~Outside(feed) /\ After(feed) # {}
          /\ wire' = Append(wire, [resync |-> FALSE, events |-> After(feed)])
          /\ feed' = Max(After(feed))
    /\ UNCHANGED <<log, prune, intents, view, breaks>>

Fresh(frame) == {s \in frame.events : s > cursor}
HandleEvents ==
    /\ client = "live" /\ wire # << >> /\ ~Head(wire).resync
    /\ LET fresh == Fresh(Head(wire))
       IN  /\ stale' = stale \cup {kind[s] : s \in fresh}
           /\ cursor' = IF fresh = {} THEN cursor ELSE Max(fresh)
    /\ wire' = Tail(wire)
    /\ UNCHANGED <<log, prune, intents, behind, client, reply, feed, breaks>>

HandleResync ==
    /\ client = "live" /\ wire # << >> /\ Head(wire).resync
    /\ client' = "start"
    /\ feed' = NoFeed /\ wire' = << >>
    /\ UNCHANGED <<log, prune, intents, behind, stale, cursor, reply, breaks>>

LoseConnection ==
    /\ breaks < MaxBreaks /\ breaks' = breaks + 1
    /\ feed # NoFeed \/ wire # << >>
    /\ feed' = NoFeed /\ wire' = << >>
    /\ UNCHANGED <<log, prune, intents, view>>
-----------------------------------------------------------------------------
Writers ==
    \/ \E r \in Rows : WriteRow(r)
    \/ \E q \in Requests : OpenIntent(q) \/ ChangeFile(q) \/ SettleIntent(q)
                           \/ DropIntent(q) \/ LeaveIntent(q)
Pruning ==
    \/ \E s \in Seqs : Expire(s)
    \/ SelectVictims \/ DeleteVictims
Client ==
    \/ OpenClient \/ TakeSnapshot \/ ApplySnapshot \/ LoseSnapshot
    \/ \E r \in Resources : Fetch(r)
Connection ==
    \/ Subscribe \/ Poll \/ HandleEvents \/ HandleResync \/ LoseConnection

Next == Writers \/ Pruning \/ Client \/ Connection \/ RestartServer

Spec == Init /\ [][Next]_vars

Fairness ==
    /\ \A q \in Requests : WF_vars(SettleIntent(q))
    /\ WF_vars(DeleteVictims)
    /\ WF_vars(TakeSnapshot) /\ WF_vars(ApplySnapshot)
    /\ \A r \in Resources : WF_vars(Fetch(r))
    /\ WF_vars(Subscribe) /\ WF_vars(Poll)
    /\ WF_vars(HandleEvents) /\ WF_vars(HandleResync)

FairSpec == Spec /\ Fairness
-----------------------------------------------------------------------------
(* The replay window has no gaps: every event after the floor still has     *)
(* its row, whatever two pruning steps and the writers do in between        *)
(* (account.rs: the replay floor and deletion must commit atomically).      *)
WindowIsWhole == (floor + 1)..High \subseteq kept

(* A client that follows never misses a change: what it shows is current,   *)
(* or it knows that it must fetch, or an event it has not handled yet will  *)
(* tell it, or the change is in a file whose intent is still open.  An      *)
(* event is still to come only if replay from the cursor can deliver it or  *)
(* will be refused.                                                         *)
ToldLater(r) ==
    \/ \E s \in (cursor + 1)..High : kind[s] = r /\ (s \in kept \/ cursor < floor)
    \/ \E q \in Requests : intents[q] # "none" /\ Target[q] = r
NothingMissed ==
    client = "live" =>
      \A r \in behind : r \in stale \/ ToldLater(r)

(* Once changes end, a client that is open comes to show every resource as it *)
(* is, however often it was cut off and whatever was pruned meanwhile.      *)
(* Files whose intent only the next start can settle are excepted.          *)
Abandoned(r) == \E q \in Requests : intents[q] # "none" /\ Target[q] = r
ClientCatchesUp ==
    <>[](client = "closed" \/ \A r \in behind : Abandoned(r))
=============================================================================
