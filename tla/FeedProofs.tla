------------------------------ MODULE FeedProofs ------------------------------
(***************************************************************************)
(* Theorems about AccountFeed, for any resources, requests, limits and     *)
(* bounds, and about RunReplay, for any page and bounds.                   *)
(*                                                                         *)
(* A frame shows only the events the server's own cursor had reached, and  *)
(* a snapshot only its watermark.  So that nothing is missed when either   *)
(* is applied late, the frames under way must leave no gap behind the      *)
(* client's cursor (FramesFollow), and what changed after a watermark must *)
(* have an event that replay from it delivers or refuses (RepliesCover).   *)
(* A run's subscription needs that every event beyond the floor still has  *)
(* its row (Unpruned), so the floor moves together with the deletion.       *)
(***************************************************************************)
EXTENDS AccountFeed, RunReplay, TLAPS, FiniteSetTheorems, SequenceTheorems, WellFoundedInduction

\* Replay from cursor c delivers an event of r, or is refused.
Covered(r, c) ==
    \E e \in (c + 1)..High : kind[e] = r /\ (e \in kept \/ c < floor)

\* Only a client that follows has a connection, and frames show past events.
Connected ==
    /\ client # "live" => feed = NoFeed /\ wire = << >>
    /\ \A i \in 1..Len(wire) : wire[i].events \subseteq 1..High

\* Every event between the client's cursor and one under way is under way in
\* the same frame or an earlier one; so is all up to the server's cursor.
FramesFollow ==
    /\ \A i \in 1..Len(wire) : \A s \in wire[i].events : \A t \in (cursor + 1)..s :
         \E j \in 1..i : t \in wire[j].events
    /\ \A t \in (cursor + 1)..feed : \E j \in 1..Len(wire) : t \in wire[j].events

\* What changed in SQLite after a watermark has an event after it.
RepliesCover ==
    \A s \in reply :
      s.cursor <= High /\ \A r \in s.outdated \cap Rows : Covered(r, s.cursor)

Inv ==
    /\ TypeOK /\ WindowIsWhole
    /\ Connected /\ FramesFollow /\ RepliesCover
    /\ NothingMissed

-----------------------------------------------------------------------------
(* Operators                                                               *)

\* The last of a set of events is one of them, and no other is after it.
LEMMA MaxIsMember ==
    ASSUME NEW n \in Nat, NEW S \in SUBSET (1..n), S # {}
    PROVE  Max(S) \in S /\ \A y \in S : y <= Max(S)
<1> DEFINE R == {p \in Nat \X Nat : p[1] < p[2]}
           D == {n - y : y \in S}
<1>1. IsWellFoundedOn(R, Nat)
  BY NatLessThanWellFounded DEF OpToRel
<1> HIDE DEF R
<1>2. D \subseteq Nat /\ D # {}
  <2>1. \A y \in S : n - y \in Nat
    OBVIOUS
  <2>2. D # {}
    <3>1. PICK y \in S : TRUE
      OBVIOUS
    <3>2. n - y \in D
      BY <3>1
    <3> QED
      BY <3>2
  <2> QED
    BY <2>1, <2>2
<1>3. PICK d \in D : \A y \in D : ~(<<y, d>> \in R)
  <2> HIDE DEF D
  <2> QED
    BY <1>1, <1>2, WFMin
<1>4. PICK x \in S : d = n - x
  OBVIOUS
<1>5. ASSUME NEW y \in S PROVE x >= y
  <2>1. n - y \in D /\ n - y \in Nat /\ n - x \in Nat
    BY <1>4
  <2>2. n - y < n - x => <<n - y, n - x>> \in R
    BY <2>1 DEF R
  <2> QED
    BY <1>3, <1>4, <2>1, <2>2
<1>6. \E z \in S : \A y \in S : z >= y
  BY <1>5
<1>7. Max(S) \in S /\ \A y \in S : Max(S) >= y
  BY <1>6 DEF Max
<1> QED
  BY <1>7

\* The rows of a batch are kept events after the cursor, and a kept event
\* after the cursor that is before one of them is one of them too.
LEMMA BatchHasNoGap ==
    ASSUME TypeOK, NEW c \in Nat
    PROVE  /\ After(c) \in SUBSET kept
           /\ \A s \in After(c) : s > c
           /\ \A s \in After(c) : \A t \in kept :
                c < t /\ t <= s => t \in After(c)
<1> DEFINE later == {s \in kept : s > c}
           before(s) == {u \in later : u < s}
<1>1. kept \in SUBSET (1..High) /\ High \in Nat
  BY LenProperties DEF TypeOK, High
<1>2. After(c) = {s \in later : Cardinality(before(s)) < Batch}
  BY DEF After
<1>3. ASSUME NEW s \in After(c), NEW t \in kept, c < t, t <= s
      PROVE  t \in After(c)
  <2>1. before(t) \in SUBSET before(s) /\ before(s) \in SUBSET (1..High)
    <3>1. s \in later /\ \A u \in later : u \in 1..High
      BY <1>1, <1>2, <1>3
    <3>2. \A u \in later : u < t => u < s
      BY <1>1, <1>3, <3>1
    <3> QED
      BY <3>1, <3>2
  <2>2. IsFiniteSet(1..High)
    BY <1>1, FS_Interval
  <2>3. IsFiniteSet(before(s))
    BY <2>1, <2>2, FS_Subset
  <2>4. Cardinality(before(t)) <= Cardinality(before(s)) /\ IsFiniteSet(before(t))
    BY <2>1, <2>3, FS_Subset
  <2>5. Cardinality(before(t)) \in Nat /\ Cardinality(before(s)) \in Nat
    BY <2>3, <2>4, FS_CardinalityType
  <2>6. Cardinality(before(s)) < Batch /\ t \in later
    BY <1>2, <1>3
  <2>7. Cardinality(before(t)) < Batch
    BY <2>4, <2>5, <2>6, ConstantsAssumption
  <2> QED
    BY <1>2, <2>6, <2>7
<1> QED
  BY <1>1, <1>2, <1>3

\* The next event extends the log by one of its resource.
LEMMA PublishedLog ==
    ASSUME TypeOK, NEW r \in Resources, Publish(r)
    PROVE  /\ kind' \in Seq(Resources) /\ High' = High + 1 /\ High' <= MaxEvents
           /\ \A e \in 1..High : kind'[e] = kind[e]
           /\ kind'[High + 1] = r
           /\ kept' = kept \cup {High + 1}
           /\ expired' = expired /\ floor' = floor
<1>1. kind \in Seq(Resources) /\ High \in Nat
  BY LenProperties DEF TypeOK, High
<1>2. High < MaxEvents /\ kind' = Append(kind, r)
  BY DEF Publish
<1> QED
  BY <1>1, <1>2, AppendProperties, ConstantsAssumption DEF Publish, High

\* A start writes an event for every intent that was left, and only those.
LEMMA RestartedLog ==
    ASSUME TypeOK, RestartServer
    PROVE  /\ kind' \in Seq(Resources) /\ High' \in Nat /\ High' <= MaxEvents
           /\ High <= High'
           /\ \A e \in 1..High : kind'[e] = kind[e]
           /\ \A q \in Left : \E e \in (High + 1)..High' : kind'[e] = Target[q]
           /\ kept' = kept \cup (High + 1)..High'
           /\ expired' = expired /\ floor' = floor
<1> DEFINE n == Cardinality(Left)
<1>1. kind \in Seq(Resources) /\ High \in Nat
  BY LenProperties DEF TypeOK, High
<1>2. n \in Nat
  <2>1. Left \in SUBSET Requests
    BY DEF Left
  <2>2. IsFiniteSet(Left)
    BY <2>1, ConstantsAssumption, FS_Subset
  <2> QED
    BY <2>2, FS_CardinalityType
<1> HIDE DEF n
<1>3. PICK order \in [1..n -> Left] :
         /\ \A q \in Left : \E i \in DOMAIN order : order[i] = q
         /\ kind' = kind \o [i \in DOMAIN order |-> Target[order[i]]]
  BY DEF RestartServer, n
<1> DEFINE told == [i \in 1..n |-> Target[order[i]]]
<1>4. DOMAIN order = 1..n /\ kind' = kind \o told
  BY <1>3
<1>5. told \in [1..n -> Resources]
  BY <1>3, ConstantsAssumption DEF Left, Resources
<1>6. told \in Seq(Resources) /\ Len(told) = n
  <2>1. told \in Seq(Resources)
    BY <1>2, <1>5, SeqDef
  <2>2. DOMAIN told = 1..n /\ Len(told) \in Nat /\ DOMAIN told = 1..Len(told)
    BY <2>1, LenProperties
  <2> QED
    BY <1>2, <2>1, <2>2
<1>7. /\ kind' \in Seq(Resources) /\ High' = High + n
      /\ \A i \in 1..(High + n) :
           kind'[i] = IF i <= High THEN kind[i] ELSE told[i - High]
  <2> HIDE DEF told
  <2> QED
    BY <1>1, <1>4, <1>6, ConcatProperties DEF High
<1>8. High + n <= MaxEvents /\ kept' = kept \cup (High + 1)..(High + n)
      /\ expired' = expired /\ floor' = floor
  BY DEF RestartServer, n
<1>9. ASSUME NEW q \in Left
      PROVE  \E e \in (High + 1)..High' : kind'[e] = Target[q]
  <2>1. PICK i \in 1..n : order[i] = q
    BY <1>3, <1>4
  <2>2. High + i \in 1..(High + n) /\ ~(High + i <= High) /\ (High + i) - High = i
    BY <1>1, <1>2, <2>1
  <2>3. told[i] = Target[q]
    BY <2>1
  <2>4. kind'[High + i] = Target[q]
    BY <1>7, <2>2, <2>3
  <2>5. High + i \in (High + 1)..High'
    BY <1>1, <1>2, <1>7, <2>1
  <2> QED
    BY <2>4, <2>5
<1>10. High' \in Nat /\ High <= High' /\ High' <= MaxEvents
      /\ kept' = kept \cup (High + 1)..High'
  BY <1>1, <1>2, <1>7, <1>8
<1>11. \A e \in 1..High : kind'[e] = kind[e]
  <2> HIDE DEF told
  <2> QED
    BY <1>1, <1>2, <1>7
<1> QED
  BY <1>7, <1>8, <1>9, <1>10, <1>11

\* A pruning pass removes no row that is after the floor it leaves.
LEMMA PrunedLog ==
    ASSUME TypeOK, DeleteVictims
    PROVE  /\ floor' \in 0..High /\ floor <= floor'
           /\ kept' \in SUBSET kept
           /\ \A e \in kept : e \in kept' \/ e <= floor'
<1> DEFINE deleted == {s \in victims \cap kept : s \in expired \/ s <= Threshold}
<1>1. High \in Nat /\ floor \in 0..High /\ deleted \in SUBSET (1..High)
  BY LenProperties DEF TypeOK, High
<1>2. kept' = kept \ deleted /\ floor' = FloorAfter(deleted)
  BY DEF DeleteVictims
<1> HIDE DEF deleted
<1>3. CASE deleted = {}
  BY <1>1, <1>2, <1>3 DEF FloorAfter, Larger
<1>4. CASE deleted # {}
  <2>1. Max(deleted) \in deleted /\ \A y \in deleted : y <= Max(deleted)
    BY <1>1, <1>4, MaxIsMember
  <2>2. floor' = Larger(floor, Max(deleted))
    BY <1>2, <1>4 DEF FloorAfter
  <2>3. Max(deleted) \in 1..High
    BY <1>1, <2>1
  <2>4. floor' \in 0..High /\ floor <= floor' /\ Max(deleted) <= floor'
    BY <1>1, <2>2, <2>3 DEF Larger
  <2>5. \A e \in deleted : e <= floor'
    BY <1>1, <2>1, <2>3, <2>4
  <2> QED
    BY <1>2, <2>4, <2>5
<1> QED
  BY <1>3, <1>4

\* A change is remembered as not shown, now and in the snapshot under way.
LEMMA ChangedView ==
    ASSUME TypeOK, NEW r \in Resources, Change(r)
    PROVE  /\ behind' \in SUBSET Resources
           /\ reply' \in SUBSET Snapshot
           /\ reply' # {} => reply # {}
           /\ \A s \in reply' : \E earlier \in reply :
                s.cursor = earlier.cursor /\ s.outdated = earlier.outdated \cup {r}
<1>1. reply' = {[s EXCEPT !.outdated = @ \cup {r}] : s \in reply}
      /\ behind' = behind \cup {r}
  BY DEF Change
<1>2. reply \in SUBSET Snapshot /\ behind \in SUBSET Resources
  BY DEF TypeOK
<1>3. ASSUME NEW earlier \in reply
      PROVE  LET s == [earlier EXCEPT !.outdated = @ \cup {r}]
             IN  s \in Snapshot /\ s.cursor = earlier.cursor
                 /\ s.outdated = earlier.outdated \cup {r}
  BY <1>2 DEF Snapshot
<1> QED
  BY <1>1, <1>2, <1>3

-----------------------------------------------------------------------------
(* Types                                                                   *)

LEMMA InitTyped == Init => TypeOK
  BY ConstantsAssumption, EmptySeq
  DEF Init, TypeOK, High, NoFeed, Resources

LEMMA TypeStep ==
    ASSUME Inv, [Next]_vars
    PROVE  TypeOK'
<1> USE DEF Inv
<1>1. High \in Nat /\ MaxEvents \in Nat /\ MaxBreaks \in Nat
  BY ConstantsAssumption, LenProperties DEF TypeOK, High
<1>2. ASSUME NEW r \in Rows, WriteRow(r) PROVE TypeOK'
  <2>1. r \in Resources /\ Change(r) /\ Publish(r)
    BY <1>2 DEF WriteRow, Resources
  <2>2. UNCHANGED <<prune, intents, stale, cursor, client, connection, breaks>>
    BY <1>2 DEF WriteRow
  <2>3. kind' \in Seq(Resources) /\ High' = High + 1 /\ High' <= MaxEvents
        /\ kept' = kept \cup {High + 1} /\ expired' = expired /\ floor' = floor
    BY <2>1, PublishedLog
  <2>4. behind' \in SUBSET Resources /\ reply' \in SUBSET Snapshot
        /\ (reply' # {} => client' = "asking")
    BY <2>1, <2>2, ChangedView DEF TypeOK
  <2> QED
    BY <1>1, <2>2, <2>3, <2>4 DEF TypeOK, prune, connection, NoFeed
<1>3. ASSUME NEW q \in Requests,
             OpenIntent(q) \/ DropIntent(q) \/ LeaveIntent(q)
      PROVE  TypeOK'
  <2>1. intents' \in [Requests -> {"none", "handler", "task", "startup"}]
    BY <1>3 DEF TypeOK, OpenIntent, DropIntent, LeaveIntent
  <2>2. UNCHANGED <<log, prune, view, connection, breaks>>
    BY <1>3 DEF OpenIntent, DropIntent, LeaveIntent
  <2> QED
    BY <2>1, <2>2 DEF TypeOK, High, log, prune, view, connection
<1>4. ASSUME NEW q \in Requests, ChangeFile(q) PROVE TypeOK'
  <2>1. Target[q] \in Resources /\ Change(Target[q])
    BY <1>4, ConstantsAssumption DEF ChangeFile, Resources
  <2>2. UNCHANGED <<log, prune, intents, stale, cursor, client, connection, breaks>>
    BY <1>4 DEF ChangeFile
  <2> QED
    BY <2>1, <2>2, ChangedView DEF TypeOK, High, log, prune, connection
<1>5. ASSUME NEW q \in Requests, SettleIntent(q) PROVE TypeOK'
  <2>1. Target[q] \in Resources /\ Publish(Target[q])
    BY <1>5, ConstantsAssumption DEF SettleIntent, Resources
  <2>2. UNCHANGED <<prune, view, connection, breaks>>
        /\ intents' = [intents EXCEPT ![q] = "none"]
    BY <1>5 DEF SettleIntent
  <2>3. kind' \in Seq(Resources) /\ High' = High + 1 /\ High' <= MaxEvents
        /\ kept' = kept \cup {High + 1} /\ expired' = expired /\ floor' = floor
    BY <2>1, PublishedLog
  <2> QED
    BY <1>1, <2>2, <2>3 DEF TypeOK, prune, view, connection, NoFeed
<1>6. ASSUME NEW s \in Seqs, Expire(s) PROVE TypeOK'
  BY <1>6 DEF Expire, TypeOK, High, prune, view, connection
<1>7. ASSUME SelectVictims PROVE TypeOK'
  <2>1. victims' \in SUBSET kept
    BY <1>7 DEF SelectVictims, Surplus
  <2>2. UNCHANGED <<log, intents, view, connection, breaks>>
    BY <1>7 DEF SelectVictims
  <2> QED
    BY <2>1, <2>2 DEF TypeOK, High, log, view, connection
<1>8. ASSUME DeleteVictims PROVE TypeOK'
  <2>1. UNCHANGED <<kind, expired, intents, view, connection, breaks>>
        /\ victims' = {}
    BY <1>8 DEF DeleteVictims
  <2>2. floor' \in 0..High /\ kept' \in SUBSET kept
    BY <1>8, PrunedLog
  <2> QED
    BY <2>1, <2>2 DEF TypeOK, High, view, connection
<1>9. ASSUME OpenClient \/ TakeSnapshot \/ LoseSnapshot PROVE TypeOK'
  <2>1. [cursor |-> High, outdated |-> {}] \in Snapshot
    BY <1>1 DEF TypeOK, Snapshot
  <2>2. CASE OpenClient
    BY <2>2 DEF OpenClient, TypeOK, High, log, prune, connection
  <2>3. CASE TakeSnapshot
    BY <2>1, <2>3 DEF TakeSnapshot, ReadSnapshot, TypeOK, High, log, prune, connection
  <2>4. CASE LoseSnapshot
    BY <1>1, <2>4 DEF LoseSnapshot, TypeOK, High, log, prune, connection
  <2> QED
    BY <1>9, <2>2, <2>3, <2>4
<1>10. ASSUME ApplySnapshot PROVE TypeOK'
  <2>1. PICK s \in reply : /\ cursor' = s.cursor
                           /\ behind' = (behind \cap Files) \cup (s.outdated \cap Rows)
    BY <1>10 DEF ApplySnapshot
  <2>2. s.cursor \in 0..High
    BY <1>1, <1>10, <2>1 DEF RepliesCover, TypeOK, Snapshot
  <2>3. << >> \in Seq(Frame)
    BY EmptySeq
  <2> QED
    BY <1>1, <1>10, <2>1, <2>2, <2>3
    DEF ApplySnapshot, TypeOK, High, log, prune, Resources, NoFeed
<1>11. ASSUME NEW r \in Resources, Fetch(r) PROVE TypeOK'
  BY <1>11 DEF Fetch, TypeOK, High, log, prune, connection
<1>12. ASSUME Subscribe PROVE TypeOK'
  BY <1>1, <1>12 DEF Subscribe, TypeOK, High, log, prune, NoFeed
<1>13. ASSUME Poll PROVE TypeOK'
  <2>1. UNCHANGED <<log, prune, intents, view, breaks>>
    BY <1>13 DEF Poll
  <2>2. CASE Outside(feed) /\ feed' = NoFeed
             /\ wire' = Append(wire, [resync |-> TRUE, events |-> {}])
    <3>1. [resync |-> TRUE, events |-> {}] \in Frame
      BY DEF Frame
    <3>2. wire' \in Seq(Frame)
      BY <2>2, <3>1, AppendProperties DEF TypeOK
    <3> QED
      BY <1>1, <2>1, <2>2, <3>2 DEF TypeOK, High, log, prune, view, NoFeed
  <2>3. CASE /\ After(feed) # {} /\ feed' = Max(After(feed))
             /\ wire' = Append(wire, [resync |-> FALSE, events |-> After(feed)])
    <3>1. feed \in Nat
      BY <1>1, <1>13 DEF Poll, TypeOK, NoFeed
    <3>2. After(feed) \in SUBSET (1..High)
      BY <3>1, BatchHasNoGap DEF TypeOK
    <3>3. [resync |-> FALSE, events |-> After(feed)] \in Frame
      BY <1>1, <3>2 DEF Frame, Seqs, TypeOK
    <3>4. wire' \in Seq(Frame)
      BY <2>3, <3>3, AppendProperties DEF TypeOK
    <3>5. feed' \in NoFeed..High
      <4>1. Max(After(feed)) \in After(feed)
        BY <1>1, <2>3, <3>2, MaxIsMember
      <4> QED
        BY <1>1, <2>3, <3>2, <4>1 DEF NoFeed
    <3> QED
      BY <2>1, <3>4, <3>5 DEF TypeOK, High, log, prune, view
  <2> QED
    BY <1>13, <2>2, <2>3 DEF Poll
<1>14. ASSUME HandleEvents PROVE TypeOK'
  <2>1. wire # << >> /\ wire \in Seq(Frame) /\ Len(wire) \in Nat
    BY <1>14, LenProperties DEF HandleEvents, TypeOK
  <2>2. Head(wire) = wire[1] /\ 1 \in 1..Len(wire) /\ Tail(wire) \in Seq(Frame)
    BY <2>1, EmptySeq, HeadTailProperties
  <2>3. Fresh(Head(wire)) \in SUBSET (1..High)
    BY <2>2 DEF Fresh, Connected
  <2>4. stale' \in SUBSET Resources
    BY <1>14, <2>3, ElementOfSeq DEF HandleEvents, TypeOK, High
  <2>5. cursor' \in 0..High
    <3>1. Fresh(Head(wire)) # {} => Max(Fresh(Head(wire))) \in 1..High
      BY <1>1, <2>3, MaxIsMember
    <3> QED
      BY <1>1, <1>14, <3>1 DEF HandleEvents, TypeOK
  <2>6. wire' = Tail(wire)
        /\ UNCHANGED <<log, prune, intents, behind, client, reply, feed, breaks>>
    BY <1>14 DEF HandleEvents
  <2> QED
    BY <2>2, <2>4, <2>5, <2>6 DEF TypeOK, High, log, prune
<1>15. ASSUME HandleResync \/ LoseConnection PROVE TypeOK'
  <2>1. << >> \in Seq(Frame) /\ NoFeed \in NoFeed..High
    BY <1>1, EmptySeq DEF NoFeed
  <2>2. CASE HandleResync
    BY <1>1, <2>1, <2>2 DEF HandleResync, TypeOK, High, log, prune
  <2>3. CASE LoseConnection
    BY <1>1, <2>1, <2>3 DEF LoseConnection, TypeOK, High, log, prune, view
  <2> QED
    BY <1>15, <2>2, <2>3
<1>16. ASSUME RestartServer PROVE TypeOK'
  <2>1. << >> \in Seq(Frame) /\ NoFeed \in NoFeed..High'
    BY <1>1, <1>16, EmptySeq, RestartedLog DEF NoFeed
  <2>2. UNCHANGED <<behind, stale, cursor>> /\ breaks' = breaks + 1
        /\ breaks < MaxBreaks /\ reply' = {} /\ victims' = {}
        /\ feed' = NoFeed /\ wire' = << >>
        /\ intents' = [q \in Requests |-> "none"]
        /\ client' = IF client = "asking" THEN "start" ELSE client
    BY <1>16 DEF RestartServer
  <2>3. kind' \in Seq(Resources) /\ High' \in Nat /\ High <= High'
        /\ High' <= MaxEvents /\ kept' = kept \cup (High + 1)..High'
        /\ expired' = expired /\ floor' = floor
    BY <1>16, RestartedLog
  <2>4. kept' \in SUBSET (1..High') /\ expired' \in SUBSET (1..High')
        /\ floor' \in 0..High' /\ cursor' \in 0..High'
    BY <1>1, <2>2, <2>3 DEF TypeOK
  <2>5. client' # "asking" /\ client' \in {"closed", "start", "asking", "live"}
    BY <2>2 DEF TypeOK
  <2> QED
    BY <1>1, <2>1, <2>2, <2>3, <2>4, <2>5 DEF TypeOK
<1>17. CASE UNCHANGED vars
  BY <1>17 DEF TypeOK, High, vars, log, prune, view, connection
<1> QED
  BY <1>2, <1>3, <1>4, <1>5, <1>6, <1>7, <1>8, <1>9, <1>10, <1>11, <1>12, <1>13,
     <1>14, <1>15, <1>16, <1>17
  DEF Next, Writers, Pruning, Client, Connection

-----------------------------------------------------------------------------
(* The log                                                                 *)

\* What a step may do to the log: events are added, each with its row, and
\* rows go only as far as the floor is raised.
LogGrows ==
    /\ High' \in Nat /\ High <= High'
    /\ \A e \in 1..High : kind'[e] = kind[e]
    /\ floor' \in Nat /\ floor <= floor'
    /\ \A e \in kept : e \in kept' \/ e <= floor'
    /\ (High + 1)..High' \subseteq kept'

LEMMA LogStep ==
    ASSUME Inv, [Next]_vars
    PROVE  LogGrows
<1> USE DEF Inv
<1>1. High \in Nat /\ floor \in 0..High
  BY LenProperties DEF TypeOK, High
<1>2. ASSUME NEW r \in Resources, Publish(r) PROVE LogGrows
  BY <1>1, <1>2, PublishedLog DEF LogGrows
<1>3. ASSUME UNCHANGED <<kind, kept, floor>> PROVE LogGrows
  BY <1>1, <1>3 DEF LogGrows, High
<1>4. ASSUME NEW r \in Rows, WriteRow(r) PROVE LogGrows
  BY <1>2, <1>4 DEF WriteRow, Resources
<1>5. ASSUME NEW q \in Requests, SettleIntent(q) PROVE LogGrows
  BY <1>2, <1>5, ConstantsAssumption DEF SettleIntent, Resources
<1>6. ASSUME NEW q \in Requests,
             OpenIntent(q) \/ ChangeFile(q) \/ DropIntent(q) \/ LeaveIntent(q)
      PROVE  LogGrows
  BY <1>3, <1>6 DEF OpenIntent, ChangeFile, DropIntent, LeaveIntent, log
<1>7. ASSUME NEW s \in Seqs, Expire(s) PROVE LogGrows
  BY <1>3, <1>7 DEF Expire
<1>8. ASSUME SelectVictims PROVE LogGrows
  BY <1>3, <1>8 DEF SelectVictims, log
<1>9. ASSUME DeleteVictims PROVE LogGrows
  <2>1. kind' = kind
    BY <1>9 DEF DeleteVictims
  <2> QED
    BY <1>1, <1>9, <2>1, PrunedLog DEF LogGrows, High
<1>10. ASSUME Client PROVE LogGrows
  BY <1>3, <1>10
  DEF Client, OpenClient, TakeSnapshot, ApplySnapshot, LoseSnapshot, Fetch, log
<1>11. ASSUME Connection PROVE LogGrows
  BY <1>3, <1>11
  DEF Connection, Subscribe, Poll, HandleEvents, HandleResync, LoseConnection, log
<1>12. ASSUME RestartServer PROVE LogGrows
  BY <1>1, <1>12, RestartedLog DEF LogGrows
<1>13. CASE UNCHANGED vars
  BY <1>3, <1>13 DEF vars, log
<1> QED
  BY <1>4, <1>5, <1>6, <1>7, <1>8, <1>9, <1>10, <1>11, <1>12, <1>13
  DEF Next, Writers, Pruning

\* The window stays whole.
LEMMA WindowStep ==
    ASSUME TypeOK, WindowIsWhole, LogGrows
    PROVE  WindowIsWhole'
<1>1. High \in Nat /\ floor \in Nat
  BY LenProperties DEF TypeOK, High
<1>2. PICK f \in Nat, h \in Nat :
        /\ f = floor' /\ h = High' /\ floor <= f /\ High <= h
        /\ \A e \in kept : e \in kept' \/ e <= f
        /\ (High + 1)..h \subseteq kept'
  BY DEF LogGrows
<1>3. ASSUME NEW e \in (f + 1)..h PROVE e \in kept'
  <2>1. CASE e > High
    BY <1>1, <1>2, <1>3, <2>1
  <2>2. CASE e <= High
    <3>1. e \in (floor + 1)..High /\ ~(e <= f)
      <4>1. e \in Int /\ f + 1 <= e
        OBVIOUS
      <4>2. floor <= f
        BY <1>2
      <4>3. floor + 1 <= e
        BY <1>1, <4>1, <4>2
      <4>4. ~(e <= f)
        BY <4>1
      <4> QED
        BY <1>1, <2>2, <4>1, <4>3, <4>4
    <3> QED
      BY <1>2, <3>1 DEF WindowIsWhole
  <2> QED
    BY <1>1, <1>3, <2>1, <2>2
<1> QED
  BY <1>2, <1>3 DEF WindowIsWhole

\* Replay that would have told of a resource still tells of it, or is refused.
LEMMA CoveredStays ==
    ASSUME TypeOK, LogGrows, NEW r, NEW c \in Nat, Covered(r, c)
    PROVE  Covered(r, c)'
<1>1. High \in Nat /\ floor \in Nat
  BY LenProperties DEF TypeOK, High
<1>2. PICK e \in (c + 1)..High : kind[e] = r /\ (e \in kept \/ c < floor)
  BY DEF Covered
<1>3. e \in (c + 1)..High' /\ kind'[e] = r
  BY <1>1, <1>2 DEF LogGrows
<1>4. e \in kept' \/ c < floor'
  BY <1>1, <1>2 DEF LogGrows
<1> QED
  BY <1>3, <1>4 DEF Covered

\* A new event tells of its resource whatever the cursor is.
LEMMA PublishedCovers ==
    ASSUME TypeOK, NEW r \in Resources, Publish(r), NEW c \in 0..High
    PROVE  Covered(r, c)'
<1>1. High \in Nat
  BY LenProperties DEF TypeOK, High
<1>2. /\ High' = High + 1 /\ kind'[High + 1] = r
      /\ High + 1 \in kept'
  BY PublishedLog
<1>3. High + 1 \in (c + 1)..High'
  BY <1>1, <1>2
<1> QED
  BY <1>2, <1>3 DEF Covered

-----------------------------------------------------------------------------
(* The connection                                                          *)

LEMMA ConnectedStep ==
    ASSUME Inv, [Next]_vars
    PROVE  Connected'
<1> USE DEF Inv
<1>1. High \in Nat /\ High' \in Nat /\ High <= High'
  BY LogStep, LenProperties DEF TypeOK, High, LogGrows
<1>2. ASSUME UNCHANGED <<client, connection>> PROVE Connected'
  BY <1>1, <1>2 DEF Connected, connection
<1>3. ASSUME feed' = NoFeed, wire' = << >> PROVE Connected'
  BY <1>3 DEF Connected
<1>4. ASSUME client # "live", UNCHANGED connection PROVE Connected'
  BY <1>3, <1>4 DEF Connected, connection
<1>5. ASSUME Writers \/ Pruning PROVE Connected'
  BY <1>2, <1>5
  DEF Writers, WriteRow, OpenIntent, ChangeFile, SettleIntent, DropIntent,
      LeaveIntent, Pruning, Expire, SelectVictims, DeleteVictims, view
<1>6. ASSUME OpenClient \/ TakeSnapshot \/ LoseSnapshot PROVE Connected'
  BY <1>4, <1>6 DEF OpenClient, TakeSnapshot, LoseSnapshot
<1>7. ASSUME ApplySnapshot \/ HandleResync \/ LoseConnection \/ RestartServer
      PROVE  Connected'
  BY <1>3, <1>7 DEF ApplySnapshot, HandleResync, LoseConnection, RestartServer
<1>8. ASSUME NEW r \in Resources, Fetch(r) PROVE Connected'
  BY <1>2, <1>8 DEF Fetch
<1>9. ASSUME Subscribe PROVE Connected'
  BY <1>1, <1>9 DEF Subscribe, Connected
<1>10. ASSUME Poll PROVE Connected'
  <2>1. client = "live" /\ client' = client /\ feed \in Nat /\ High' = High
    BY <1>1, <1>10 DEF Poll, Connected, view, log, TypeOK, NoFeed, High
  <2>2. PICK f \in Frame : wire' = Append(wire, f) /\ f.events \subseteq 1..High
    <3>1. After(feed) \subseteq 1..High
      BY <2>1, BatchHasNoGap DEF TypeOK
    <3>2. /\ [resync |-> TRUE, events |-> {}] \in Frame
          /\ [resync |-> FALSE, events |-> After(feed)] \in Frame
      <4>1. After(feed) \in SUBSET Seqs
        BY <1>1, <3>1, ConstantsAssumption DEF Seqs, TypeOK
      <4> QED
        BY <4>1 DEF Frame
    <3> QED
      BY <1>10, <3>1, <3>2 DEF Poll
  <2>3. /\ Len(wire') = Len(wire) + 1 /\ Len(wire) \in Nat
        /\ \A i \in 1..Len(wire) : wire'[i] = wire[i]
        /\ wire'[Len(wire) + 1] = f
    BY <2>2, AppendProperties, LenProperties DEF TypeOK
  <2>4. ASSUME NEW i \in 1..Len(wire') PROVE wire'[i].events \subseteq 1..High
    <3>1. CASE i \in 1..Len(wire)
      BY <2>3, <3>1 DEF Connected
    <3>2. CASE i = Len(wire) + 1
      BY <2>2, <2>3, <3>2
    <3> QED
      BY <2>3, <2>4, <3>1, <3>2
  <2> QED
    BY <2>1, <2>4 DEF Connected
<1>11. ASSUME HandleEvents PROVE Connected'
  <2>1. client = "live" /\ client' = client /\ wire # << >> /\ wire' = Tail(wire)
        /\ High' = High
    BY <1>11 DEF HandleEvents, log, High
  <2>2. /\ Len(wire) \in Nat /\ Len(wire') = Len(wire) - 1
        /\ \A i \in 1..Len(wire') : wire'[i] = wire[i + 1]
    BY <2>1, HeadTailProperties, LenProperties DEF TypeOK
  <2>3. ASSUME NEW i \in 1..Len(wire') PROVE wire'[i].events \subseteq 1..High
    BY <2>2 DEF Connected
  <2> QED
    BY <2>1, <2>3 DEF Connected
<1>12. CASE UNCHANGED vars
  BY <1>2, <1>12 DEF vars, view
<1> QED
  BY <1>5, <1>6, <1>7, <1>8, <1>9, <1>10, <1>11, <1>12 DEF Next, Client, Connection

\* A poll appends the rows that directly follow the server's cursor, and the
\* client's cursor moves within the first frame.
LEMMA FollowStep ==
    ASSUME Inv, [Next]_vars
    PROVE  FramesFollow'
<1> USE DEF Inv
<1>1. High \in Nat /\ cursor \in 0..High /\ cursor' \in Nat /\ Len(wire) \in Nat
      /\ floor \in Nat
  <2>1. TypeOK'
    BY TypeStep
  <2> QED
    BY <2>1, LenProperties DEF TypeOK, High
<1>2. ASSUME UNCHANGED <<cursor, connection>> PROVE FramesFollow'
  BY <1>2 DEF FramesFollow, connection
<1>3. ASSUME feed' = NoFeed, wire' = << >> PROVE FramesFollow'
  <2>1. Len(wire') = 0 /\ 1..Len(wire') = {}
    BY <1>3, EmptySeq
  <2>2. (cursor' + 1)..feed' = {}
    <3>1. \A c \in Nat : (c + 1)..(-1) = {}
      OBVIOUS
    <3>2. feed' = -1
      BY <1>3 DEF NoFeed
    <3> QED
      BY <1>1, <3>1, <3>2
  <2> QED
    BY <2>1, <2>2 DEF FramesFollow
<1>4. ASSUME Writers \/ Pruning PROVE FramesFollow'
  BY <1>2, <1>4
  DEF Writers, WriteRow, OpenIntent, ChangeFile, SettleIntent, DropIntent,
      LeaveIntent, Pruning, Expire, SelectVictims, DeleteVictims, view
<1>5. ASSUME OpenClient \/ TakeSnapshot \/ LoseSnapshot PROVE FramesFollow'
  BY <1>2, <1>5 DEF OpenClient, TakeSnapshot, LoseSnapshot
<1>6. ASSUME ApplySnapshot \/ HandleResync \/ LoseConnection \/ RestartServer
      PROVE  FramesFollow'
  BY <1>3, <1>6 DEF ApplySnapshot, HandleResync, LoseConnection, RestartServer
<1>7. ASSUME NEW r \in Resources, Fetch(r) PROVE FramesFollow'
  BY <1>2, <1>7 DEF Fetch
<1>8. ASSUME Subscribe PROVE FramesFollow'
  <2>1. wire' = << >> /\ cursor' = cursor /\ (feed' = feed \/ feed' = cursor)
        /\ feed = NoFeed
    BY <1>8 DEF Subscribe
  <2> QED
    BY <1>1, <2>1 DEF FramesFollow, NoFeed
<1>9. ASSUME Poll PROVE FramesFollow'
  <2>1. feed \in Nat /\ cursor' = cursor
    BY <1>1, <1>9 DEF Poll, TypeOK, NoFeed, view
  <2>2. After(feed) \in SUBSET (1..High) /\ After(feed) \in SUBSET kept
        /\ \A s \in After(feed) : s > feed
    BY <2>1, BatchHasNoGap DEF TypeOK
  <2>3. CASE Outside(feed) /\ feed' = NoFeed
             /\ wire' = Append(wire, [resync |-> TRUE, events |-> {}])
    <3>1. [resync |-> TRUE, events |-> {}] \in Frame
      BY DEF Frame
    <3>2. /\ Len(wire') = Len(wire) + 1
          /\ \A i \in 1..Len(wire) : wire'[i] = wire[i]
          /\ wire'[Len(wire) + 1].events = {}
      BY <2>3, <3>1, AppendProperties DEF TypeOK
    <3>3. ASSUME NEW i \in 1..Len(wire'), NEW s \in wire'[i].events,
                 NEW t \in (cursor + 1)..s
          PROVE  \E j \in 1..i : t \in wire'[j].events
      <4>1. i \in 1..Len(wire)
        BY <1>1, <3>2, <3>3
      <4>2. PICK j \in 1..i : t \in wire[j].events
        BY <3>2, <3>3, <4>1 DEF FramesFollow
      <4> QED
        BY <1>1, <3>2, <4>1, <4>2
    <3> QED
      BY <1>1, <2>1, <2>3, <3>3 DEF FramesFollow, NoFeed
  <2>4. CASE /\ ~Outside(feed) /\ After(feed) # {} /\ feed' = Max(After(feed))
             /\ wire' = Append(wire, [resync |-> FALSE, events |-> After(feed)])
    <3>1. [resync |-> FALSE, events |-> After(feed)] \in Frame
      <4>1. After(feed) \in SUBSET Seqs
        BY <1>1, <2>2, ConstantsAssumption DEF Seqs, TypeOK
      <4> QED
        BY <4>1 DEF Frame
    <3>2. /\ Len(wire') = Len(wire) + 1
          /\ \A i \in 1..Len(wire) : wire'[i] = wire[i]
          /\ wire'[Len(wire) + 1].events = After(feed)
      BY <2>4, <3>1, AppendProperties DEF TypeOK
    <3>3. ASSUME NEW s \in After(feed), NEW t \in (feed + 1)..s
          PROVE  t \in After(feed)
      <4>1. t \in (floor + 1)..High
        BY <1>1, <2>1, <2>2, <2>4, <3>3 DEF Outside
      <4>2. t \in kept
        BY <4>1 DEF WindowIsWhole
      <4> QED
        BY <2>1, <3>3, <4>2, BatchHasNoGap, <1>1, <2>2
    <3>4. ASSUME NEW t \in (cursor + 1)..feed
          PROVE  \E j \in 1..Len(wire) : t \in wire'[j].events
      BY <3>2 DEF FramesFollow
    <3>5. ASSUME NEW s \in After(feed), NEW t \in (cursor + 1)..s
          PROVE  \E j \in 1..Len(wire') : t \in wire'[j].events
      <4>1. CASE t <= feed
        BY <1>1, <2>1, <3>2, <3>4, <4>1
      <4>2. CASE t > feed
        <5>1. t \in After(feed)
          BY <1>1, <2>1, <2>2, <3>3, <4>2
        <5> QED
          BY <1>1, <3>2, <5>1
      <4> QED
        BY <1>1, <2>1, <2>2, <4>1, <4>2
    <3>6. ASSUME NEW i \in 1..Len(wire'), NEW s \in wire'[i].events,
                 NEW t \in (cursor + 1)..s
          PROVE  \E j \in 1..i : t \in wire'[j].events
      <4>1. CASE i \in 1..Len(wire)
        <5>1. PICK j \in 1..i : t \in wire[j].events
          BY <3>2, <3>6, <4>1 DEF FramesFollow
        <5> QED
          BY <1>1, <3>2, <4>1, <5>1
      <4>2. CASE i = Len(wire')
        BY <3>2, <3>5, <3>6, <4>2
      <4> QED
        BY <1>1, <3>2, <4>1, <4>2
    <3>7. Max(After(feed)) \in After(feed)
      BY <1>1, <2>2, <2>4, MaxIsMember
    <3> QED
      BY <2>1, <2>4, <3>5, <3>6, <3>7 DEF FramesFollow
  <2> QED
    BY <1>9, <2>3, <2>4 DEF Poll
<1>10. ASSUME HandleEvents PROVE FramesFollow'
  <2> DEFINE fresh == Fresh(Head(wire))
  <2>1. wire # << >> /\ wire' = Tail(wire) /\ feed' = feed
        /\ cursor' = IF fresh = {} THEN cursor ELSE Max(fresh)
    BY <1>10 DEF HandleEvents
  <2>2. /\ Len(wire') = Len(wire) - 1 /\ Len(wire) \in Nat /\ Head(wire) = wire[1]
        /\ \A i \in 1..Len(wire') : wire'[i] = wire[i + 1]
        /\ 1 \in 1..Len(wire)
    BY <2>1, HeadTailProperties, LenProperties, EmptySeq DEF TypeOK
  <2>3. wire[1].events \subseteq 1..High
    BY <2>2 DEF Connected
  <2>11. PICK c \in Nat : c = cursor'
    BY <1>1
  <2>4. cursor <= c /\ \A s \in wire[1].events : s <= c
    <3>1. fresh \in SUBSET (1..High) /\ fresh = {s \in wire[1].events : s > cursor}
          /\ \A s \in wire[1].events : s \in Nat
      BY <1>1, <2>2, <2>3 DEF Fresh
    <3> HIDE DEF fresh
    <3>2. CASE fresh = {}
      BY <1>1, <2>11, <2>1, <2>3, <3>1, <3>2
    <3>3. CASE fresh # {}
      <4>1. Max(fresh) \in fresh /\ \A s \in fresh : s <= Max(fresh)
        BY <1>1, <3>1, <3>3, MaxIsMember
      <4> QED
        <5>1. c = Max(fresh) /\ Max(fresh) > cursor
          BY <2>11, <2>1, <3>1, <3>3, <4>1
        <5>2. \A s \in wire[1].events : s > cursor => s <= c
          BY <3>1, <4>1, <5>1
        <5>3. cursor \in Nat /\ cursor <= c
          BY <1>1, <2>11, <5>1
        <5>4. ASSUME NEW s \in wire[1].events PROVE s <= c
          <6>1. s \in Nat /\ (s > cursor => s <= c)
            BY <3>1, <5>2
          <6> QED
            BY <2>11, <5>3, <6>1
        <5> QED
          BY <5>3, <5>4
    <3> QED
      BY <3>2, <3>3
  <2>5. ASSUME NEW n \in 1..Len(wire), NEW t \in Nat, t > c,
               \E j \in 1..n : t \in wire[j].events
        PROVE  \E j \in 1..(n - 1) : t \in wire'[j].events
    <3>1. PICK j \in 1..n : t \in wire[j].events
      BY <2>5
    <3>2. j # 1
      BY <1>1, <2>3, <2>4, <2>5, <3>1
    <3>3. j - 1 \in 1..(n - 1) /\ j - 1 \in 1..Len(wire') /\ (j - 1) + 1 = j
      BY <2>2, <3>1, <3>2
    <3>4. wire'[j - 1] = wire[j]
      BY <2>2, <3>3
    <3> QED
      BY <3>1, <3>3, <3>4
  <2>6. ASSUME NEW i \in 1..Len(wire'), NEW s \in wire'[i].events,
               NEW t \in (c + 1)..s
        PROVE  \E j \in 1..i : t \in wire'[j].events
    <3>1. i + 1 \in 1..Len(wire) /\ s \in wire[i + 1].events /\ (i + 1) - 1 = i
      BY <2>2, <2>6
    <3>2. s \in 1..High
      BY <3>1 DEF Connected
    <3>3. t \in (cursor + 1)..s /\ t \in Nat /\ t > c
      <4>1. t \in Int /\ c + 1 <= t /\ t <= s /\ s \in Nat
        BY <1>1, <2>6, <3>2
      <4> QED
        BY <1>1, <2>4, <4>1
    <3>4. \E j \in 1..(i + 1) : t \in wire[j].events
      BY <3>1, <3>3 DEF FramesFollow
    <3> QED
      BY <2>5, <3>1, <3>3, <3>4
  <2>7. ASSUME NEW t \in (c + 1)..feed
        PROVE  \E j \in 1..Len(wire') : t \in wire'[j].events
    <3>1. feed \in Int
      BY <1>1 DEF TypeOK, NoFeed
    <3>2. t \in (cursor + 1)..feed /\ t \in Nat /\ t > c
      BY <1>1, <2>4, <2>7, <3>1
    <3>3. \E j \in 1..Len(wire) : t \in wire[j].events
      BY <3>2 DEF FramesFollow
    <3>4. Len(wire) \in 1..Len(wire) /\ Len(wire) - 1 = Len(wire')
      BY <2>2
    <3> QED
      BY <2>5, <3>2, <3>3, <3>4
  <2> QED
    BY <2>11, <2>1, <2>6, <2>7 DEF FramesFollow
<1>11. CASE UNCHANGED vars
  BY <1>2, <1>11 DEF vars, view
<1> QED
  BY <1>4, <1>5, <1>6, <1>7, <1>8, <1>9, <1>10, <1>11 DEF Next, Client, Connection

-----------------------------------------------------------------------------
(* What the client is told                                                 *)

\* What changes while a snapshot is under way has its event after the watermark.
LEMMA RepliesStep ==
    ASSUME Inv, [Next]_vars
    PROVE  RepliesCover'
<1> USE DEF Inv
<1>1. High \in Nat /\ LogGrows /\ TypeOK' /\ High' \in Nat /\ High <= High'
  BY LogStep, TypeStep, LenProperties DEF TypeOK, High, LogGrows
<1>2. ASSUME NEW s \in reply
      PROVE  /\ s.cursor \in 0..High /\ s.cursor <= High'
             /\ \A r \in s.outdated \cap Rows : Covered(r, s.cursor)'
  <2>1. s.cursor \in 0..High
    BY <1>1 DEF RepliesCover, TypeOK, Snapshot
  <2>2. ASSUME NEW r \in s.outdated \cap Rows PROVE Covered(r, s.cursor)'
    BY <1>1, <2>1, CoveredStays DEF RepliesCover
  <2> QED
    BY <1>1, <2>1, <2>2
<1>3. ASSUME reply' \in SUBSET reply PROVE RepliesCover'
  BY <1>2, <1>3 DEF RepliesCover
<1>4. ASSUME NEW r \in Rows, WriteRow(r) PROVE RepliesCover'
  <2>1. r \in Resources /\ Change(r) /\ Publish(r)
    BY <1>4 DEF WriteRow, Resources
  <2>2. ASSUME NEW s \in reply'
        PROVE  s.cursor <= High' /\ \A x \in s.outdated \cap Rows : Covered(x, s.cursor)'
    <3>1. PICK earlier \in reply :
            s.cursor = earlier.cursor /\ s.outdated = earlier.outdated \cup {r}
      BY <2>1, ChangedView
    <3>2. Covered(r, earlier.cursor)'
      BY <1>2, <2>1, PublishedCovers
    <3> QED
      BY <1>2, <3>1, <3>2
  <2> QED
    BY <2>2 DEF RepliesCover
<1>5. ASSUME NEW q \in Requests, ChangeFile(q) PROVE RepliesCover'
  <2>1. Target[q] \in Resources /\ Target[q] \notin Rows /\ Change(Target[q])
    BY <1>5, ConstantsAssumption DEF ChangeFile, Resources
  <2>2. ASSUME NEW s \in reply'
        PROVE  s.cursor <= High' /\ \A x \in s.outdated \cap Rows : Covered(x, s.cursor)'
    <3>1. PICK earlier \in reply :
            s.cursor = earlier.cursor /\ s.outdated = earlier.outdated \cup {Target[q]}
      BY <2>1, ChangedView
    <3>2. s.outdated \cap Rows = earlier.outdated \cap Rows
      BY <2>1, <3>1
    <3> QED
      BY <1>2, <3>1, <3>2
  <2> QED
    BY <2>2 DEF RepliesCover
<1>6. ASSUME NEW q \in Requests,
             OpenIntent(q) \/ SettleIntent(q) \/ DropIntent(q) \/ LeaveIntent(q)
      PROVE  RepliesCover'
  BY <1>3, <1>6 DEF OpenIntent, SettleIntent, DropIntent, LeaveIntent, view
<1>7. ASSUME Pruning PROVE RepliesCover'
  BY <1>3, <1>7 DEF Pruning, Expire, SelectVictims, DeleteVictims, view
<1>8. ASSUME TakeSnapshot PROVE RepliesCover'
  <2>1. reply' = {[cursor |-> High, outdated |-> {}]}
    BY <1>8 DEF TakeSnapshot, ReadSnapshot
  <2> QED
    BY <1>1, <2>1 DEF RepliesCover
<1>9. ASSUME OpenClient \/ ApplySnapshot \/ LoseSnapshot \/ RestartServer
      PROVE  RepliesCover'
  BY <1>3, <1>9 DEF OpenClient, ApplySnapshot, LoseSnapshot, RestartServer
<1>10. ASSUME NEW r \in Resources, Fetch(r) PROVE RepliesCover'
  BY <1>3, <1>10 DEF Fetch
<1>11. ASSUME Connection PROVE RepliesCover'
  BY <1>3, <1>11
  DEF Connection, Subscribe, Poll, HandleEvents, HandleResync, LoseConnection, view
<1>12. CASE UNCHANGED vars
  BY <1>3, <1>12 DEF vars, view
<1> QED
  BY <1>4, <1>5, <1>6, <1>7, <1>8, <1>9, <1>10, <1>11, <1>12 DEF Next, Writers, Client

\* A resource the client does not know to fetch still has an event to come,
\* or an intent.
LEMMA MissedStep ==
    ASSUME Inv, [Next]_vars
    PROVE  NothingMissed'
<1> USE DEF Inv
<1>1. High \in Nat /\ LogGrows /\ cursor \in 0..High /\ floor \in Nat
  BY LogStep, LenProperties DEF TypeOK, High
<1>2. ASSUME NEW r PROVE ToldLater(r) <=>
        \/ Covered(r, cursor)
        \/ \E q \in Requests : intents[q] # "none" /\ Target[q] = r
  BY DEF ToldLater, Covered
<1>3. ASSUME cursor' = cursor, NEW r, Covered(r, cursor) PROVE ToldLater(r)'
  <2>1. PICK c \in Nat : c = cursor
    BY <1>1
  <2>2. Covered(r, c)'
    BY <1>1, <1>3, <2>1, CoveredStays
  <2> QED
    BY <1>3, <2>1, <2>2 DEF ToldLater, Covered
<1>4. ASSUME cursor' = cursor, client' = "live" => client = "live",
             behind' \subseteq behind, behind \cap stale \cap behind' \subseteq stale',
             intents' = intents
      PROVE  NothingMissed'
  BY <1>2, <1>3, <1>4 DEF NothingMissed, ToldLater
<1>5. ASSUME NEW r \in Rows, WriteRow(r) PROVE NothingMissed'
  <2>1. r \in Resources /\ behind' = behind \cup {r} /\ Publish(r)
        /\ UNCHANGED <<intents, stale, cursor, client>>
    BY <1>5 DEF WriteRow, Resources, Change
  <2>2. ToldLater(r)'
    <3>1. PICK c \in 0..High : c = cursor
      BY <1>1
    <3>2. Covered(r, c)'
      BY <2>1, PublishedCovers
    <3> QED
      BY <2>1, <3>1, <3>2 DEF ToldLater, Covered
  <2>3. ASSUME NEW x, ToldLater(x) PROVE ToldLater(x)'
    BY <1>2, <1>3, <2>1, <2>3 DEF ToldLater
  <2> QED
    BY <2>1, <2>2, <2>3 DEF NothingMissed
<1>6. ASSUME NEW q \in Requests, OpenIntent(q) \/ DropIntent(q) \/ LeaveIntent(q)
      PROVE  NothingMissed'
  <2>1. UNCHANGED <<behind, stale, cursor, client>>
        /\ \A p \in Requests : intents[p] # "none" => intents'[p] # "none"
    BY <1>6 DEF OpenIntent, DropIntent, LeaveIntent, view, TypeOK
  <2>2. ASSUME NEW x, ToldLater(x) PROVE ToldLater(x)'
    BY <1>2, <1>3, <2>1, <2>2 DEF ToldLater
  <2> QED
    BY <2>1, <2>2 DEF NothingMissed
<1>7. ASSUME NEW q \in Requests, ChangeFile(q) PROVE NothingMissed'
  <2>1. behind' = behind \cup {Target[q]} /\ intents[q] = "handler"
        /\ UNCHANGED <<intents, stale, cursor, client>>
    BY <1>7 DEF ChangeFile, Change
  <2>2. ToldLater(Target[q])'
    BY <2>1 DEF ToldLater
  <2>3. ASSUME NEW x, ToldLater(x) PROVE ToldLater(x)'
    BY <1>2, <1>3, <2>1, <2>3 DEF ToldLater
  <2> QED
    BY <2>1, <2>2, <2>3 DEF NothingMissed
<1>8. ASSUME NEW q \in Requests, SettleIntent(q) PROVE NothingMissed'
  <2>1. Target[q] \in Resources /\ Publish(Target[q])
        /\ intents' = [intents EXCEPT ![q] = "none"]
        /\ UNCHANGED <<behind, stale, cursor, client>>
    BY <1>8, ConstantsAssumption DEF SettleIntent, Resources, view
  <2>2. ToldLater(Target[q])'
    <3>1. PICK c \in 0..High : c = cursor
      BY <1>1
    <3>2. Covered(Target[q], c)'
      BY <2>1, PublishedCovers
    <3> QED
      BY <2>1, <3>1, <3>2 DEF ToldLater, Covered
  <2>3. \A p \in Requests \ {q} : intents'[p] = intents[p]
    BY <2>1 DEF TypeOK
  <2>4. ASSUME NEW x, ToldLater(x) PROVE ToldLater(x)'
    <3>1. CASE Covered(x, cursor)
      BY <1>3, <2>1, <3>1
    <3>2. CASE \E p \in Requests : intents[p] # "none" /\ Target[p] = x
      BY <2>2, <2>3, <3>2 DEF ToldLater
    <3> QED
      BY <1>2, <2>4, <3>1, <3>2
  <2> QED
    BY <2>1, <2>4 DEF NothingMissed
<1>9. ASSUME Pruning PROVE NothingMissed'
  BY <1>4, <1>9 DEF Pruning, Expire, SelectVictims, DeleteVictims, view
<1>10. ASSUME OpenClient \/ TakeSnapshot \/ LoseSnapshot PROVE NothingMissed'
  BY <1>10 DEF OpenClient, TakeSnapshot, LoseSnapshot, NothingMissed
<1>11. ASSUME ApplySnapshot PROVE NothingMissed'
  <2>1. PICK s \in reply :
          cursor' = s.cursor /\ behind' = (behind \cap Files) \cup (s.outdated \cap Rows)
    BY <1>11 DEF ApplySnapshot
  <2>2. stale' = Files /\ UNCHANGED <<log, intents>>
    BY <1>11 DEF ApplySnapshot
  <2>3. ASSUME NEW r \in behind', r \notin stale' PROVE ToldLater(r)'
    <3>1. Covered(r, s.cursor)
      BY <2>1, <2>2, <2>3 DEF RepliesCover
    <3> QED
      BY <2>1, <2>2, <3>1 DEF ToldLater, Covered, High, log
  <2> QED
    BY <2>3 DEF NothingMissed
<1>12. ASSUME NEW r \in Resources, Fetch(r) PROVE NothingMissed'
  BY <1>4, <1>12 DEF Fetch
<1>13. ASSUME Subscribe \/ Poll \/ HandleResync \/ LoseConnection
       PROVE  NothingMissed'
  <2>1. UNCHANGED <<behind, stale, cursor, intents>>
        /\ (client' = "live" => client = "live")
    BY <1>13 DEF Subscribe, Poll, HandleResync, LoseConnection, view
  <2> QED
    BY <1>4, <2>1
<1>14. ASSUME HandleEvents PROVE NothingMissed'
  <2> DEFINE fresh == Fresh(Head(wire))
  <2>1. /\ client = "live" /\ wire # << >>
        /\ stale' = stale \cup {kind[s] : s \in fresh}
        /\ cursor' = IF fresh = {} THEN cursor ELSE Max(fresh)
        /\ UNCHANGED <<kind, kept, floor, intents, behind>>
    BY <1>14 DEF HandleEvents, log
  <2>2. Head(wire) = wire[1] /\ 1 \in 1..Len(wire)
    BY <2>1, LenProperties, EmptySeq DEF TypeOK
  <2>3. fresh \in SUBSET (1..High) /\ fresh = {s \in wire[1].events : s > cursor}
    BY <2>2 DEF Fresh, Connected
  <2>4. ASSUME NEW r \in behind, r \notin stale' PROVE ToldLater(r)'
    <3>1. r \notin stale /\ ToldLater(r)
      BY <2>1, <2>4 DEF NothingMissed
    <3>2. CASE \E q \in Requests : intents[q] # "none" /\ Target[q] = r
      BY <2>1, <3>2 DEF ToldLater
    <3>3. CASE Covered(r, cursor)
      <4>1. PICK e \in (cursor + 1)..High :
              kind[e] = r /\ (e \in kept \/ cursor < floor)
        BY <3>3 DEF Covered
      <4>2. e \notin fresh
        BY <2>1, <2>4, <4>1
      <4>3. CASE fresh = {}
        BY <2>1, <3>3, <4>3 DEF ToldLater, Covered, High
      <4>4. CASE fresh # {}
        <5>1. PICK m \in fresh : m = Max(fresh) /\ \A y \in fresh : y <= m
          BY <1>1, <2>3, <4>4, MaxIsMember
        <5>2. cursor' = m /\ m \in 1..High /\ m \in wire[1].events
          BY <2>1, <2>3, <4>4, <5>1
        <5>3. e > m
          <6>1. SUFFICES ASSUME e <= m PROVE FALSE
            BY <1>1, <4>1, <5>2
          <6>2. e \in (cursor + 1)..m
            BY <1>1, <4>1, <5>2, <6>1
          <6>3. PICK j \in 1..1 : e \in wire[j].events
            BY <2>2, <5>2, <6>2 DEF FramesFollow
          <6>4. j = 1
            OBVIOUS
          <6>5. e \in fresh
            BY <1>1, <2>3, <4>1, <6>3, <6>4
          <6> QED
            BY <4>2, <6>5
        <5>4. e \in (m + 1)..High
          BY <1>1, <4>1, <5>2, <5>3
        <5>5. e \in kept \/ m < floor
          <6>1. SUFFICES ASSUME e \notin kept PROVE m < floor
            OBVIOUS
          <6>2. ~(e \in (floor + 1)..High)
            BY <6>1 DEF WindowIsWhole
          <6>3. e <= floor
            BY <1>1, <4>1, <6>2
          <6> QED
            BY <1>1, <4>1, <5>2, <5>3, <6>3
        <5> QED
          BY <2>1, <4>1, <5>2, <5>4, <5>5 DEF ToldLater, High
      <4> QED
        BY <4>3, <4>4
    <3> QED
      BY <1>2, <3>1, <3>2, <3>3
  <2> QED
    BY <2>1, <2>4 DEF NothingMissed
<1>15. ASSUME RestartServer PROVE NothingMissed'
  <2>1. UNCHANGED <<behind, stale, cursor>> /\ (client' = "live" => client = "live")
    BY <1>15 DEF RestartServer
  <2>2. High \in Nat /\ High' \in Nat /\ High <= High'
        /\ kept' = kept \cup (High + 1)..High'
        /\ \A q \in Left : \E e \in (High + 1)..High' : kind'[e] = Target[q]
    BY <1>1, <1>15, RestartedLog
  <2>3. ASSUME NEW r, ToldLater(r) PROVE ToldLater(r)'
    <3>1. CASE Covered(r, cursor)
      BY <1>3, <2>1, <3>1
    <3>2. CASE \E q \in Requests : intents[q] # "none" /\ Target[q] = r
      <4>1. PICK e \in (High + 1)..High' : kind'[e] = r
        BY <2>2, <3>2 DEF Left
      <4>2. e \in kept'
        BY <2>2
      <4>3. e \in (cursor + 1)..High'
        BY <1>1, <2>2
      <4> QED
        BY <2>1, <4>1, <4>2, <4>3 DEF ToldLater
    <3> QED
      BY <1>2, <2>3, <3>1, <3>2
  <2> QED
    BY <2>1, <2>3 DEF NothingMissed
<1>16. CASE UNCHANGED vars
  BY <1>4, <1>16 DEF vars, view
<1> QED
  BY <1>5, <1>6, <1>7, <1>8, <1>9, <1>10, <1>11, <1>12, <1>13, <1>14, <1>15, <1>16
  DEF Next, Writers, Client, Connection

-----------------------------------------------------------------------------
LEMMA InitInv == Init => Inv
<1> SUFFICES ASSUME Init PROVE Inv
  OBVIOUS
<1>1. High = 0 /\ Len(wire) = 0 /\ TypeOK
  BY InitTyped DEF Init, High
<1>2. WindowIsWhole /\ Connected /\ FramesFollow /\ RepliesCover /\ NothingMissed
  BY <1>1
  DEF Init, WindowIsWhole, Connected, FramesFollow, RepliesCover, NothingMissed, NoFeed
<1> QED
  BY <1>1, <1>2 DEF Inv

LEMMA InvStep == Inv /\ [Next]_vars => Inv'
<1> SUFFICES ASSUME Inv, [Next]_vars PROVE Inv'
  OBVIOUS
<1>1. TypeOK' /\ LogGrows
  BY TypeStep, LogStep
<1>2. WindowIsWhole'
  BY <1>1, WindowStep DEF Inv
<1> QED
  BY <1>1, <1>2, ConnectedStep, FollowStep, RepliesStep, MissedStep DEF Inv

LEMMA InvHolds == Spec => []Inv
  BY InitInv, InvStep, PTL DEF Spec

(* Every variable of the feed keeps its type; in particular the client's    *)
(* cursor and the server's never pass the last event of the log.           *)
THEOREM TypeCorrect == Spec => []TypeOK
<1>1. Inv => TypeOK
  BY DEF Inv
<1> QED
  BY <1>1, InvHolds, PTL

(* The replay window has no gap after the floor, whatever a pruning pass    *)
(* that selected its victims without the writer finds when it deletes them *)
(* (account.rs: the floor and the deletion commit together).               *)
THEOREM ReplayWindow == Spec => []WindowIsWhole
<1>1. Inv => WindowIsWhole
  BY DEF Inv
<1> QED
  BY <1>1, InvHolds, PTL

(* A client that follows the log never misses a change: what it shows is    *)
(* current, or it knows it must fetch, or an event it has not handled will *)
(* tell it or be refused, or a workspace intent is still open -- across    *)
(* pruning, lost connections, lost snapshots and restarts of the server.   *)
THEOREM ChangesAreTold == Spec => []NothingMissed
<1>1. Inv => NothingMissed
  BY DEF Inv
<1> QED
  BY <1>1, InvHolds, PTL


-----------------------------------------------------------------------------
(* The event log of one run                                                *)

\* The least of a set of sequence numbers.
LEMMA LeastIsMember ==
    ASSUME NEW n, n \in Nat \cup {-1}, NEW S \in SUBSET (0..n), S # {}
    PROVE  Min(S) \in S
<1> DEFINE R == {p \in Nat \X Nat : p[1] < p[2]}
<1>1. IsWellFoundedOn(R, Nat)
  BY NatLessThanWellFounded DEF OpToRel
<1> HIDE DEF R
<1>2. S \subseteq Nat
  OBVIOUS
<1>3. PICK x \in S : \A y \in S : ~(<<y, x>> \in R)
  BY <1>1, <1>2, WFMin
<1>4. ASSUME NEW y \in S PROVE x <= y
  <2>1. x \in Nat /\ y \in Nat
    BY <1>2
  <2>2. y < x => <<y, x>> \in R
    BY <2>1 DEF R
  <2> QED
    BY <1>3, <2>1, <2>2
<1>5. \E z \in S : \A y \in S : z <= y
  BY <1>4
<1> QED
  BY <1>5 DEF Min

\* The greatest of a set of sequence numbers, the missing one included.
LEMMA NewestIsMember ==
    ASSUME NEW n, n \in Nat \cup {-1}, NEW S \in SUBSET (Nowhere..n), S # {}
    PROVE  Max(S) \in S /\ \A y \in S : y <= Max(S)
<1> DEFINE R == {p \in Nat \X Nat : p[1] < p[2]}
           D == {n - y : y \in S}
<1>1. IsWellFoundedOn(R, Nat)
  BY NatLessThanWellFounded DEF OpToRel
<1> HIDE DEF R
<1>2. D \subseteq Nat /\ D # {}
  <2>1. \A y \in S : n - y \in Nat
    BY DEF Nowhere
  <2>2. PICK y \in S : TRUE
    OBVIOUS
  <2>3. n - y \in D
    BY <2>2
  <2> QED
    BY <2>1, <2>3
<1>3. PICK d \in D : \A y \in D : ~(<<y, d>> \in R)
  <2> HIDE DEF D
  <2> QED
    BY <1>1, <1>2, WFMin
<1>4. PICK x \in S : d = n - x
  OBVIOUS
<1>5. ASSUME NEW y \in S PROVE x >= y
  <2>1. n - y \in D /\ n - y \in Nat /\ n - x \in Nat
    BY <1>4 DEF Nowhere
  <2>2. n - y < n - x => <<n - y, n - x>> \in R
    BY <2>1 DEF R
  <2>3. ~(n - y < n - x)
    BY <1>3, <1>4, <2>1, <2>2
  <2> QED
    BY <2>3 DEF Nowhere
<1>6. \E z \in S : \A y \in S : z >= y
  BY <1>5
<1>7. Max(S) \in S /\ \A y \in S : Max(S) >= y
  BY <1>6 DEF Max
<1>8. \A y \in S : y \in Int
  BY DEF Nowhere
<1> QED
  BY <1>7, <1>8

\* Every event beyond the floor still has its row.
Unpruned == \A s \in 0..Last : s > runFloor => s \in runRows

\* A subscription has handed over all between its first cursor and the last.
Handed == \A s \in 0..Last : live.from < s /\ s <= live.cursor => s \in got["live"]

RunInv == RunTypeOK /\ Unpruned /\ Handed

\* The rows of a page are those that follow the cursor, with none left out.
LEMMA PageHasNoGap ==
    ASSUME RunTypeOK, NEW c \in Int, NEW limit \in Nat
    PROVE  /\ RowsAfter(c, limit) \in SUBSET runRows
           /\ \A s \in RowsAfter(c, limit) : s > c
           /\ \A s \in RowsAfter(c, limit) : \A t \in runRows :
                c < t /\ t <= s => t \in RowsAfter(c, limit)
<1> DEFINE later == {s \in runRows : s > c}
           before(s) == {u \in later : u < s}
<1>1. runRows \in SUBSET (0..Last) /\ Last \in Int
  BY RunAssumption DEF RunTypeOK, Last
<1>2. RowsAfter(c, limit) = {s \in later : Cardinality(before(s)) < limit}
  BY DEF RowsAfter
<1>3. ASSUME NEW s \in RowsAfter(c, limit), NEW t \in runRows, c < t, t <= s
      PROVE  t \in RowsAfter(c, limit)
  <2>1. before(t) \in SUBSET before(s) /\ before(s) \in SUBSET (0..Last)
    <3>1. s \in later /\ \A u \in later : u \in 0..Last
      BY <1>1, <1>2, <1>3
    <3>2. \A u \in later : u < t => u < s
      BY <1>1, <1>3, <3>1
    <3> QED
      BY <3>1, <3>2
  <2>2. IsFiniteSet(0..Last)
    BY <1>1, FS_Interval
  <2>3. IsFiniteSet(before(s))
    BY <2>1, <2>2, FS_Subset
  <2>4. Cardinality(before(t)) <= Cardinality(before(s)) /\ IsFiniteSet(before(t))
    BY <2>1, <2>3, FS_Subset
  <2>5. Cardinality(before(t)) \in Nat /\ Cardinality(before(s)) \in Nat
    BY <2>3, <2>4, FS_CardinalityType
  <2>6. Cardinality(before(s)) < limit /\ t \in later
    BY <1>2, <1>3
  <2>7. Cardinality(before(t)) < limit
    BY <2>4, <2>5, <2>6
  <2> QED
    BY <1>2, <2>6, <2>7
<1> QED
  BY <1>1, <1>2, <1>3

\* A run without events.
LEMMA InitRun == RunInit => RunInv
<1> SUFFICES ASSUME RunInit PROVE RunInv
  OBVIOUS
<1>1. Last = -1 /\ 0..Last = {}
  BY DEF RunInit, Last
<1>2. RunTypeOK
  <2>1. Nowhere \in Nowhere..Last
    BY <1>1 DEF Nowhere
  <2>2. nextSeq \in 0..MaxSeq + 1 /\ work \in 0..MaxWork
    BY RunAssumption DEF RunInit
  <2>3. live \in [at : {"out", "in", "resync", "missing"},
                  from : Nowhere..Last, cursor : Nowhere..Last]
    BY <2>1 DEF RunInit
  <2>4. replay \in [at : {"out", "checked", "anchored", "in", "end", "resync", "missing"},
                    from : Nowhere..Last, cursor : Nowhere..Last,
                    ahead : SUBSET (0..Last), last : BOOLEAN]
    BY <2>1 DEF RunInit
  <2>5. got \in [Readers -> SUBSET (0..Last)]
    BY DEF RunInit
  <2> QED
    BY <2>1, <2>2, <2>3, <2>4, <2>5 DEF RunInit, RunTypeOK
<1> QED
  BY <1>1, <1>2 DEF RunInv, Unpruned, Handed

\* Events are appended, and no reader or floor is beyond the last.
LEMMA EmitKeeps == ASSUME RunInv, NEW terminal \in BOOLEAN, Emit(terminal) PROVE RunInv'
<1>1. RunTypeOK /\ Unpruned /\ Handed /\ MaxSeq \in Nat
  BY RunAssumption DEF RunInv
<1>2. /\ nextSeq' = nextSeq + 1 /\ runRows' = runRows \cup {nextSeq} /\ done' = terminal
      /\ nextSeq < MaxSeq + 1
      /\ old' = old /\ runFloor' = runFloor /\ busy' = busy /\ work' = work
      /\ selected' = selected /\ live' = live /\ replay' = replay /\ got' = got
  BY <1>1 DEF Emit, readers, RunTypeOK
<1>3. /\ nextSeq \in Nat /\ nextSeq \in 0..Last' /\ 0..Last \subseteq 0..Last'
      /\ Nowhere..Last \subseteq Nowhere..Last' /\ Last = nextSeq - 1 /\ Last' = nextSeq
      /\ 0..Last' = (0..Last) \cup {nextSeq} /\ nextSeq' \in 0..MaxSeq + 1
  BY <1>1, <1>2 DEF RunTypeOK, Last, Nowhere
<1>4. RunTypeOK'
  <2>1. /\ runRows' \in SUBSET (0..Last') /\ old' \in SUBSET (0..Last')
        /\ runFloor' \in Nowhere..Last' /\ selected' \in SUBSET (0..Last')
    BY <1>1, <1>2, <1>3 DEF RunTypeOK
  <2>2. live' \in [at : {"out", "in", "resync", "missing"},
                   from : Nowhere..Last', cursor : Nowhere..Last']
    BY <1>1, <1>2, <1>3 DEF RunTypeOK
  <2>3. replay' \in [at : {"out", "checked", "anchored", "in", "end", "resync", "missing"},
                     from : Nowhere..Last', cursor : Nowhere..Last',
                     ahead : SUBSET (0..Last'), last : BOOLEAN]
    BY <1>1, <1>2, <1>3 DEF RunTypeOK
  <2>4. got' \in [Readers -> SUBSET (0..Last')]
    BY <1>1, <1>2, <1>3 DEF RunTypeOK
  <2> QED
    BY <1>1, <1>2, <1>3, <2>1, <2>2, <2>3, <2>4 DEF RunTypeOK
<1>5. Unpruned'
  BY <1>1, <1>2, <1>3 DEF Unpruned
<1>6. Handed'
  <2>1. live.cursor < nextSeq /\ live.cursor \in Int
    BY <1>1, <1>3 DEF RunTypeOK, Nowhere
  <2> QED
    BY <1>1, <1>2, <1>3, <2>1 DEF Handed
<1> QED
  BY <1>4, <1>5, <1>6 DEF RunInv

\* What is deleted is at or before the floor that is left.
LEMMA DeleteKeeps == ASSUME RunInv, DeleteSelected PROVE RunInv'
<1>1. RunTypeOK /\ Unpruned /\ Handed
  BY DEF RunInv
<1> DEFINE deleted == IF Protected THEN {} ELSE selected \cap runRows
<1>2. /\ runRows' = runRows \ deleted /\ runFloor' = Max({runFloor} \cup deleted)
      /\ selected' = {} /\ nextSeq' = nextSeq /\ done' = done /\ old' = old
      /\ busy' = busy /\ work' = work /\ live' = live /\ replay' = replay /\ got' = got
  BY DEF DeleteSelected, readers
<1>3. Last \in Nat \cup {-1} /\ Last' = Last
  BY <1>1, <1>2, RunAssumption DEF RunTypeOK, Last
<1>4. deleted \in SUBSET runRows /\ runRows \in SUBSET (0..Last)
  BY <1>1 DEF RunTypeOK
<1> HIDE DEF deleted
<1>5. {runFloor} \cup deleted \in SUBSET (Nowhere..Last)
  BY <1>1, <1>3, <1>4 DEF RunTypeOK, Nowhere
<1>6. /\ runFloor' \in {runFloor} \cup deleted
      /\ \A y \in {runFloor} \cup deleted : y <= runFloor'
  BY <1>2, <1>3, <1>5, NewestIsMember
<1>7. runFloor' \in Nowhere..Last /\ runRows' \in SUBSET (0..Last)
  BY <1>2, <1>4, <1>5, <1>6
<1>8. RunTypeOK'
  BY <1>1, <1>2, <1>3, <1>7 DEF RunTypeOK
<1>9. Unpruned'
  <2>1. ASSUME NEW s \in 0..Last, s > runFloor' PROVE s \in runRows'
    <3>1. runFloor <= runFloor' /\ runFloor \in Int /\ runFloor' \in Int
      BY <1>1, <1>6, <1>7 DEF RunTypeOK, Nowhere
    <3>2. s > runFloor /\ s \notin deleted
      BY <1>6, <2>1, <3>1
    <3> QED
      BY <1>1, <1>2, <3>2 DEF Unpruned
  <2> QED
    BY <1>3, <2>1 DEF Unpruned
<1>10. Handed'
  BY <1>1, <1>2, <1>3 DEF Handed
<1> QED
  BY <1>8, <1>9, <1>10 DEF RunInv

\* A page begins right after the cursor, which is not before the floor.
LEMMA PollKeeps == ASSUME RunInv, PollLive PROVE RunInv'
<1>1. RunTypeOK /\ Unpruned /\ Handed
  BY DEF RunInv
<1> DEFINE batch == RowsAfter(live.cursor, Page)
<1>2. /\ nextSeq' = nextSeq /\ done' = done /\ runRows' = runRows /\ runFloor' = runFloor
      /\ old' = old /\ busy' = busy /\ work' = work /\ selected' = selected
      /\ replay' = replay
  BY DEF PollLive, stream
<1>3. Last \in Nat \cup {-1} /\ Last' = Last
  BY <1>1, <1>2, RunAssumption DEF RunTypeOK, Last
<1>4. live.cursor \in Int /\ live.cursor \in Nowhere..Last /\ runFloor \in Int /\ Page \in Nat
  BY <1>1, RunAssumption DEF RunTypeOK, Nowhere
<1>5. CASE live' = [live EXCEPT !.at = "resync"] /\ got' = got
  <2>1. live' \in [at : {"out", "in", "resync", "missing"},
                   from : Nowhere..Last, cursor : Nowhere..Last]
        /\ live'.from = live.from /\ live'.cursor = live.cursor
    BY <1>1, <1>5 DEF RunTypeOK
  <2>2. RunTypeOK'
    BY <1>1, <1>2, <1>3, <1>5, <2>1 DEF RunTypeOK
  <2> QED
    BY <1>1, <1>2, <1>3, <1>5, <2>1, <2>2 DEF RunInv, Unpruned, Handed
<1>6. CASE /\ ~OutsideRun(live.cursor) /\ batch # {}
           /\ live' = [live EXCEPT !.cursor = Max(batch)]
           /\ got' = [got EXCEPT !["live"] = @ \cup batch]
  <2>1. /\ batch \in SUBSET runRows /\ runRows \in SUBSET (0..Last)
        /\ \A s \in batch : \A t \in runRows :
             live.cursor < t /\ t <= s => t \in batch
    BY <1>1, <1>4, PageHasNoGap DEF RunTypeOK
  <2>8. batch # {}
    BY <1>6
  <2>b. live' = [live EXCEPT !.cursor = Max(batch)] /\ got' = [got EXCEPT !["live"] = @ \cup batch]
    BY <1>6
  <2> HIDE DEF batch
  <2>9. 0..Last \subseteq Nowhere..Last
    BY <1>3 DEF Nowhere
  <2>7. batch \in SUBSET (Nowhere..Last)
    BY <2>1, <2>9
  <2>2. Max(batch) \in batch
    BY <1>3, <2>7, <2>8, NewestIsMember
  <2>3. /\ live' \in [at : {"out", "in", "resync", "missing"},
                      from : Nowhere..Last, cursor : Nowhere..Last]
        /\ live'.from = live.from /\ live'.cursor = Max(batch)
    BY <1>1, <2>2, <2>7, <2>b DEF RunTypeOK
  <2>4. got' \in [Readers -> SUBSET (0..Last)] /\ got'["live"] = got["live"] \cup batch
    BY <1>1, <2>1, <2>b DEF RunTypeOK, Readers
  <2>5. RunTypeOK'
    BY <1>1, <1>2, <1>3, <2>3, <2>4 DEF RunTypeOK
  <2>6. Handed'
    <3>1. ASSUME NEW s \in 0..Last, live.from < s, s <= Max(batch) PROVE s \in got'["live"]
      <4>1. CASE s <= live.cursor
        BY <1>1, <2>4, <3>1, <4>1 DEF Handed
      <4>2. CASE s > live.cursor
        <5>1. s > runFloor
          BY <1>4, <1>6, <4>2 DEF OutsideRun
        <5>2. s \in runRows
          BY <1>1, <5>1 DEF Unpruned
        <5> QED
          BY <2>1, <2>2, <2>4, <3>1, <4>2, <5>2
      <4> QED
        BY <1>4, <4>1, <4>2
    <3> QED
      BY <1>3, <2>3, <3>1 DEF Handed
  <2> QED
    BY <1>1, <1>2, <1>3, <2>5, <2>6 DEF RunInv, Unpruned
<1> QED
  BY <1>5, <1>6 DEF PollLive

\* The replay that reads step by step.
LEMMA ReplayKeeps == ASSUME RunInv, Replay PROVE RunInv'
<1>1. RunTypeOK /\ Unpruned /\ Handed
  BY DEF RunInv
<1>2. /\ nextSeq' = nextSeq /\ done' = done /\ runRows' = runRows /\ runFloor' = runFloor
      /\ old' = old /\ busy' = busy /\ work' = work /\ selected' = selected /\ live' = live
  BY DEF Replay, CheckRetention, ReadAnchor, ReadRows, Hand, PollReplay, stream
<1>3. Last \in Nat \cup {-1} /\ Last' = Last
  BY <1>1, <1>2, RunAssumption DEF RunTypeOK, Last
<1> DEFINE T == [at : {"out", "checked", "anchored", "in", "end", "resync", "missing"},
                 from : Nowhere..Last, cursor : Nowhere..Last,
                 ahead : SUBSET (0..Last), last : BOOLEAN]
<1>4. replay \in T /\ replay.cursor \in Int /\ MaxSeq + 1 \in Nat
  BY <1>1, RunAssumption DEF RunTypeOK, Nowhere
<1>5. RowsAfter(replay.cursor, MaxSeq + 1) \in SUBSET (0..Last)
  BY <1>1, <1>4, PageHasNoGap DEF RunTypeOK
<1>6. /\ replay' \in T /\ got' \in [Readers -> SUBSET (0..Last)]
      /\ got'["live"] = got["live"]
  <2>1. CASE \E from \in Nowhere..Last : CheckRetention(from)
    <3>1. PICK from \in Nowhere..Last : CheckRetention(from)
      BY <2>1
    <3>2. PICK at \in {"resync", "anchored", "checked"} :
              replay' = [replay EXCEPT !.from = from, !.cursor = from, !.at = at]
      BY <3>1 DEF CheckRetention
    <3> QED
      BY <1>1, <1>4, <3>1, <3>2 DEF CheckRetention, RunTypeOK
  <2>2. CASE ReadAnchor
    <3>1. PICK at \in {"anchored", "missing"}, last \in BOOLEAN :
              replay' = [replay EXCEPT !.at = at, !.last = last]
      <4> DEFINE a == IF replay.at = "checked" /\ replay.cursor \in runRows
                       THEN "anchored" ELSE "missing"
                 l == replay.cursor \in Terminal \cap runRows
      <4>1. replay' = [replay EXCEPT !.at = a, !.last = l]
        BY <2>2 DEF ReadAnchor
      <4>2. a \in {"anchored", "missing"} /\ l \in BOOLEAN
        OBVIOUS
      <4> QED
        BY <4>1, <4>2
    <3> QED
      BY <1>1, <1>4, <2>2, <3>1 DEF ReadAnchor, RunTypeOK
  <2>3. CASE ReadRows
    <3>1. PICK at \in {"in", "missing"} :
              replay' = [replay EXCEPT !.at = at, !.ahead = RowsAfter(replay.cursor, MaxSeq + 1)]
      BY <2>3 DEF ReadRows
    <3> QED
      BY <1>1, <1>4, <1>5, <2>3, <3>1 DEF ReadRows, RunTypeOK
  <2>4. CASE Hand
    <3>1. PICK s : s = Min(replay.ahead)
      OBVIOUS
    <3>a. replay.ahead \in SUBSET (0..Last) /\ replay.ahead # {}
      BY <1>4, <2>4 DEF Hand
    <3>2. s \in 0..Last
      BY <1>3, <3>1, <3>a, LeastIsMember
    <3>3. s \in Nowhere..Last
      BY <1>3, <3>2 DEF Nowhere
    <3>4. PICK last \in BOOLEAN :
              replay' = [replay EXCEPT !.ahead = replay.ahead \ {s}, !.cursor = s, !.last = last]
      <4> DEFINE l == s \in Terminal
      <4>1. replay' = [replay EXCEPT !.ahead = replay.ahead \ {s}, !.cursor = s, !.last = l]
        BY <2>4, <3>1 DEF Hand
      <4>2. l \in BOOLEAN
        OBVIOUS
      <4> QED
        BY <4>1, <4>2
    <3>5. got' = [got EXCEPT !["replay"] = @ \cup {s}]
      BY <2>4, <3>1 DEF Hand
    <3>6. replay' \in T
      BY <1>4, <3>3, <3>4, <3>a
    <3> QED
      BY <1>1, <3>2, <3>5, <3>6 DEF RunTypeOK, Readers
  <2>5. CASE PollReplay
    <3>1. replay' \in {[replay EXCEPT !.at = "end"],
                       [replay EXCEPT !.ahead = RowsAfter(replay.cursor, MaxSeq + 1)]}
      BY <2>5 DEF PollReplay
    <3> QED
      BY <1>1, <1>4, <1>5, <2>5, <3>1 DEF PollReplay, RunTypeOK
  <2> QED
    BY <2>1, <2>2, <2>3, <2>4, <2>5 DEF Replay
<1>7. RunTypeOK'
  BY <1>1, <1>2, <1>3, <1>6 DEF RunTypeOK
<1> QED
  BY <1>1, <1>2, <1>3, <1>6, <1>7 DEF RunInv, Unpruned, Handed

\* Every step of a run, its pruning and its readers keeps the invariant.
LEMMA RunStep == RunInv /\ [RunNext]_runVars => RunInv'
<1> SUFFICES ASSUME RunInv, [RunNext]_runVars PROVE RunInv'
  OBVIOUS
<1>1. RunTypeOK /\ Unpruned /\ Handed
  BY DEF RunInv
<1>2. CASE \E terminal \in BOOLEAN : Emit(terminal)
  BY <1>2, EmitKeeps
<1>3. CASE Rest \/ Engage
  <2>1. /\ nextSeq' = nextSeq /\ done' = done /\ runRows' = runRows /\ runFloor' = runFloor
        /\ old' = old /\ selected' = selected /\ live' = live /\ replay' = replay
        /\ got' = got /\ busy' \in BOOLEAN
    BY <1>3 DEF Rest, Engage, stream, readers
  <2>3. work' \in 0..MaxWork
    <3>1. work \in 0..MaxWork
      BY <1>1 DEF RunTypeOK
    <3>2. work' = work \/ (work < MaxWork /\ work' = work + 1)
      BY <1>3 DEF Rest, Engage
    <3> QED
      BY <3>1, <3>2, RunAssumption
  <2>2. Last' = Last
    BY <2>1 DEF Last
  <2> QED
    BY <1>1, <2>1, <2>2, <2>3 DEF RunInv, RunTypeOK, Unpruned, Handed
<1>4. CASE (\E s \in RunSeqs : Age(s)) \/ SelectRows
  <2>1. /\ nextSeq' = nextSeq /\ done' = done /\ runRows' = runRows /\ runFloor' = runFloor
        /\ busy' = busy /\ work' = work /\ live' = live /\ replay' = replay /\ got' = got
    BY <1>4 DEF Age, SelectRows, stream, readers
  <2>2. Last' = Last
    BY <2>1 DEF Last
  <2>3. old' \in SUBSET (0..Last) /\ selected' \in SUBSET (0..Last)
    <3>1. Eligible \subseteq runRows
      BY DEF Eligible
    <3> QED
      BY <1>1, <1>4, <3>1 DEF Age, SelectRows, RunTypeOK
  <2> QED
    BY <1>1, <2>1, <2>2, <2>3 DEF RunInv, RunTypeOK, Unpruned, Handed
<1>5. CASE DeleteSelected
  BY <1>5, DeleteKeeps
<1>6. CASE PollLive
  BY <1>6, PollKeeps
<1>7. CASE \E from \in Nowhere..Last : SubscribeLive(from)
  <2>1. PICK from \in Nowhere..Last : SubscribeLive(from)
    BY <1>7
  <2>2. /\ nextSeq' = nextSeq /\ done' = done /\ runRows' = runRows /\ runFloor' = runFloor
        /\ old' = old /\ busy' = busy /\ work' = work /\ selected' = selected
        /\ replay' = replay /\ got' = got
    BY <2>1 DEF SubscribeLive, stream
  <2>3. Last' = Last
    BY <2>2 DEF Last
  <2>4. PICK at \in {"resync", "in"} : live' = [at |-> at, from |-> from, cursor |-> from]
    BY <2>1 DEF SubscribeLive
  <2>5. \A s \in 0..Last : ~(from < s /\ s <= from)
    BY <1>1 DEF RunTypeOK, Nowhere
  <2>6. RunTypeOK'
    BY <1>1, <2>2, <2>3, <2>4 DEF RunTypeOK
  <2>7. Handed'
    BY <2>3, <2>4, <2>5 DEF Handed
  <2> QED
    BY <1>1, <2>2, <2>3, <2>6, <2>7 DEF RunInv, Unpruned
<1>8. CASE Replay
  BY <1>8, ReplayKeeps
<1>9. CASE UNCHANGED runVars
  <2>1. Last' = Last
    BY <1>9 DEF runVars, Last
  <2> QED
    BY <1>1, <1>9, <2>1 DEF runVars, RunInv, RunTypeOK, Unpruned, Handed
<1> QED
  BY <1>2, <1>3, <1>4, <1>5, <1>6, <1>7, <1>8, <1>9 DEF RunNext, Run, Prune, Live

\* A subscription to a run hands over every event between the cursor it began
\* with and the one it has reached, although rows are pruned beside it
\* (run_after): for any number of events and jobs and any page.
THEOREM LiveReplayHasNoGap == RunSpec => []LiveHasNoGap
<1>1. RunInv => LiveHasNoGap
  <2> SUFFICES ASSUME RunInv PROVE LiveHasNoGap
    OBVIOUS
  <2>1. live.cursor \in Int /\ Last \in Int
    BY RunAssumption DEF RunInv, RunTypeOK, Nowhere, Last
  <2> QED
    BY <2>1 DEF RunInv, Handed, LiveHasNoGap, Missed
<1> QED
  BY <1>1, InitRun, RunStep, PTL DEF RunSpec
=============================================================================
