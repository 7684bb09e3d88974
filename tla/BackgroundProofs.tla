--------------------------- MODULE BackgroundProofs ---------------------------
(***************************************************************************)
(* Theorems about what runs in the background, for any values of the       *)
(* constants: the occurrences of an automation, for any triggers, events   *)
(* and limits, and the inputs of task threads.                             *)
(*                                                                         *)
(* An event is run once because the rows of events are never removed and   *)
(* no two have the same identity or, of GitHub, the same content.  Instants *)
(* are accounted for because the instant the automation waits for is one   *)
(* of its calendar, and the loop of Schedule::due walks a whole window, so *)
(* that it ends at the last instant that has come.                         *)
(*                                                                         *)
(* An input of a task thread is read once because it is new when it is     *)
(* accepted, and joins only a job that no worker was given: such a job is  *)
(* still queued, and a job that was given to a worker is never in the      *)
(* queue with events or reports again.  The instructions of a request are  *)
(* bounded because whatever renews the budget is counted as a request.     *)
(***************************************************************************)
EXTENDS Occurrences, TaskThreads, TLAPS, FiniteSetTheorems, SequenceTheorems,
        WellFoundedInduction


EventKinds == {"webhook", "github"}
Ids == {e.id : e \in Events}
Bodies == {e.body : e \in Events}
JobStates == {"none", "queued", "running", "waiting", "resumed", "done", "cancelled"}
Keys == (EventKinds \X Ids) \cup (Nat \X Int) \cup (Nat \X Int \X Int)
Hashes == (EventKinds \X Bodies) \cup {<<>>}
RowType ==
    [source : {"webhook", "timer", "skipped"}, key : Keys, hash : Hashes,
     from : Int, at : Int, job : JobStates, version : Nat, created : Nat]

OwnerTyped ==
    /\ trigger \in Triggers /\ enabled \in BOOLEAN /\ version \in Nat
    /\ since \in Nat /\ now \in Nat /\ since <= now /\ next \in Nat \cup {Never}
RowsTyped == rows \in Seq(RowType)
RestTyped ==
    /\ open \in BOOLEAN /\ server \in {"up", "starting"} /\ others \in Nat
    /\ counts \in [edits : Nat, others : Nat, asked : Nat, stops : Nat]
    /\ answers \in SUBSET (Events \X Nat)

AutomationTyped == OwnerTyped /\ RowsTyped /\ RestTyped

\* The rows of events: what each of them is known by, and that no other has it.
EventRows ==
    /\ \A i \in 1..Len(rows) : rows[i].source = "webhook" =>
           rows[i].key \in EventKinds \X Ids /\ rows[i].hash \in EventKinds \X Bodies
               /\ rows[i].hash[1] = rows[i].key[1]
    /\ \A i, k \in 1..Len(rows) :
           rows[i].source = "webhook" /\ rows[k].source = "webhook" =>
               /\ rows[i].key = rows[k].key => i = k
               /\ rows[i].key[1] = "github" /\ rows[i].hash = rows[k].hash => i = k

\* What a sender was told is the row of its event.
Answered ==
    \A a \in answers :
        /\ a[2] \in 1..Len(rows) /\ rows[a[2]].source = "webhook"
        /\ rows[a[2]].hash = <<rows[a[2]].key[1], a[1].body>>
        /\ rows[a[2]].key[1] # "github" => rows[a[2]].key = <<rows[a[2]].key[1], a[1].id>>

\* The automation waits for an instant of its calendar.
Waits == enabled /\ next # Never => next \in trigger.times /\ next > since

\* No row is of a configuration to come, and what is queued is of the present one.
Versions ==
    \A i \in 1..Len(rows) :
        /\ rows[i].version <= version
        /\ rows[i].job = "queued" => rows[i].version = version

AutomationInv ==
    /\ AutomationTyped /\ EventRows /\ Answered /\ Waits /\ Versions
    /\ TimesAccounted /\ OneTimerWaits

-----------------------------------------------------------------------------
(* Calendars                                                               *)

\* A set of numbers has a least one, and a bounded one a greatest.
LEMMA LeastOf ==
    ASSUME NEW S \in SUBSET Nat, S # {}
    PROVE  Min(S) \in S /\ \A y \in S : Min(S) <= y
<1> DEFINE R == {p \in Nat \X Nat : p[1] < p[2]}
<1>1. IsWellFoundedOn(R, Nat)
  BY NatLessThanWellFounded DEF OpToRel
<1> HIDE DEF R
<1>2. PICK x \in S : \A y \in S : ~(<<y, x>> \in R)
  BY <1>1, WFMin
<1>3. ASSUME NEW y \in S PROVE x <= y
  <2>1. x \in Nat /\ y \in Nat
    OBVIOUS
  <2>2. y < x => <<y, x>> \in R
    BY <2>1 DEF R
  <2> QED
    BY <1>2, <2>1, <2>2
<1>4. \E z \in S : \A y \in S : z <= y
  BY <1>3
<1> QED
  BY <1>4 DEF Min

LEMMA GreatestOf ==
    ASSUME NEW n \in Nat, NEW S \in SUBSET Int, S # {}, \A y \in S : y <= n
    PROVE  Max(S) \in S /\ \A y \in S : y <= Max(S)
<1> DEFINE D == {n - y : y \in S}
<1>1. D \in SUBSET Nat /\ D # {}
  <2>1. \A y \in S : n - y \in Nat
    OBVIOUS
  <2>2. PICK y \in S : TRUE
    OBVIOUS
  <2>3. n - y \in D
    BY <2>2
  <2> QED
    BY <2>1, <2>3
<1>2. PICK d \in D : \A e \in D : d <= e
  <2> HIDE DEF D
  <2> QED
    BY <1>1, LeastOf
<1>3. PICK x \in S : d = n - x
  OBVIOUS
<1>4. ASSUME NEW y \in S PROVE x >= y
  <2>1. n - y \in D
    OBVIOUS
  <2>2. n - x <= n - y
    BY <1>2, <1>3, <2>1
  <2>3. x \in Int /\ y \in Int
    OBVIOUS
  <2> QED
    BY <2>2, <2>3
<1>5. \E z \in S : \A y \in S : z >= y
  BY <1>4
<1>6. Max(S) \in S /\ \A y \in S : Max(S) >= y
  BY <1>5 DEF Max
<1> QED
  BY <1>6

\* The first instant of a calendar after a time, or none.
LEMMA NextAfterIs ==
    ASSUME NEW times \in SUBSET Nat, NEW t \in Nat
    PROVE  /\ NextAfter(times, t) \in Nat \cup {Never}
           /\ NextAfter(times, t) = Never => \A c \in times : c <= t
           /\ NextAfter(times, t) # Never =>
                /\ NextAfter(times, t) \in times /\ NextAfter(times, t) > t
                /\ \A c \in times : c > t => NextAfter(times, t) <= c
<1> DEFINE later == {c \in times : c > t}
<1>1. NextAfter(times, t) = IF later = {} THEN Never ELSE Min(later)
  BY DEF NextAfter
<1>2. CASE later = {}
  BY <1>1, <1>2
<1>3. CASE later # {}
  <2>1. Min(later) \in later /\ \A y \in later : Min(later) <= y
    <3>1. later \in SUBSET Nat
      OBVIOUS
    <3> HIDE DEF later
    <3> QED
      BY <1>3, <3>1, LeastOf
  <2>2. NextAfter(times, t) = Min(later)
    BY <1>1, <1>3
  <2>3. Min(later) \in times /\ Min(later) > t /\ Min(later) \in Nat
    BY <2>1
  <2>4. \A c \in times : c > t => Min(later) <= c
    BY <2>1
  <2>5. Min(later) # Never
    BY <2>3 DEF Never
  <2> QED
    BY <2>2, <2>3, <2>4, <2>5
<1> QED
  BY <1>2, <1>3

\* The walk of Schedule::due ends at the last instant of a window that has come.
LEMMA LastWalkedIs ==
    ASSUME NEW times \in SUBSET Nat, NEW first \in Int, NEW t \in Nat,
           first <= t, t - first <= Window
    PROVE  \/ LastWalked(times, first, t) = Never /\ \A c \in times : ~(first <= c /\ c <= t)
           \/ /\ LastWalked(times, first, t) \in times
              /\ first <= LastWalked(times, first, t) /\ LastWalked(times, first, t) <= t
              /\ \A c \in times : c <= t => c <= LastWalked(times, first, t)
<1> DEFINE due == {c \in times : c \in first .. t}
           upto(c) == {d \in due : d <= c}
           walked == {c \in due : Cardinality(upto(c)) <= Steps}
<1>1. LastWalked(times, first, t) = IF walked = {} THEN Never ELSE Max(walked)
  BY DEF LastWalked
<1>2. ASSUME NEW c \in due PROVE Cardinality(upto(c)) <= Steps
  <2>1. IsFiniteSet(first..t) /\ Cardinality(first..t) = t - first + 1
    BY FS_Interval
  <2>2. upto(c) \subseteq first..t
    OBVIOUS
  <2>3. Cardinality(upto(c)) <= Cardinality(first..t) /\ IsFiniteSet(upto(c))
    <3> HIDE DEF upto
    <3> QED
      BY <2>1, <2>2, FS_Subset
  <2>4. Cardinality(upto(c)) \in Nat
    <3> HIDE DEF upto
    <3> QED
      BY <2>3, FS_CardinalityType
  <2> QED
    BY <2>1, <2>3, <2>4, AutomationAssumption DEF Steps
<1>3. walked = due
  BY <1>2
<1>4. CASE due = {}
  BY <1>1, <1>3, <1>4
<1>5. CASE due # {}
  <2>1. due \in SUBSET Int /\ \A y \in due : y <= t /\ first <= y
    <3>1. \A y \in due : y \in Nat /\ y \in first..t
      OBVIOUS
    <3>2. \A y \in first..t : y \in Int /\ y <= t /\ first <= y
      OBVIOUS
    <3> QED
      BY <3>1, <3>2
  <2>2. Max(due) \in due /\ \A y \in due : y <= Max(due)
    <3> HIDE DEF due
    <3> QED
      BY <1>5, <2>1, GreatestOf
  <2>3. LastWalked(times, first, t) = Max(due)
    BY <1>1, <1>3, <1>5
  <2>4. ASSUME NEW c \in times, c <= t PROVE c <= Max(due)
    <3>1. Max(due) \in Int /\ first <= Max(due) /\ c \in Nat
      BY <2>1, <2>2
    <3>2. CASE first <= c
      <4>1. c \in due
        BY <2>4, <3>2
      <4> QED
        BY <2>2, <4>1
    <3>3. CASE ~(first <= c)
      BY <3>1, <3>3
    <3> QED
      BY <3>2, <3>3
  <2> QED
    BY <2>2, <2>3, <2>4
<1> QED
  BY <1>4, <1>5

\* What the tick plans for what is due: nothing run and all of it skipped, the
\* one instant that is due, or the last one with the others skipped.
SkipsAll(plan) == plan.run = Never /\ plan.skipped = now
RunsOne(plan) ==
    /\ plan.run = next /\ plan.skipped = Never
    /\ \A c \in trigger.times : next <= c /\ c <= now => c = next
RunsLast(plan) ==
    /\ plan.run \in trigger.times /\ next < plan.run /\ plan.run <= now
    /\ plan.skipped = plan.run - 1
    /\ \A c \in trigger.times : c <= now => c <= plan.run

LEMMA PlanIs ==
    ASSUME OwnerTyped, Waits, Due, NEW recovering \in BOOLEAN
    PROVE  LET plan == DuePlan(trigger, next, now, recovering)
           IN  /\ plan.next = NextAfter(trigger.times, now)
               /\ SkipsAll(plan) \/ RunsOne(plan) \/ RunsLast(plan)
<1> DEFINE first == Max({next, now - Window})
           latest == LastWalked(trigger.times, first, now)
           missed == recovering \/ now - next > Late
           plan == DuePlan(trigger, next, now, recovering)
<1>1. /\ trigger.times \in SUBSET Nat /\ now \in Nat /\ next \in Nat /\ next <= now
      /\ next \in trigger.times /\ Window \in Nat
  BY AutomationAssumption DEF OwnerTyped, Due, Waits
<1>2. first \in {next, now - Window} /\ first >= next /\ first >= now - Window
  <2>1. /\ {next, now - Window} \in SUBSET Int /\ {next, now - Window} # {}
        /\ \A y \in {next, now - Window} : y <= now
    BY <1>1
  <2>2. /\ Max({next, now - Window}) \in {next, now - Window}
        /\ \A y \in {next, now - Window} : y <= Max({next, now - Window})
    BY <1>1, <2>1, GreatestOf
  <2> QED
    BY <1>1, <2>2
<1> HIDE DEF first
<1>3. first \in Int /\ first <= now /\ now - first <= Window
  BY <1>1, <1>2
<1>4. \/ latest = Never /\ \A c \in trigger.times : ~(first <= c /\ c <= now)
      \/ /\ latest \in trigger.times /\ first <= latest /\ latest <= now
         /\ \A c \in trigger.times : c <= now => c <= latest
  BY <1>1, <1>3, LastWalkedIs
<1>5. plan = IF missed /\ trigger.policy = "skip"
             THEN [run |-> Never, next |-> NextAfter(trigger.times, now), skipped |-> now]
             ELSE [run |-> latest, next |-> NextAfter(trigger.times, now),
                   skipped |-> IF latest = next THEN Never
                               ELSE IF latest = Never THEN now ELSE latest - 1]
  BY DEF DuePlan, first
<1> HIDE DEF latest, plan, missed
<1>6. plan.next = NextAfter(trigger.times, now)
  BY <1>5
<1>7. CASE missed /\ trigger.policy = "skip"
  BY <1>5, <1>6, <1>7 DEF SkipsAll, plan
<1>8. CASE ~(missed /\ trigger.policy = "skip") /\ latest = Never
  <2>1. latest # next
    BY <1>1, <1>8 DEF Never
  <2>2. SkipsAll(plan)
    BY <1>5, <1>8, <2>1 DEF SkipsAll
  <2> QED
    BY <1>6, <2>2 DEF plan
<1>9. CASE ~(missed /\ trigger.policy = "skip") /\ latest # Never /\ latest = next
  <2>1. RunsOne(plan)
    <3>1. plan.run = next /\ plan.skipped = Never
      BY <1>5, <1>9
    <3>2. \A c \in trigger.times : next <= c /\ c <= now => c = next
      BY <1>1, <1>4, <1>9
    <3> QED
      BY <3>1, <3>2 DEF RunsOne
  <2> QED
    BY <1>6, <2>1 DEF plan
<1>10. CASE ~(missed /\ trigger.policy = "skip") /\ latest # Never /\ latest # next
  <2>1. RunsLast(plan)
    <3>1. plan.run = latest /\ plan.skipped = latest - 1
      BY <1>5, <1>10
    <3>2. /\ latest \in trigger.times /\ next < latest /\ latest <= now
          /\ \A c \in trigger.times : c <= now => c <= latest
      BY <1>1, <1>2, <1>3, <1>4, <1>10
    <3> QED
      BY <3>1, <3>2 DEF RunsLast
  <2> QED
    BY <1>6, <2>1 DEF plan
<1> QED
  BY <1>7, <1>8, <1>9, <1>10

-----------------------------------------------------------------------------
(* Rows                                                                    *)

\* A row that is the same but for its job, which is not queued again.
Alike(q, i) ==
    /\ q[i].source = rows[i].source /\ q[i].key = rows[i].key /\ q[i].hash = rows[i].hash
    /\ q[i].from = rows[i].from /\ q[i].at = rows[i].at /\ q[i].version = rows[i].version
    /\ q[i].job = "queued" => rows[i].job = "queued"

Kept(q) ==
    /\ q \in Seq(RowType) /\ Len(q) = Len(rows)
    /\ \A i \in 1..Len(rows) : Alike(q, i)

\* A function on the places of a sequence is a sequence of the same length.
LEMMA RowsAreSeq ==
    ASSUME NEW n \in Nat, NEW f \in [1..n -> RowType]
    PROVE  f \in Seq(RowType) /\ Len(f) = n
OBVIOUS

\* Rows and their places.
LEMMA PlacesOfRows ==
    RowsTyped => /\ Len(rows) \in Nat /\ DOMAIN rows = 1..Len(rows)
                 /\ rows \in [1..Len(rows) -> RowType]
                 /\ \A i \in 1..Len(rows) : rows[i] \in RowType
BY LenProperties, ElementOfSeq DEF RowsTyped

LEMMA PlacesOfRowsAfter ==
    RowsTyped' => /\ Len(rows') \in Nat /\ DOMAIN rows' = 1..Len(rows')
                  /\ \A i \in 1..Len(rows') : rows'[i] \in RowType
BY LenProperties, ElementOfSeq DEF RowsTyped

\* A row with another job.
WithJob(r, state) == [r EXCEPT !.job = state]

LEMMA WithJobIs ==
    ASSUME NEW r \in RowType, NEW state \in JobStates
    PROVE  /\ WithJob(r, state) \in RowType
           /\ WithJob(r, state).source = r.source /\ WithJob(r, state).key = r.key
           /\ WithJob(r, state).hash = r.hash /\ WithJob(r, state).from = r.from
           /\ WithJob(r, state).at = r.at /\ WithJob(r, state).version = r.version
           /\ WithJob(r, state).job = state
BY DEF WithJob, RowType

\* Rows of which some have another job.
LEMMA RejobbedIs ==
    ASSUME RowsTyped, NEW P \in SUBSET (1..Len(rows)), NEW state \in JobStates, state # "queued",
           NEW q,
           q = [i \in 1..Len(rows) |-> IF i \in P THEN WithJob(rows[i], state) ELSE rows[i]]
    PROVE  /\ Kept(q)
           /\ \A i \in P : q[i].job = state
           /\ \A i \in 1..Len(rows) \ P : q[i] = rows[i]
<1>1. /\ Len(rows) \in Nat /\ \A i \in 1..Len(rows) : rows[i] \in RowType
  BY PlacesOfRows
<1>2. \A i \in 1..Len(rows) : q[i] = IF i \in P THEN WithJob(rows[i], state) ELSE rows[i]
  OBVIOUS
<1>3. \A i \in 1..Len(rows) : q[i] \in RowType
  BY <1>1, <1>2, WithJobIs
<1>4. q \in [1..Len(rows) -> RowType]
  BY <1>3
<1>5. q \in Seq(RowType) /\ Len(q) = Len(rows)
  BY <1>1, <1>4, RowsAreSeq
<1>6. ASSUME NEW i \in 1..Len(rows) PROVE Alike(q, i)
  <2>1. CASE i \in P
    <3>1. q[i] = WithJob(rows[i], state)
      BY <1>2, <2>1
    <3>2. q[i].job = state
      BY <1>1, <3>1, WithJobIs
    <3> QED
      BY <1>1, <3>1, <3>2, WithJobIs DEF Alike
  <2>2. CASE i \notin P
    BY <1>2, <2>2 DEF Alike
  <2> QED
    BY <2>1, <2>2
<1>7. \A i \in P : q[i].job = state
  <2> SUFFICES ASSUME NEW i \in P PROVE q[i].job = state
    OBVIOUS
  <2>1. q[i] = WithJob(rows[i], state) /\ rows[i] \in RowType
    BY <1>1, <1>2
  <2> QED
    BY <2>1, WithJobIs
<1> QED
  BY <1>2, <1>5, <1>6, <1>7 DEF Kept

\* What is withdrawn is no longer queued, and stays otherwise.
LEMMA WithdrawnIs ==
    ASSUME RowsTyped
    PROVE  /\ Kept(Withdrawn(rows))
           /\ \A i \in 1..Len(rows) : Withdrawn(rows)[i].job # "queued"
<1>1. DOMAIN rows = 1..Len(rows) /\ QueuedOf(rows) \in SUBSET (1..Len(rows))
  BY PlacesOfRows DEF QueuedOf
<1>2. PICK P \in SUBSET (1..Len(rows)) : P = QueuedOf(rows)
  BY <1>1
<1>3. PICK q : q = [i \in 1..Len(rows) |-> IF i \in P THEN WithJob(rows[i], "cancelled") ELSE rows[i]]
  OBVIOUS
<1>4. Withdrawn(rows) = q
  BY <1>1, <1>2, <1>3 DEF Withdrawn, WithJob
<1>5. "cancelled" \in JobStates /\ "cancelled" # "queued"
  BY DEF JobStates
<1>6. /\ Kept(q) /\ \A i \in P : q[i].job = "cancelled"
      /\ \A i \in 1..Len(rows) \ P : q[i] = rows[i]
  BY <1>3, <1>5, RejobbedIs
<1>7. ASSUME NEW i \in 1..Len(rows) PROVE q[i].job # "queued"
  <2>1. CASE i \in P
    BY <1>5, <1>6, <2>1
  <2>2. CASE i \notin P
    <3>1. q[i] = rows[i] /\ rows[i].job # "queued"
      BY <1>1, <1>2, <1>6, <2>2 DEF QueuedOf
    <3> QED
      BY <3>1
  <2> QED
    BY <2>1, <2>2
<1> QED
  BY <1>4, <1>6, <1>7

\* A job moves.
Moved(i, state) == [rows EXCEPT ![i].job = state]

LEMMA MovedIs ==
    ASSUME RowsTyped, NEW i \in 1..Len(rows), NEW state \in JobStates, state # "queued"
    PROVE  Kept(Moved(i, state))
<1>1. DOMAIN rows = 1..Len(rows) /\ rows \in [1..Len(rows) -> RowType]
  BY PlacesOfRows
<1>2. PICK P \in SUBSET (1..Len(rows)) : P = {i}
  OBVIOUS
<1>3. PICK q : q = [k \in 1..Len(rows) |-> IF k \in P THEN WithJob(rows[k], state) ELSE rows[k]]
  OBVIOUS
<1>4. Moved(i, state) = q
  BY <1>1, <1>2, <1>3 DEF WithJob, Moved
<1> QED
  BY <1>3, <1>4, RejobbedIs

\* When the server stops, what ran is done.
Halted ==
    [i \in DOMAIN rows |->
        IF rows[i].job = "running" THEN [rows[i] EXCEPT !.job = "done"] ELSE rows[i]]

LEMMA HaltedIs ==
    ASSUME RowsTyped
    PROVE  Kept(Halted)
<1>1. DOMAIN rows = 1..Len(rows)
  BY PlacesOfRows
<1>2. PICK P \in SUBSET (1..Len(rows)) : P = {i \in 1..Len(rows) : rows[i].job = "running"}
  OBVIOUS
<1>3. PICK q : q = [k \in 1..Len(rows) |-> IF k \in P THEN WithJob(rows[k], "done") ELSE rows[k]]
  OBVIOUS
<1>4. Halted = q
  BY <1>1, <1>2, <1>3 DEF WithJob, Halted
<1>5. "done" \in JobStates /\ "done" # "queued"
  BY DEF JobStates
<1> QED
  BY <1>3, <1>4, <1>5, RejobbedIs

\* The rows the actions append.
EventRow(e) == Row("webhook", <<trigger.kind, e.id>>, <<trigger.kind, e.body>>, now, now, "queued")
TimerRow(t) == Row("timer", <<version, t>>, <<>>, t, t, "queued")
SkippedRow(s) == Row("skipped", <<version, next, s>>, <<>>, next, s, "none")

LEMMA EventRowIs ==
    ASSUME OwnerTyped, NEW e \in Events, trigger.kind \in EventKinds
    PROVE  /\ EventRow(e) \in RowType
           /\ EventRow(e).source = "webhook" /\ EventRow(e).key = <<trigger.kind, e.id>>
           /\ EventRow(e).hash = <<trigger.kind, e.body>> /\ EventRow(e).version = version
           /\ EventRow(e).key \in EventKinds \X Ids /\ EventRow(e).hash \in EventKinds \X Bodies
<1>1. <<trigger.kind, e.id>> \in EventKinds \X Ids
  BY DEF Ids
<1>2. <<trigger.kind, e.body>> \in EventKinds \X Bodies
  BY DEF Bodies
<1>3. <<trigger.kind, e.id>> \in Keys /\ <<trigger.kind, e.body>> \in Hashes
  BY <1>1, <1>2 DEF Keys, Hashes
<1>4. "queued" \in JobStates
  BY DEF JobStates
<1> QED
  BY <1>1, <1>2, <1>3, <1>4 DEF EventRow, Row, RowType, OwnerTyped

LEMMA TimerRowIs ==
    ASSUME OwnerTyped, NEW t, t \in Nat
    PROVE  /\ TimerRow(t) \in RowType
           /\ TimerRow(t).source = "timer" /\ TimerRow(t).version = version
           /\ TimerRow(t).from = t /\ TimerRow(t).at = t
<1>1. <<version, t>> \in Keys /\ <<>> \in Hashes
  BY DEF Keys, Hashes, OwnerTyped
<1>2. "queued" \in JobStates
  BY DEF JobStates
<1> QED
  BY <1>1, <1>2 DEF TimerRow, Row, RowType, OwnerTyped

LEMMA SkippedRowIs ==
    ASSUME OwnerTyped, next \in Nat, NEW s, s \in Int
    PROVE  /\ SkippedRow(s) \in RowType
           /\ SkippedRow(s).source = "skipped" /\ SkippedRow(s).version = version
           /\ SkippedRow(s).from = next /\ SkippedRow(s).at = s /\ SkippedRow(s).job = "none"
<1>1. <<version, next, s>> \in Keys /\ <<>> \in Hashes
  BY DEF Keys, Hashes, OwnerTyped
<1>2. "none" \in JobStates
  BY DEF JobStates
<1> QED
  BY <1>1, <1>2 DEF SkippedRow, Row, RowType, OwnerTyped

\* Appending a row leaves the others in place.
LEMMA Appended ==
    ASSUME NEW q \in Seq(RowType), NEW r \in RowType
    PROVE  /\ Append(q, r) \in Seq(RowType) /\ Len(Append(q, r)) = Len(q) + 1
           /\ Append(q, r)[Len(q) + 1] = r
           /\ \A i \in 1..Len(q) : Append(q, r)[i] = q[i]
BY AppendProperties

-----------------------------------------------------------------------------
(* What the kinds of steps do to the rows                                  *)

\* Rows are added at the end and stay otherwise.
Extends ==
    /\ rows' \in Seq(RowType) /\ Len(rows) <= Len(rows')
    /\ \A i \in 1..Len(rows) : Alike(rows', i)

LEMMA SameRowsAreKept ==
    ASSUME RowsTyped
    PROVE  Kept(rows)
BY DEF RowsTyped, Kept, Alike

LEMMA KeptExtends ==
    ASSUME RowsTyped, Kept(rows')
    PROVE  Extends
BY PlacesOfRows DEF Kept, Extends

\* A row appended to rows that were kept.
LEMMA AppendKept ==
    ASSUME RowsTyped, NEW q, Kept(q), NEW r \in RowType, rows' = Append(q, r)
    PROVE  Extends /\ Len(rows') = Len(rows) + 1 /\ rows'[Len(rows) + 1] = r
           /\ \A i \in 1..Len(rows) : rows'[i] = q[i]
<1>1. q \in Seq(RowType) /\ Len(q) = Len(rows) /\ Len(rows) \in Nat
  BY PlacesOfRows DEF Kept
<1>2. /\ rows' \in Seq(RowType) /\ Len(rows') = Len(rows) + 1 /\ rows'[Len(rows) + 1] = r
      /\ \A i \in 1..Len(rows) : rows'[i] = q[i]
  BY <1>1, Appended
<1>3. \A i \in 1..Len(rows) : Alike(rows', i)
  BY <1>2 DEF Kept, Alike
<1> QED
  BY <1>1, <1>2, <1>3 DEF Extends

\* Events stay known while no event is added.
LEMMA EventsStay ==
    ASSUME RowsTyped, EventRows, Extends,
           \A i \in 1..Len(rows') : i > Len(rows) => rows'[i].source # "webhook"
    PROVE  EventRows' /\ (Answered /\ answers' = answers => Answered')
<1>1. /\ Len(rows) \in Nat /\ Len(rows') \in Nat /\ Len(rows) <= Len(rows')
      /\ \A i \in 1..Len(rows') : rows'[i].source = "webhook" => i \in 1..Len(rows)
  BY PlacesOfRows, PlacesOfRowsAfter DEF Extends, RowsTyped
<1>2. \A i \in 1..Len(rows) :
          /\ rows'[i].source = rows[i].source /\ rows'[i].key = rows[i].key
          /\ rows'[i].hash = rows[i].hash
  BY DEF Extends, Alike
<1>3. EventRows'
  BY <1>1, <1>2 DEF EventRows
<1>4. Answered /\ answers' = answers => Answered'
  <2>1. 1..Len(rows) \subseteq 1..Len(rows')
    BY <1>1
  <2> QED
    BY <1>2, <2>1 DEF Answered
<1> QED
  BY <1>3, <1>4

\* Rows that are kept account for what they did.
LEMMA KeptAccount ==
    ASSUME RowsTyped, Extends, version' = version, NEW i \in 1..Len(rows), NEW c
    PROVE  Accounts(i, c)' <=> Accounts(i, c)
BY DEF Extends, Alike, Accounts

\* One row accounts for an instant, by its place.
Once(c) == \E i \in 1..Len(rows) : \A k \in 1..Len(rows) : Accounts(k, c) <=> k = i
NotYet(c) == \A i \in 1..Len(rows) : ~Accounts(i, c)
Since(c) == c > since /\ (next = Never \/ c < next)

LEMMA AccountedIs ==
    ASSUME RowsTyped
    PROVE  TimesAccounted <=>
               (enabled => \A c \in trigger.times :
                    (Since(c) => Once(c)) /\ (~Since(c) => NotYet(c)))
<1>1. DOMAIN rows = 1..Len(rows)
  BY PlacesOfRows
<1>2. ASSUME NEW c
      PROVE  (\E i \in DOMAIN rows : {k \in DOMAIN rows : Accounts(k, c)} = {i}) <=> Once(c)
  <2>1. ASSUME NEW i \in 1..Len(rows)
        PROVE  {k \in 1..Len(rows) : Accounts(k, c)} = {i}
                   <=> \A k \in 1..Len(rows) : Accounts(k, c) <=> k = i
    OBVIOUS
  <2> QED
    BY <1>1, <2>1 DEF Once
<1>3. \A c : (\A i \in DOMAIN rows : ~Accounts(i, c)) <=> NotYet(c)
  BY <1>1 DEF NotYet
<1> QED
  BY <1>2, <1>3 DEF TimesAccounted, Since

LEMMA AccountedAfterIs ==
    ASSUME RowsTyped'
    PROVE  TimesAccounted' <=>
               (enabled' => \A c \in trigger'.times :
                    (Since(c)' => Once(c)') /\ (~Since(c)' => NotYet(c)'))
<1>1. DOMAIN rows' = 1..Len(rows')
  BY PlacesOfRowsAfter
<1>2. ASSUME NEW c
      PROVE  (\E i \in DOMAIN rows' : {k \in DOMAIN rows' : Accounts(k, c)'} = {i}) <=> Once(c)'
  <2>1. ASSUME NEW i \in 1..Len(rows')
        PROVE  {k \in 1..Len(rows') : Accounts(k, c)'} = {i}
                   <=> \A k \in 1..Len(rows') : Accounts(k, c)' <=> k = i
    OBVIOUS
  <2> QED
    BY <1>1, <2>1 DEF Once
<1>3. \A c : (\A i \in DOMAIN rows' : ~Accounts(i, c)') <=> NotYet(c)'
  BY <1>1 DEF NotYet
<1> QED
  BY <1>2, <1>3 DEF TimesAccounted, Since

\* What OneTimerWaits says of the places of the rows.
SoleTimer ==
    \A i, k \in 1..Len(rows) :
        /\ rows[i].job = "queued" /\ rows[i].source = "timer"
        /\ rows[k].job = "queued" /\ rows[k].source = "timer"
        => i = k

LEMMA SoleTimerIs ==
    RowsTyped => (OneTimerWaits <=> SoleTimer)
BY PlacesOfRows DEF OneTimerWaits, QueuedOf, SoleTimer

LEMMA SoleTimerAfterIs ==
    RowsTyped' => (OneTimerWaits' <=> SoleTimer')
BY PlacesOfRowsAfter DEF OneTimerWaits, QueuedOf, SoleTimer

\* While no row is added, what is known of the rows stays.
LEMMA KeptRowsKeep ==
    ASSUME RowsTyped, Kept(rows')
    PROVE  /\ RowsTyped'
           /\ EventRows => EventRows'
           /\ EventRows /\ Answered /\ answers' = answers => Answered'
           /\ OneTimerWaits => OneTimerWaits'
           /\ Versions /\ version' = version => Versions'
<1>1. Len(rows') = Len(rows) /\ Len(rows) \in Nat /\ RowsTyped'
  BY PlacesOfRows DEF Kept, RowsTyped
<1>2. Extends
  BY KeptExtends
<1>3. \A i \in 1..Len(rows') : ~(i > Len(rows))
  BY <1>1
<1>4. (EventRows => EventRows') /\ (EventRows /\ Answered /\ answers' = answers => Answered')
  BY <1>2, <1>3, EventsStay
<1>5. \A i \in 1..Len(rows) : Alike(rows', i)
  BY DEF Kept
<1>6. OneTimerWaits => OneTimerWaits'
  <2>1. SoleTimer => SoleTimer'
    BY <1>1, <1>5 DEF Alike, SoleTimer
  <2> QED
    BY <1>1, <2>1, SoleTimerIs, SoleTimerAfterIs
<1>7. Versions /\ version' = version => Versions'
  BY <1>1, <1>5 DEF Alike, Versions
<1> QED
  BY <1>1, <1>4, <1>6, <1>7

\* While the configuration and the instant it waits for stay too, instants stay
\* accounted for.
LEMMA KeptRowsAccount ==
    ASSUME RowsTyped, Kept(rows'), TimesAccounted,
           UNCHANGED <<trigger, enabled, version, next, since>>
    PROVE  TimesAccounted'
<1>1. Len(rows') = Len(rows) /\ Len(rows) \in Nat /\ RowsTyped'
  BY PlacesOfRows DEF Kept, RowsTyped
<1>2. Extends
  BY KeptExtends
<1>3. ASSUME NEW c PROVE (Once(c)' <=> Once(c)) /\ (NotYet(c)' <=> NotYet(c)) /\ (Since(c)' <=> Since(c))
  <2>1. \A i \in 1..Len(rows) : Accounts(i, c)' <=> Accounts(i, c)
    BY <1>2, KeptAccount
  <2>2. NotYet(c)' <=> NotYet(c)
    BY <1>1, <2>1 DEF NotYet
  <2>3. Since(c)' <=> Since(c)
    BY DEF Since
  <2>4. Once(c) => Once(c)'
    <3>1. ASSUME NEW i \in 1..Len(rows), \A k \in 1..Len(rows) : Accounts(k, c) <=> k = i
          PROVE  \A k \in 1..Len(rows') : Accounts(k, c)' <=> k = i
      BY <1>1, <2>1, <3>1
    <3> QED
      BY <1>1, <3>1 DEF Once
  <2>5. Once(c)' => Once(c)
    <3>1. ASSUME NEW i \in 1..Len(rows'), \A k \in 1..Len(rows') : Accounts(k, c)' <=> k = i
          PROVE  \A k \in 1..Len(rows) : Accounts(k, c) <=> k = i
      BY <1>1, <2>1, <3>1
    <3> QED
      BY <1>1, <3>1 DEF Once
  <2> QED
    BY <2>2, <2>3, <2>4, <2>5
<1>4. enabled => \A c \in trigger.times : (Since(c) => Once(c)) /\ (~Since(c) => NotYet(c))
  BY AccountedIs
<1>5. enabled' => \A c \in trigger'.times : (Since(c)' => Once(c)') /\ (~Since(c)' => NotYet(c)')
  BY <1>3, <1>4
<1> QED
  BY <1>1, <1>5, AccountedAfterIs

\* A step that adds no row and leaves the configuration.
LEMMA KeptStep ==
    ASSUME AutomationInv, Kept(rows'), UNCHANGED <<trigger, enabled, version, next, since>>,
           now' \in Nat, now <= now'
    PROVE  /\ OwnerTyped' /\ RowsTyped' /\ EventRows' /\ Waits' /\ Versions'
           /\ TimesAccounted' /\ OneTimerWaits'
           /\ answers' = answers => Answered'
<1>1. OwnerTyped'
  BY DEF OwnerTyped, AutomationInv, AutomationTyped
<1>2. Waits'
  BY DEF AutomationInv, Waits
<1>3. RowsTyped /\ TimesAccounted
  BY DEF AutomationInv, AutomationTyped
<1>4. TimesAccounted'
  BY <1>3, KeptRowsAccount
<1> QED
  BY <1>1, <1>2, <1>3, <1>4, KeptRowsKeep DEF AutomationInv

-----------------------------------------------------------------------------
(* The actions                                                             *)

LEMMA AnswerAgainKeeps ==
    ASSUME AutomationInv, NEW e \in Events, AnswerAgain(e)
    PROVE  AutomationInv'
<1>1. /\ OwnerTyped /\ RowsTyped /\ RestTyped /\ EventRows /\ Answered
  BY DEF AutomationInv, AutomationTyped
<1>2. /\ UNCHANGED <<trigger, enabled, version, next, since>> /\ rows' = rows
      /\ now' = now /\ UNCHANGED <<open, others, server, counts>>
      /\ Known(e) # {} /\ answers' = answers \cup {<<e, Min(Known(e))>>}
      /\ trigger.kind \in EventKinds
  BY DEF AnswerAgain, owner, EventKinds
<1>3. now' \in Nat /\ now <= now'
  BY <1>1, <1>2 DEF OwnerTyped
<1>4. /\ OwnerTyped' /\ RowsTyped' /\ EventRows' /\ Waits' /\ Versions'
      /\ TimesAccounted' /\ OneTimerWaits'
  BY <1>1, <1>2, <1>3, SameRowsAreKept, KeptStep
<1>5. Known(e) \in SUBSET Nat /\ Known(e) \subseteq 1..Len(rows)
  BY <1>1, PlacesOfRows DEF Known, SameKey, SameBody
<1>6. PICK i \in Known(e) : i = Min(Known(e))
  BY <1>2, <1>5, LeastOf
<1>7. /\ i \in 1..Len(rows) /\ rows[i].source = "webhook"
      /\ rows[i].hash = <<trigger.kind, e.body>>
      /\ trigger.kind # "github" => rows[i].key = <<trigger.kind, e.id>>
  BY <1>5 DEF Known, SameKey, SameBody
<1>8. rows[i].key[1] = trigger.kind
  <2>1. rows[i].hash[1] = rows[i].key[1]
    BY <1>1, <1>7 DEF EventRows
  <2> QED
    BY <1>7, <2>1
<1>9. answers' = answers \cup {<<e, i>>} /\ <<e, i>> \in Events \X Nat
  BY <1>2, <1>5, <1>6
<1>10. Answered'
  <2> SUFFICES ASSUME NEW a \in answers'
               PROVE  /\ a[2] \in 1..Len(rows) /\ rows[a[2]].source = "webhook"
                      /\ rows[a[2]].hash = <<rows[a[2]].key[1], a[1].body>>
                      /\ rows[a[2]].key[1] # "github" =>
                             rows[a[2]].key = <<rows[a[2]].key[1], a[1].id>>
    BY <1>2 DEF Answered
  <2>1. CASE a \in answers
    BY <1>1, <2>1 DEF Answered
  <2>2. CASE a = <<e, i>>
    <3>1. a[1] = e /\ a[2] = i
      BY <2>2
    <3> QED
      BY <1>7, <1>8, <3>1
  <2> QED
    BY <1>9, <2>1, <2>2
<1>11. RestTyped'
  BY <1>1, <1>2, <1>9 DEF RestTyped
<1> QED
  BY <1>4, <1>10, <1>11 DEF AutomationInv, AutomationTyped

\* An event is added only when no row has its identity nor, of GitHub, its content.
LEMMA ReceiveKeepsEvents ==
    ASSUME AutomationInv, NEW e \in Events, Receive(e)
    PROVE  EventRows' /\ Answered'
<1> DEFINE n == Len(rows) + 1
<1>1. OwnerTyped /\ RowsTyped /\ EventRows /\ Answered
  BY DEF AutomationInv, AutomationTyped
<1>2. /\ trigger.kind \in EventKinds /\ rows' = Append(rows, EventRow(e))
      /\ SameKey(e) \cup SameBody(e) = {} /\ answers' = answers \cup {<<e, n>>}
  BY DEF Receive, EventKinds, EventRow
<1>3. PICK r \in RowType : r = EventRow(e)
  BY <1>1, <1>2, EventRowIs
<1>4. /\ r.source = "webhook" /\ r.key = <<trigger.kind, e.id>>
      /\ r.hash = <<trigger.kind, e.body>>
      /\ r.key \in EventKinds \X Ids /\ r.hash \in EventKinds \X Bodies
      /\ r.key[1] = trigger.kind /\ r.hash[1] = trigger.kind
  BY <1>1, <1>2, <1>3, EventRowIs
<1>5. /\ Extends /\ Len(rows') = n /\ rows'[n] = r
      /\ \A i \in 1..Len(rows) : rows'[i] = rows[i]
  BY <1>1, <1>2, <1>3, SameRowsAreKept, AppendKept
<1>6. Len(rows) \in Nat /\ \A i \in 1..n : i \in 1..Len(rows) \/ i = n
  BY <1>1, PlacesOfRows
<1>7. ASSUME NEW i \in 1..Len(rows), rows[i].source = "webhook"
      PROVE  rows[i].key # r.key /\ ~(r.key[1] = "github" /\ rows[i].hash = r.hash)
  <2>1. DOMAIN rows = 1..Len(rows)
    BY <1>1, PlacesOfRows
  <2>2. i \notin SameKey(e) /\ i \notin SameBody(e)
    BY <1>2
  <2> QED
    BY <1>4, <1>7, <2>1, <2>2 DEF SameKey, SameBody
<1> HIDE DEF n
<1>8. EventRows'
  <2>1. ASSUME NEW i \in 1..n, rows'[i].source = "webhook"
        PROVE  /\ rows'[i].key \in EventKinds \X Ids /\ rows'[i].hash \in EventKinds \X Bodies
               /\ rows'[i].hash[1] = rows'[i].key[1]
    <3>1. CASE i = n
      BY <1>4, <1>5, <3>1
    <3>2. CASE i \in 1..Len(rows)
      BY <1>1, <1>5, <2>1, <3>2 DEF EventRows
    <3> QED
      BY <1>6, <3>1, <3>2
  <2>2. ASSUME NEW i \in 1..n, NEW k \in 1..n,
               rows'[i].source = "webhook", rows'[k].source = "webhook"
        PROVE  /\ rows'[i].key = rows'[k].key => i = k
               /\ rows'[i].key[1] = "github" /\ rows'[i].hash = rows'[k].hash => i = k
    <3>1. CASE i = n /\ k = n
      BY <3>1
    <3>2. CASE i \in 1..Len(rows) /\ k \in 1..Len(rows)
      BY <1>1, <1>5, <2>2, <3>2 DEF EventRows
    <3>3. CASE i = n /\ k \in 1..Len(rows)
      <4>1. rows'[i] = r /\ rows'[k] = rows[k] /\ rows[k].source = "webhook"
        BY <1>5, <2>2, <3>3
      <4> QED
        BY <1>7, <3>3, <4>1
    <3>4. CASE i \in 1..Len(rows) /\ k = n
      <4>1. rows'[k] = r /\ rows'[i] = rows[i] /\ rows[i].source = "webhook"
        BY <1>5, <2>2, <3>4
      <4>2. rows[i].key[1] = "github" /\ rows[i].hash = r.hash => r.key[1] = "github"
        <5>1. rows[i].hash[1] = rows[i].key[1]
          BY <1>1, <3>4, <4>1 DEF EventRows
        <5> QED
          BY <1>4, <5>1
      <4> QED
        BY <1>7, <3>4, <4>1, <4>2
    <3> QED
      BY <1>6, <3>1, <3>2, <3>3, <3>4
  <2> QED
    BY <1>5, <2>1, <2>2 DEF EventRows
<1>9. Answered'
  <2> SUFFICES ASSUME NEW a \in answers'
               PROVE  /\ a[2] \in 1..n /\ rows'[a[2]].source = "webhook"
                      /\ rows'[a[2]].hash = <<rows'[a[2]].key[1], a[1].body>>
                      /\ rows'[a[2]].key[1] # "github" =>
                             rows'[a[2]].key = <<rows'[a[2]].key[1], a[1].id>>
    BY <1>5 DEF Answered
  <2>1. CASE a \in answers
    <3>1. a[2] \in 1..Len(rows)
      BY <1>1, <2>1 DEF Answered
    <3>2. rows'[a[2]] = rows[a[2]] /\ a[2] \in 1..n
      BY <1>5, <1>6, <3>1 DEF n
    <3> QED
      BY <1>1, <2>1, <3>2 DEF Answered
  <2>2. CASE a = <<e, n>>
    <3>1. a[1] = e /\ a[2] = n /\ n \in 1..n
      BY <1>6, <2>2 DEF n
    <3> QED
      BY <1>4, <1>5, <3>1
  <2> QED
    BY <1>2, <2>1, <2>2 DEF n
<1> QED
  BY <1>8, <1>9

LEMMA ReceiveKeeps ==
    ASSUME AutomationInv, NEW e \in Events, Receive(e)
    PROVE  AutomationInv'
<1>1. /\ OwnerTyped /\ RowsTyped /\ RestTyped /\ Waits /\ Versions /\ TimesAccounted
      /\ OneTimerWaits
  BY DEF AutomationInv, AutomationTyped
<1>2. /\ UNCHANGED <<trigger, enabled, version, next, since>>
      /\ now' = now /\ UNCHANGED <<open, others, server, counts>>
      /\ trigger.kind \in EventKinds /\ rows' = Append(rows, EventRow(e))
      /\ answers' = answers \cup {<<e, Len(rows) + 1>>}
  BY DEF Receive, owner, EventKinds, EventRow
<1>0. PICK n \in Nat : n = Len(rows) + 1
  BY <1>1, PlacesOfRows
<1>3. PICK r \in RowType : r = EventRow(e)
  BY <1>1, <1>2, EventRowIs
<1>4. r.source = "webhook" /\ r.version = version
  BY <1>1, <1>2, <1>3, EventRowIs
<1>5. /\ Extends /\ Len(rows') = n /\ rows'[n] = r
      /\ \A i \in 1..Len(rows) : rows'[i] = rows[i]
  BY <1>0, <1>1, <1>2, <1>3, SameRowsAreKept, AppendKept
<1>6. Len(rows) \in Nat /\ n \in Nat /\ \A i \in 1..n : i \in 1..Len(rows) \/ i = n
  BY <1>0, <1>1, PlacesOfRows
<1>7. OwnerTyped' /\ Waits'
  BY <1>1, <1>2 DEF OwnerTyped, Waits
<1>8. RowsTyped'
  BY <1>5 DEF Extends, RowsTyped
<1>9. RestTyped'
  <2>1. answers' \in SUBSET (Events \X Nat)
    BY <1>0, <1>1, <1>2 DEF RestTyped
  <2> QED
    BY <1>1, <1>2, <2>1 DEF RestTyped
<1>10. Versions'
  <2>1. version \in Nat
    BY <1>1 DEF OwnerTyped
  <2>2. ASSUME NEW i \in 1..n
        PROVE  rows'[i].version <= version /\ (rows'[i].job = "queued" => rows'[i].version = version)
    <3>1. CASE i = n
      BY <1>4, <1>5, <2>1, <3>1
    <3>2. CASE i \in 1..Len(rows)
      BY <1>1, <1>5, <3>2 DEF Versions
    <3> QED
      BY <1>6, <3>1, <3>2
  <2> QED
    BY <1>2, <1>5, <2>2 DEF Versions
<1>11. OneTimerWaits'
  <2>1. SoleTimer
    BY <1>1, SoleTimerIs
  <2>2. SoleTimer'
    BY <1>4, <1>5, <1>6, <2>1 DEF SoleTimer
  <2> QED
    BY <1>8, <2>2, SoleTimerAfterIs
<1>12. TimesAccounted'
  <2>1. ASSUME NEW c
        PROVE  (Once(c) => Once(c)') /\ (NotYet(c) => NotYet(c)') /\ (Since(c)' <=> Since(c))
    <3>1. \A i \in 1..Len(rows) : Accounts(i, c)' <=> Accounts(i, c)
      BY <1>1, <1>2, <1>5, KeptAccount
    <3>2. ~Accounts(n, c)'
      BY <1>4, <1>5 DEF Accounts
    <3>3. NotYet(c) => NotYet(c)'
      BY <1>5, <1>6, <3>1, <3>2 DEF NotYet
    <3>4. Once(c) => Once(c)'
      <4>1. ASSUME NEW i \in 1..Len(rows), \A k \in 1..Len(rows) : Accounts(k, c) <=> k = i
            PROVE  i \in 1..n /\ \A k \in 1..n : Accounts(k, c)' <=> k = i
        <5>1. i \in 1..n /\ i # n
          BY <1>0, <1>6
        <5> QED
          BY <1>6, <3>1, <3>2, <4>1, <5>1
      <4> QED
        BY <1>5, <4>1 DEF Once
    <3>5. Since(c)' <=> Since(c)
      BY <1>2 DEF Since
    <3> QED
      BY <3>3, <3>4, <3>5
  <2>2. enabled => \A c \in trigger.times : (Since(c) => Once(c)) /\ (~Since(c) => NotYet(c))
    BY <1>1, AccountedIs
  <2>3. enabled' => \A c \in trigger'.times : (Since(c)' => Once(c)') /\ (~Since(c)' => NotYet(c)')
    BY <1>2, <2>1, <2>2
  <2> QED
    BY <1>8, <2>3, AccountedAfterIs
<1>13. EventRows' /\ Answered'
  BY ReceiveKeepsEvents
<1> QED
  BY <1>7, <1>8, <1>9, <1>10, <1>11, <1>12, <1>13 DEF AutomationInv, AutomationTyped

\* The rows a tick adds.
NoneWaitsOf(q) == \A i \in 1..Len(rows) : q[i].job # "queued"

AddsSkip ==
    Len(rows') = Len(rows) + 1 /\ rows'[Len(rows) + 1] = SkippedRow(now)
AddsTimer ==
    /\ Len(rows') = Len(rows) + 1 /\ rows'[Len(rows) + 1] = TimerRow(next)
    /\ NoneWaitsOf(rows')
AddsBoth(run) ==
    /\ Len(rows') = Len(rows) + 2 /\ rows'[Len(rows) + 1] = TimerRow(run)
    /\ rows'[Len(rows) + 2] = SkippedRow(run - 1) /\ NoneWaitsOf(rows')

LEMMA TickRows ==
    ASSUME OwnerTyped, RowsTyped, Waits, Due, NEW plan,
           SkipsAll(plan) \/ RunsOne(plan) \/ RunsLast(plan),
           rows' = Skipped(plan, Ran(plan, rows))
    PROVE  /\ Extends
           /\ \/ SkipsAll(plan) /\ AddsSkip
              \/ RunsOne(plan) /\ AddsTimer
              \/ RunsLast(plan) /\ AddsBoth(plan.run)
<1>1. /\ now \in Nat /\ next \in Nat /\ next # Never /\ now # Never
      /\ next \in trigger.times /\ trigger.times \subseteq Nat
  BY AutomationAssumption DEF OwnerTyped, Due, Waits, Never
<1>2. Kept(Withdrawn(rows)) /\ NoneWaitsOf(Withdrawn(rows)) /\ Len(rows) \in Nat
  BY WithdrawnIs, PlacesOfRows DEF NoneWaitsOf
<1>3. CASE SkipsAll(plan)
  <2>1. rows' = Append(rows, SkippedRow(now))
    BY <1>1, <1>3 DEF SkipsAll, Skipped, Ran, SkippedRow
  <2>2. PICK r \in RowType : r = SkippedRow(now)
    BY <1>1, SkippedRowIs
  <2>3. Extends /\ AddsSkip
    BY <2>1, <2>2, SameRowsAreKept, AppendKept DEF AddsSkip
  <2> QED
    BY <1>3, <2>3
<1>4. CASE RunsOne(plan)
  <2>1. rows' = Append(Withdrawn(rows), TimerRow(next))
    BY <1>1, <1>4 DEF RunsOne, Skipped, Ran, TimerRow
  <2>2. PICK r \in RowType : r = TimerRow(next)
    BY <1>1, TimerRowIs
  <2>3. PICK q : q = Withdrawn(rows)
    OBVIOUS
  <2>4. /\ Extends /\ Len(rows') = Len(rows) + 1 /\ rows'[Len(rows) + 1] = r
        /\ \A i \in 1..Len(rows) : rows'[i] = q[i]
    BY <1>2, <2>1, <2>2, <2>3, AppendKept
  <2>5. NoneWaitsOf(rows')
    BY <1>2, <2>3, <2>4 DEF NoneWaitsOf
  <2> QED
    BY <1>4, <2>2, <2>4, <2>5 DEF AddsTimer
<1>5. CASE RunsLast(plan)
  <2>1. plan.run \in Nat /\ plan.run # Never /\ plan.skipped = plan.run - 1
        /\ plan.skipped # Never /\ plan.run - 1 \in Int
    BY <1>1, <1>5 DEF RunsLast, Never
  <2>2. rows' = Append(Append(Withdrawn(rows), TimerRow(plan.run)), SkippedRow(plan.run - 1))
    BY <2>1 DEF Skipped, Ran, TimerRow, SkippedRow
  <2>3. PICK r \in RowType : r = TimerRow(plan.run)
    BY <2>1, TimerRowIs
  <2>4. PICK s \in RowType : s = SkippedRow(plan.run - 1)
    BY <1>1, <2>1, SkippedRowIs
  <2>5. PICK q \in Seq(RowType) : q = Withdrawn(rows)
    BY <1>2 DEF Kept
  <2>6. PICK p : p = Append(q, r)
    OBVIOUS
  <2>7. p \in Seq(RowType) /\ Len(p) = Len(q) + 1 /\ p[Len(q) + 1] = r
        /\ \A i \in 1..Len(q) : p[i] = q[i]
    BY <2>6, Appended
  <2>8. rows' = Append(p, s)
    BY <2>2, <2>3, <2>4, <2>5, <2>6
  <2>9. rows' \in Seq(RowType) /\ Len(rows') = Len(p) + 1 /\ rows'[Len(p) + 1] = s
        /\ \A i \in 1..Len(p) : rows'[i] = p[i]
    BY <2>7, <2>8, Appended
  <2>10. Len(q) = Len(rows) /\ \A i \in 1..Len(rows) : Alike(q, i)
    BY <1>2, <2>5 DEF Kept
  <2>11. /\ Len(rows') = Len(rows) + 2 /\ rows'[Len(rows) + 1] = r /\ rows'[Len(rows) + 2] = s
         /\ \A i \in 1..Len(rows) : rows'[i] = q[i]
    <3>1. Len(p) = Len(rows) + 1 /\ Len(rows) \in Nat
      BY <1>2, <2>7, <2>10
    <3>2. rows'[Len(rows) + 1] = r
      BY <2>7, <2>9, <2>10, <3>1
    <3>3. \A i \in 1..Len(rows) : rows'[i] = q[i]
      BY <2>7, <2>9, <2>10, <3>1
    <3> QED
      BY <2>9, <3>1, <3>2, <3>3
  <2>12. Extends
    BY <1>2, <2>9, <2>10, <2>11 DEF Extends, Alike
  <2>13. NoneWaitsOf(rows')
    BY <1>2, <2>5, <2>11 DEF NoneWaitsOf
  <2> QED
    BY <1>5, <2>3, <2>4, <2>11, <2>12, <2>13 DEF AddsBoth
<1> QED
  BY <1>3, <1>4, <1>5

\* An added row accounts for an instant.
Adds(i, c) == i > Len(rows) /\ i <= Len(rows') /\ Accounts(i, c)'

\* What a tick adds accounts once for every instant that has come since the one
\* the automation waited for, and for nothing else.
LEMMA TickAdds ==
    ASSUME OwnerTyped, RowsTyped, RowsTyped', Waits, Due, version' = version, NEW plan,
           \/ SkipsAll(plan) /\ AddsSkip
           \/ RunsOne(plan) /\ AddsTimer
           \/ RunsLast(plan) /\ AddsBoth(plan.run),
           NEW c \in trigger.times
    PROVE  /\ next <= c /\ c <= now =>
                \E i \in 1..Len(rows') : \A k \in 1..Len(rows') : Adds(k, c) <=> k = i
           /\ ~(next <= c /\ c <= now) => \A k \in 1..Len(rows') : ~Adds(k, c)
<1>1. /\ now \in Nat /\ next \in Nat /\ next <= now /\ c \in Nat
      /\ next \in trigger.times /\ trigger.times \subseteq Nat
  BY AutomationAssumption DEF OwnerTyped, Due, Waits, Never
<1>2. PICK n \in Nat : n = Len(rows)
  BY PlacesOfRows
<1>3. CASE SkipsAll(plan) /\ AddsSkip
  <2>1. Len(rows') = n + 1 /\ rows'[n + 1] = SkippedRow(now)
    BY <1>2, <1>3 DEF AddsSkip
  <2>2. Adds(n + 1, c) <=> (next <= c /\ c <= now)
    <3>1. /\ rows'[n + 1].source = "skipped" /\ rows'[n + 1].version = version
          /\ rows'[n + 1].from = next /\ rows'[n + 1].at = now
      BY <1>1, <2>1, SkippedRowIs
    <3> QED
      BY <1>1, <1>2, <2>1, <3>1 DEF Adds, Accounts
  <2>3. \A k \in 1..Len(rows') : k # n + 1 => ~Adds(k, c)
    BY <1>2, <2>1 DEF Adds
  <2>4. n + 1 \in 1..Len(rows')
    BY <2>1
  <2> QED
    BY <2>2, <2>3, <2>4
<1>4. CASE RunsOne(plan) /\ AddsTimer
  <2>1. Len(rows') = n + 1 /\ rows'[n + 1] = TimerRow(next)
    BY <1>2, <1>4 DEF AddsTimer
  <2>2. Adds(n + 1, c) <=> c = next
    <3>1. /\ rows'[n + 1].source = "timer" /\ rows'[n + 1].version = version
          /\ rows'[n + 1].from = next /\ rows'[n + 1].at = next
      BY <1>1, <2>1, TimerRowIs
    <3> QED
      BY <1>1, <1>2, <2>1, <3>1 DEF Adds, Accounts
  <2>3. c = next <=> (next <= c /\ c <= now)
    BY <1>1, <1>4 DEF RunsOne
  <2>4. \A k \in 1..Len(rows') : k # n + 1 => ~Adds(k, c)
    BY <1>2, <2>1 DEF Adds
  <2>5. n + 1 \in 1..Len(rows')
    BY <2>1
  <2> QED
    BY <2>2, <2>3, <2>4, <2>5
<1>5. CASE RunsLast(plan) /\ AddsBoth(plan.run)
  <2>1. PICK run \in Nat : run = plan.run
    BY <1>1, <1>5 DEF RunsLast
  <2>2. Len(rows') = n + 2 /\ rows'[n + 1] = TimerRow(run) /\ rows'[n + 2] = SkippedRow(run - 1)
    BY <1>2, <1>5, <2>1 DEF AddsBoth
  <2>3. next < run /\ run <= now /\ (c <= now => c <= run)
    BY <1>5, <2>1 DEF RunsLast
  <2>4. Adds(n + 1, c) <=> c = run
    <3>1. /\ rows'[n + 1].source = "timer" /\ rows'[n + 1].version = version
          /\ rows'[n + 1].from = run /\ rows'[n + 1].at = run
      BY <2>1, <2>2, TimerRowIs
    <3> QED
      BY <1>1, <1>2, <2>2, <3>1 DEF Adds, Accounts
  <2>5. Adds(n + 2, c) <=> (next <= c /\ c <= run - 1)
    <3>1. /\ rows'[n + 2].source = "skipped" /\ rows'[n + 2].version = version
          /\ rows'[n + 2].from = next /\ rows'[n + 2].at = run - 1
      <4>1. PICK u \in Int : u = run - 1
        OBVIOUS
      <4> QED
        BY <1>1, <2>2, <4>1, SkippedRowIs
    <3> QED
      BY <1>1, <1>2, <2>2, <3>1 DEF Adds, Accounts
  <2>6. \A k \in 1..Len(rows') : k # n + 1 /\ k # n + 2 => ~Adds(k, c)
    BY <1>2, <2>2 DEF Adds
  <2>7. n + 1 \in 1..Len(rows') /\ n + 2 \in 1..Len(rows') /\ n + 1 # n + 2
    BY <2>2
  <2>8. (next <= c /\ c <= now) <=> (Adds(n + 1, c) \/ Adds(n + 2, c))
    BY <1>1, <2>3, <2>4, <2>5
  <2>9. ~(Adds(n + 1, c) /\ Adds(n + 2, c))
    BY <1>1, <2>4, <2>5
  <2>10. CASE Adds(n + 1, c)
    BY <2>6, <2>7, <2>8, <2>9, <2>10
  <2>11. CASE ~Adds(n + 1, c) /\ Adds(n + 2, c)
    BY <2>6, <2>7, <2>8, <2>11
  <2>12. CASE ~Adds(n + 1, c) /\ ~Adds(n + 2, c)
    BY <2>6, <2>8, <2>12
  <2> QED
    BY <2>10, <2>11, <2>12
<1> QED
  BY <1>3, <1>4, <1>5

\* What a tick leaves.
Ticked ==
    UNCHANGED <<trigger, version, since, open, others, now, counts, answers>> /\ server' = "up"

\* The rows a tick adds are of the present configuration, none is an event, and
\* one at most is a timer, which then waits alone.
LEMMA TickedRowsAre ==
    ASSUME OwnerTyped, RowsTyped, Waits, Due, NEW plan,
           \/ SkipsAll(plan) /\ AddsSkip
           \/ RunsOne(plan) /\ AddsTimer
           \/ RunsLast(plan) /\ AddsBoth(plan.run)
    PROVE  /\ \A i \in 1..Len(rows') : i > Len(rows) =>
                  rows'[i].source # "webhook" /\ rows'[i].version = version
           /\ \/ \A i \in 1..Len(rows') : i > Len(rows) => rows'[i].source = "skipped"
              \/ /\ NoneWaitsOf(rows')
                 /\ \A i \in 1..Len(rows') :
                        i > Len(rows) + 1 => rows'[i].source = "skipped"
<1>1. /\ now \in Nat /\ next \in Nat /\ trigger.times \subseteq Nat
  BY AutomationAssumption DEF OwnerTyped, Due, Never
<1>2. PICK n \in Nat : n = Len(rows)
  BY PlacesOfRows
<1>3. CASE SkipsAll(plan) /\ AddsSkip
  <2>1. Len(rows') = n + 1 /\ rows'[n + 1] = SkippedRow(now)
    BY <1>2, <1>3 DEF AddsSkip
  <2>2. rows'[n + 1].source = "skipped" /\ rows'[n + 1].version = version
    BY <1>1, <2>1, SkippedRowIs
  <2>3. \A i \in 1..Len(rows') : i > n => i = n + 1
    BY <2>1
  <2> QED
    BY <1>2, <2>2, <2>3
<1>4. CASE RunsOne(plan) /\ AddsTimer
  <2>1. Len(rows') = n + 1 /\ rows'[n + 1] = TimerRow(next) /\ NoneWaitsOf(rows')
    BY <1>2, <1>4 DEF AddsTimer
  <2>2. rows'[n + 1].source = "timer" /\ rows'[n + 1].version = version
    BY <1>1, <2>1, TimerRowIs
  <2>3. \A i \in 1..Len(rows') : (i > n => i = n + 1) /\ ~(i > n + 1)
    BY <2>1
  <2> QED
    BY <1>2, <2>1, <2>2, <2>3
<1>5. CASE RunsLast(plan) /\ AddsBoth(plan.run)
  <2>1. PICK run \in Nat : run = plan.run
    BY <1>1, <1>5 DEF RunsLast
  <2>2. /\ Len(rows') = n + 2 /\ rows'[n + 1] = TimerRow(run)
        /\ rows'[n + 2] = SkippedRow(run - 1) /\ NoneWaitsOf(rows')
    BY <1>2, <1>5, <2>1 DEF AddsBoth
  <2>3. rows'[n + 1].source = "timer" /\ rows'[n + 1].version = version
    BY <2>1, <2>2, TimerRowIs
  <2>4. rows'[n + 2].source = "skipped" /\ rows'[n + 2].version = version
    <3>1. PICK u \in Int : u = run - 1
      OBVIOUS
    <3> QED
      BY <1>1, <2>2, <3>1, SkippedRowIs
  <2>5. \A i \in 1..Len(rows') : (i > n => i = n + 1 \/ i = n + 2) /\ (i > n + 1 => i = n + 2)
    BY <2>2
  <2> QED
    BY <1>2, <2>2, <2>3, <2>4, <2>5
<1> QED
  BY <1>3, <1>4, <1>5

LEMMA TickRunsKeeps ==
    ASSUME AutomationInv, Due, NEW plan,
           plan = DuePlan(trigger, next, now, server = "starting"), TickRuns(plan), Ticked
    PROVE  AutomationInv'
<1>1. /\ OwnerTyped /\ RowsTyped /\ RestTyped /\ EventRows /\ Answered /\ Waits /\ Versions
      /\ TimesAccounted /\ OneTimerWaits
  BY DEF AutomationInv, AutomationTyped
<1>2. /\ UNCHANGED <<trigger, enabled, version, since, now, answers>>
      /\ UNCHANGED <<open, others, counts>> /\ server' = "up"
      /\ rows' = Skipped(plan, Ran(plan, rows)) /\ next' = plan.next
  BY DEF TickRuns, Ticked
<1>3. /\ plan.next = NextAfter(trigger.times, now)
      /\ SkipsAll(plan) \/ RunsOne(plan) \/ RunsLast(plan)
  <2>1. PICK recovering \in BOOLEAN : recovering = (server = "starting")
    OBVIOUS
  <2> QED
    BY <1>1, <2>1, PlanIs
<1>4. /\ Extends
      /\ \/ SkipsAll(plan) /\ AddsSkip
         \/ RunsOne(plan) /\ AddsTimer
         \/ RunsLast(plan) /\ AddsBoth(plan.run)
  BY <1>1, <1>2, <1>3, TickRows
<1>5. RowsTyped'
  BY <1>4 DEF Extends, RowsTyped
<1>6. /\ Len(rows) \in Nat /\ Len(rows') \in Nat /\ Len(rows) <= Len(rows')
      /\ \A i \in 1..Len(rows') : i > Len(rows) \/ i \in 1..Len(rows)
      /\ \A i \in 1..Len(rows) : i \in 1..Len(rows') /\ ~(i > Len(rows))
  BY <1>1, <1>4, <1>5, PlacesOfRows, PlacesOfRowsAfter DEF Extends
<1>7. /\ trigger.times \in SUBSET Nat /\ now \in Nat /\ since \in Nat /\ since <= now
      /\ next \in Nat /\ next <= now /\ next > since
  BY <1>1, AutomationAssumption DEF OwnerTyped, Due, Waits, Never
<1>8. /\ next' \in Nat \cup {Never}
      /\ next' = Never => \A c \in trigger.times : c <= now
      /\ next' # Never => /\ next' \in trigger.times /\ next' > now
                          /\ \A c \in trigger.times : c > now => next' <= c
  <2>1. PICK times \in SUBSET Nat : times = trigger.times
    BY <1>7
  <2>2. PICK first : first = NextAfter(times, now)
    OBVIOUS
  <2>3. /\ first \in Nat \cup {Never} /\ (first = Never => \A c \in times : c <= now)
        /\ first # Never => first \in times /\ first > now /\ \A c \in times : c > now => first <= c
    BY <1>7, <2>2, NextAfterIs
  <2>4. next' = first
    BY <1>2, <1>3, <2>1, <2>2
  <2> QED
    BY <2>1, <2>3, <2>4
<1>9. OwnerTyped'
  BY <1>1, <1>2, <1>8 DEF OwnerTyped
<1>10. RestTyped'
  BY <1>1, <1>2 DEF RestTyped
<1>11. Waits'
  <2>1. next' # Never => next' > since
    BY <1>7, <1>8
  <2> QED
    BY <1>2, <1>8, <2>1 DEF Waits
<1>12. /\ \A i \in 1..Len(rows') : i > Len(rows) =>
              rows'[i].source # "webhook" /\ rows'[i].version = version
       /\ \/ \A i \in 1..Len(rows') : i > Len(rows) => rows'[i].source = "skipped"
          \/ /\ NoneWaitsOf(rows')
             /\ \A i \in 1..Len(rows') : i > Len(rows) + 1 => rows'[i].source = "skipped"
  BY <1>1, <1>4, TickedRowsAre
<1>13. EventRows' /\ Answered'
  BY <1>1, <1>2, <1>4, <1>12, EventsStay
<1>14. \A i \in 1..Len(rows) : Alike(rows', i)
  BY <1>4 DEF Extends
<1>15. Versions'
  <2>1. ASSUME NEW i \in 1..Len(rows')
        PROVE  rows'[i].version <= version /\ (rows'[i].job = "queued" => rows'[i].version = version)
    <3>1. CASE i > Len(rows)
      <4>1. version \in Nat
        BY <1>1 DEF OwnerTyped
      <4> QED
        BY <1>12, <3>1, <4>1
    <3>2. CASE i \in 1..Len(rows)
      BY <1>1, <1>14, <3>2 DEF Versions, Alike
    <3> QED
      BY <1>6, <3>1, <3>2
  <2> QED
    BY <1>2, <2>1 DEF Versions
<1>16. OneTimerWaits'
  <2>1. CASE \A i \in 1..Len(rows') : i > Len(rows) => rows'[i].source = "skipped"
    <3>1. SoleTimer
      BY <1>1, SoleTimerIs
    <3>2. \A i \in 1..Len(rows') :
              rows'[i].job = "queued" /\ rows'[i].source = "timer"
                  => i \in 1..Len(rows) /\ rows[i].job = "queued" /\ rows[i].source = "timer"
      BY <1>6, <1>14, <2>1 DEF Alike
    <3>3. SoleTimer'
      BY <3>1, <3>2 DEF SoleTimer
    <3> QED
      BY <1>5, <3>3, SoleTimerAfterIs
  <2>2. CASE /\ NoneWaitsOf(rows')
             /\ \A i \in 1..Len(rows') : i > Len(rows) + 1 => rows'[i].source = "skipped"
    <3>1. \A i \in 1..Len(rows') :
              rows'[i].job = "queued" /\ rows'[i].source = "timer" => i = Len(rows) + 1
      BY <1>6, <2>2 DEF NoneWaitsOf
    <3>2. SoleTimer'
      BY <3>1 DEF SoleTimer
    <3> QED
      BY <1>5, <3>2, SoleTimerAfterIs
  <2> QED
    BY <1>12, <2>1, <2>2
<1>17. TimesAccounted'
  <2>1. ASSUME NEW c \in trigger.times
        PROVE  /\ next <= c /\ c <= now =>
                    \E i \in 1..Len(rows') : \A k \in 1..Len(rows') : Adds(k, c) <=> k = i
               /\ ~(next <= c /\ c <= now) => \A k \in 1..Len(rows') : ~Adds(k, c)
    BY <1>1, <1>2, <1>4, <1>5, TickAdds
  <2>2. ASSUME NEW c, NEW k \in 1..Len(rows')
        PROVE  Accounts(k, c)' <=> Adds(k, c) \/ (k \in 1..Len(rows) /\ Accounts(k, c))
    <3>1. k \in 1..Len(rows) => (Accounts(k, c)' <=> Accounts(k, c))
      BY <1>1, <1>2, <1>4, KeptAccount
    <3> QED
      BY <1>6, <3>1 DEF Adds
  <2>3. enabled => \A c \in trigger.times : (Since(c) => Once(c)) /\ (~Since(c) => NotYet(c))
    BY <1>1, AccountedIs
  <2>4. ASSUME enabled, NEW c \in trigger.times
        PROVE  (Since(c)' => Once(c)') /\ (~Since(c)' => NotYet(c)')
    <3>1. Since(c)' <=> c > since /\ c <= now
      BY <1>2, <1>7, <1>8 DEF Since
    <3>2. Since(c) <=> c > since /\ c < next
      BY <1>7 DEF Since, Never
    <3>3. CASE Since(c)
      <4>1. ~(next <= c /\ c <= now) /\ Since(c)'
        BY <1>7, <3>1, <3>2, <3>3
      <4>2. PICK i \in 1..Len(rows) : \A k \in 1..Len(rows) : Accounts(k, c) <=> k = i
        BY <2>3, <2>4, <3>3 DEF Once
      <4>3. i \in 1..Len(rows') /\ \A k \in 1..Len(rows') : Accounts(k, c)' <=> k = i
        BY <1>6, <2>1, <2>2, <4>1, <4>2
      <4> QED
        BY <4>1, <4>3 DEF Once
    <3>4. CASE ~Since(c)
      <4>1. \A k \in 1..Len(rows) : ~Accounts(k, c)
        BY <2>3, <2>4, <3>4 DEF NotYet
      <4>2. \A k \in 1..Len(rows') : Accounts(k, c)' <=> Adds(k, c)
        BY <2>2, <4>1
      <4>3. Since(c)' <=> (next <= c /\ c <= now)
        BY <1>7, <3>1, <3>2, <3>4
      <4>4. CASE next <= c /\ c <= now
        <5>1. PICK i \in 1..Len(rows') : \A k \in 1..Len(rows') : Adds(k, c) <=> k = i
          BY <2>1, <4>4
        <5>2. \A k \in 1..Len(rows') : Accounts(k, c)' <=> k = i
          BY <4>2, <5>1
        <5> QED
          BY <4>3, <4>4, <5>2 DEF Once
      <4>5. CASE ~(next <= c /\ c <= now)
        <5>1. \A k \in 1..Len(rows') : ~Accounts(k, c)'
          BY <2>1, <4>2, <4>5
        <5> QED
          BY <4>3, <4>5, <5>1 DEF NotYet
      <4> QED
        BY <4>4, <4>5
    <3> QED
      BY <3>3, <3>4
  <2>5. enabled' => \A c \in trigger'.times : (Since(c)' => Once(c)') /\ (~Since(c)' => NotYet(c)')
    BY <1>2, <2>4
  <2> QED
    BY <1>5, <2>5, AccountedAfterIs
<1> QED
  BY <1>5, <1>9, <1>10, <1>11, <1>13, <1>15, <1>16, <1>17 DEF AutomationInv, AutomationTyped

LEMMA TickKeeps ==
    ASSUME AutomationInv, Tick
    PROVE  AutomationInv'
<1>1. /\ OwnerTyped /\ RowsTyped /\ RestTyped /\ EventRows /\ Answered /\ Versions
      /\ OneTimerWaits
  BY DEF AutomationInv, AutomationTyped
<1>2. PICK plan : plan = DuePlan(trigger, next, now, server = "starting")
  OBVIOUS
<1>3. /\ Ticked
      /\ \/ Due /\ TickRuns(plan)
         \/ UNCHANGED <<rows, next, enabled>>
         \/ TickDisables(plan)
  BY <1>2 DEF Tick, TickWaits, Ticked
<1>4. RestTyped'
  BY <1>1, <1>3 DEF Ticked, RestTyped
<1>5. CASE Due /\ TickRuns(plan)
  BY <1>2, <1>3, <1>5, TickRunsKeeps
<1>6. CASE UNCHANGED <<rows, next, enabled>>
  <2>1. /\ UNCHANGED <<trigger, enabled, version, next, since>> /\ answers' = answers
        /\ now' \in Nat /\ now <= now'
    BY <1>1, <1>3, <1>6 DEF Ticked, OwnerTyped
  <2>2. Kept(rows')
    BY <1>1, <1>6, SameRowsAreKept
  <2> QED
    BY <1>4, <2>1, <2>2, KeptStep DEF AutomationInv, AutomationTyped
<1>7. CASE TickDisables(plan)
  <2>1. /\ rows' = rows /\ enabled' = FALSE /\ next' = Never
        /\ UNCHANGED <<trigger, version, since, now, answers>>
    BY <1>3, <1>7 DEF Ticked, TickDisables
  <2>2. OwnerTyped'
    BY <1>1, <2>1 DEF OwnerTyped
  <2>3. Kept(rows')
    BY <1>1, <2>1, SameRowsAreKept
  <2>4. RowsTyped' /\ EventRows' /\ Answered' /\ OneTimerWaits' /\ Versions'
    BY <1>1, <2>1, <2>3, KeptRowsKeep
  <2>5. Waits' /\ TimesAccounted'
    BY <2>1 DEF Waits, TimesAccounted
  <2> QED
    BY <1>4, <2>2, <2>4, <2>5 DEF AutomationInv, AutomationTyped
<1> QED
  BY <1>3, <1>5, <1>6, <1>7

\* What an edit bounds.
LEMMA Counted ==
    ASSUME counts \in [edits : Nat, others : Nat, asked : Nat, stops : Nat],
           NEW name \in {"edits", "others", "asked", "stops"}, NEW bound, Count(name, bound)
    PROVE  counts' \in [edits : Nat, others : Nat, asked : Nat, stops : Nat]
<1>1. /\ counts.edits \in Nat /\ counts.others \in Nat /\ counts.asked \in Nat
      /\ counts.stops \in Nat
  OBVIOUS
<1>2. counts' = [counts EXCEPT ![name] = counts[name] + 1]
  BY DEF Count
<1>3. CASE name = "edits"
  BY <1>1, <1>2, <1>3
<1>4. CASE name = "others"
  BY <1>1, <1>2, <1>4
<1>5. CASE name = "asked"
  BY <1>1, <1>2, <1>5
<1>6. CASE name = "stops"
  BY <1>1, <1>2, <1>6
<1> QED
  BY <1>3, <1>4, <1>5, <1>6

\* A new configuration has no row, and waits for its first instant to come.
LEMMA UpdateKeeps ==
    ASSUME AutomationInv, NEW g \in Triggers, NEW on \in BOOLEAN, Update(g, on)
    PROVE  AutomationInv'
<1>1. OwnerTyped /\ RowsTyped /\ RestTyped /\ EventRows /\ Answered /\ Versions
  BY DEF AutomationInv, AutomationTyped
<1>2. /\ trigger' = g /\ enabled' = on /\ version' = version + 1 /\ since' = now
      /\ next' = (IF on THEN NextAfter(g.times, now) ELSE Never)
      /\ rows' = Withdrawn(rows) /\ now' = now /\ answers' = answers
      /\ UNCHANGED <<open, others, server>> /\ Count("edits", MaxEdits)
  BY DEF Update
<1>3. Kept(rows') /\ NoneWaitsOf(rows')
  BY <1>1, <1>2, WithdrawnIs DEF NoneWaitsOf
<1>4. RowsTyped' /\ EventRows' /\ Answered' /\ Len(rows') = Len(rows) /\ Len(rows) \in Nat
  BY <1>1, <1>2, <1>3, KeptRowsKeep, PlacesOfRows DEF Kept
<1>5. version \in Nat /\ now \in Nat /\ g.times \in SUBSET Nat
  BY <1>1, AutomationAssumption DEF OwnerTyped
<1>6. PICK times \in SUBSET Nat : times = g.times
  BY <1>5
<1>7. PICK first : first = NextAfter(times, now)
  OBVIOUS
<1>8. /\ first \in Nat \cup {Never} /\ (first = Never => \A c \in times : c <= now)
      /\ first # Never => first \in times /\ first > now /\ \A c \in times : c > now => first <= c
  BY <1>5, <1>7, NextAfterIs
<1>9. next' = IF on THEN first ELSE Never
  BY <1>2, <1>6, <1>7
<1>10. OwnerTyped'
  BY <1>2, <1>5, <1>8, <1>9 DEF OwnerTyped
<1>11. RestTyped'
  <2>1. counts' \in [edits : Nat, others : Nat, asked : Nat, stops : Nat]
    BY <1>1, <1>2, Counted DEF RestTyped
  <2> QED
    BY <1>1, <1>2, <2>1 DEF RestTyped
<1>12. Waits'
  BY <1>2, <1>6, <1>8, <1>9 DEF Waits
<1>13. ASSUME NEW i \in 1..Len(rows') PROVE rows'[i].version <= version /\ rows'[i].version \in Nat
  <2>1. rows'[i].version = rows[i].version
    BY <1>3, <1>4 DEF Kept, Alike
  <2>2. rows[i].version \in Nat /\ rows[i].version <= version
    <3>1. rows[i] \in RowType
      BY <1>1, <1>4, PlacesOfRows
    <3> QED
      BY <1>1, <1>4, <3>1 DEF Versions, RowType
  <2> QED
    BY <2>1, <2>2
<1>14. Versions'
  BY <1>2, <1>3, <1>4, <1>5, <1>13 DEF Versions, NoneWaitsOf
<1>15. OneTimerWaits'
  <2>1. SoleTimer'
    BY <1>3, <1>4 DEF SoleTimer, NoneWaitsOf
  <2> QED
    BY <1>4, <2>1, SoleTimerAfterIs
<1>16. TimesAccounted'
  <2>1. ASSUME NEW c PROVE NotYet(c)'
    <3>1. \A i \in 1..Len(rows') : rows'[i].version # version'
      BY <1>2, <1>5, <1>13
    <3> QED
      BY <3>1 DEF NotYet, Accounts
  <2>2. ASSUME enabled', NEW c \in trigger'.times PROVE ~Since(c)'
    <3>1. c \in times /\ c \in Nat /\ since' = now /\ next' = first
      BY <1>2, <1>6, <1>9, <2>2
    <3>2. ~(c > now /\ (first = Never \/ c < first))
      BY <1>5, <1>8, <3>1
    <3> QED
      BY <3>1, <3>2 DEF Since
  <2>3. enabled' => \A c \in trigger'.times : (Since(c)' => Once(c)') /\ (~Since(c)' => NotYet(c)')
    BY <2>1, <2>2
  <2> QED
    BY <1>4, <2>3, AccountedAfterIs
<1> QED
  BY <1>4, <1>10, <1>11, <1>12, <1>14, <1>15, <1>16 DEF AutomationInv, AutomationTyped

\* Steps that change nothing the invariant is about.
LEMMA OtherKeeps ==
    ASSUME AutomationInv, SwitchGroup \/ QueueOther \/ ServeOther \/ Advance
    PROVE  AutomationInv'
<1>1. OwnerTyped /\ RowsTyped /\ RestTyped
  BY DEF AutomationInv, AutomationTyped
<1>2. /\ UNCHANGED <<trigger, enabled, version, next, since>> /\ rows' = rows
      /\ answers' = answers
  BY DEF SwitchGroup, QueueOther, ServeOther, Advance, owner
<1>3. now' \in Nat /\ now <= now'
  BY <1>1 DEF OwnerTyped, SwitchGroup, QueueOther, ServeOther, Advance
<1>4. counts' \in [edits : Nat, others : Nat, asked : Nat, stops : Nat]
  <2>1. counts \in [edits : Nat, others : Nat, asked : Nat, stops : Nat]
    BY <1>1 DEF RestTyped
  <2>2. CASE SwitchGroup
    BY <2>1, <2>2, Counted DEF SwitchGroup
  <2>3. CASE QueueOther
    BY <2>1, <2>3, Counted DEF QueueOther
  <2>4. CASE ServeOther \/ Advance
    BY <2>1, <2>4 DEF ServeOther, Advance
  <2> QED
    BY <2>2, <2>3, <2>4
<1>5. open' \in BOOLEAN /\ server' = server /\ others' \in Nat
  <2>1. open \in BOOLEAN /\ others \in Nat
    BY <1>1 DEF RestTyped
  <2>2. CASE SwitchGroup
    BY <2>1, <2>2 DEF SwitchGroup
  <2>3. CASE QueueOther
    BY <2>1, <2>3 DEF QueueOther
  <2>4. CASE ServeOther
    BY <2>1, <2>4 DEF ServeOther
  <2>5. CASE Advance
    BY <2>1, <2>5 DEF Advance
  <2> QED
    BY <2>2, <2>3, <2>4, <2>5
<1>6. RestTyped'
  BY <1>1, <1>2, <1>4, <1>5 DEF RestTyped
<1>7. Kept(rows')
  BY <1>1, <1>2, SameRowsAreKept
<1> QED
  BY <1>2, <1>3, <1>6, <1>7, KeptStep DEF AutomationInv, AutomationTyped

LEMMA MoveKeeps ==
    ASSUME AutomationInv, NEW i \in DOMAIN rows, NEW from, NEW state \in JobStates,
           state # "queued", Move(i, from, state),
           counts' \in [edits : Nat, others : Nat, asked : Nat, stops : Nat]
    PROVE  AutomationInv'
<1>1. OwnerTyped /\ RowsTyped /\ RestTyped
  BY DEF AutomationInv, AutomationTyped
<1>2. /\ UNCHANGED <<trigger, enabled, version, next, since>> /\ rows' = Moved(i, state)
      /\ answers' = answers /\ now' = now /\ UNCHANGED <<open, others, server>>
  BY DEF Move, owner, Moved
<1>3. now' \in Nat /\ now <= now'
  BY <1>1, <1>2 DEF OwnerTyped
<1>4. Kept(rows')
  <2>1. i \in 1..Len(rows)
    BY <1>1, PlacesOfRows
  <2> QED
    BY <1>1, <1>2, <2>1, MovedIs
<1>5. RestTyped'
  BY <1>1, <1>2 DEF RestTyped
<1> QED
  BY <1>2, <1>3, <1>4, <1>5, KeptStep DEF AutomationInv, AutomationTyped

LEMMA JobsKeep ==
    ASSUME AutomationInv, Jobs
    PROVE  AutomationInv'
<1>1. counts \in [edits : Nat, others : Nat, asked : Nat, stops : Nat]
  BY DEF AutomationInv, AutomationTyped, RestTyped
<1>2. PICK i \in DOMAIN rows : Start(i) \/ Ask(i) \/ Answer(i) \/ GoOn(i) \/ End(i)
  BY DEF Jobs
<1>3. {"running", "waiting", "resumed", "done"} \subseteq JobStates
  BY DEF JobStates
<1>4. CASE Start(i)
  BY <1>1, <1>3, <1>4, MoveKeeps DEF Start
<1>5. CASE Ask(i)
  <2>1. counts' \in [edits : Nat, others : Nat, asked : Nat, stops : Nat]
    BY <1>1, <1>5, Counted DEF Ask
  <2> QED
    BY <1>3, <1>5, <2>1, MoveKeeps DEF Ask
<1>6. CASE Answer(i)
  BY <1>1, <1>3, <1>6, MoveKeeps DEF Answer
<1>7. CASE GoOn(i)
  BY <1>1, <1>3, <1>7, MoveKeeps DEF GoOn
<1>8. CASE End(i)
  BY <1>1, <1>3, <1>8, MoveKeeps DEF End
<1> QED
  BY <1>2, <1>4, <1>5, <1>6, <1>7, <1>8

LEMMA StopKeeps ==
    ASSUME AutomationInv, Stop
    PROVE  AutomationInv'
<1>1. OwnerTyped /\ RowsTyped /\ RestTyped
  BY DEF AutomationInv, AutomationTyped
<1>2. /\ UNCHANGED <<trigger, enabled, version, next, since>> /\ rows' = Halted
      /\ answers' = answers /\ now' = now /\ UNCHANGED <<open, others>>
      /\ server' = "starting" /\ Count("stops", MaxStops)
  BY DEF Stop, owner, Halted
<1>3. now' \in Nat /\ now <= now'
  BY <1>1, <1>2 DEF OwnerTyped
<1>4. Kept(rows')
  BY <1>1, <1>2, HaltedIs
<1>5. RestTyped'
  <2>1. counts' \in [edits : Nat, others : Nat, asked : Nat, stops : Nat]
    BY <1>1, <1>2, Counted DEF RestTyped
  <2> QED
    BY <1>1, <1>2, <2>1 DEF RestTyped
<1> QED
  BY <1>2, <1>3, <1>4, <1>5, KeptStep DEF AutomationInv, AutomationTyped

LEMMA AutomationStep ==
    AutomationInv /\ [AutomationNext]_automationVars => AutomationInv'
<1> SUFFICES ASSUME AutomationInv, [AutomationNext]_automationVars PROVE AutomationInv'
  OBVIOUS
<1>1. CASE UNCHANGED automationVars
  <2>1. OwnerTyped /\ RowsTyped /\ RestTyped
    BY DEF AutomationInv, AutomationTyped
  <2>2. /\ UNCHANGED <<trigger, enabled, version, next, since>> /\ rows' = rows
        /\ answers' = answers /\ now' = now /\ UNCHANGED <<open, others, server, counts>>
    BY <1>1 DEF automationVars
  <2>3. Kept(rows') /\ now' \in Nat /\ now <= now'
    BY <2>1, <2>2, SameRowsAreKept DEF OwnerTyped
  <2>4. RestTyped'
    BY <2>1, <2>2 DEF RestTyped
  <2> QED
    BY <2>2, <2>3, <2>4, KeptStep DEF AutomationInv, AutomationTyped
<1>2. CASE \E e \in Events : AnswerAgain(e) \/ Receive(e)
  BY <1>2, AnswerAgainKeeps, ReceiveKeeps
<1>3. CASE Tick
  BY <1>3, TickKeeps
<1>4. CASE \E g \in Triggers, on \in BOOLEAN : Update(g, on)
  BY <1>4, UpdateKeeps
<1>5. CASE SwitchGroup \/ QueueOther \/ ServeOther \/ Advance
  BY <1>5, OtherKeeps
<1>6. CASE Jobs
  BY <1>6, JobsKeep
<1>7. CASE Stop
  BY <1>7, StopKeeps
<1> QED
  BY <1>1, <1>2, <1>3, <1>4, <1>5, <1>6, <1>7 DEF AutomationNext

LEMMA InitAutomation ==
    AutomationInit => AutomationInv
<1> SUFFICES ASSUME AutomationInit PROVE AutomationInv
  OBVIOUS
<1>1. /\ trigger \in Triggers /\ enabled = TRUE /\ version = 1 /\ rows = <<>> /\ open = TRUE
      /\ others = 0 /\ now = 0 /\ server = "up" /\ since = 0 /\ answers = {}
      /\ counts = [edits |-> 0, others |-> 0, asked |-> 0, stops |-> 0]
      /\ next = NextAfter(trigger.times, 0)
  BY DEF AutomationInit
<1>2. Len(rows) = 0 /\ RowsTyped /\ 1..Len(rows) = {}
  BY <1>1 DEF RowsTyped
<1>3. PICK times \in SUBSET Nat : times = trigger.times
  BY <1>1, AutomationAssumption
<1>4. PICK first : first = NextAfter(times, 0)
  OBVIOUS
<1>5. /\ first \in Nat \cup {Never} /\ (first = Never => \A c \in times : c <= 0)
      /\ first # Never => first \in times /\ first > 0 /\ \A c \in times : c > 0 => first <= c
  BY <1>4, NextAfterIs
<1>6. next = first
  BY <1>1, <1>3, <1>4
<1>7. OwnerTyped
  BY <1>1, <1>5, <1>6 DEF OwnerTyped
<1>8. RestTyped
  BY <1>1 DEF RestTyped
<1>9. EventRows /\ Versions
  BY <1>2 DEF EventRows, Versions
<1>10. Answered
  BY <1>1 DEF Answered
<1>11. Waits
  BY <1>1, <1>3, <1>5, <1>6 DEF Waits
<1>12. OneTimerWaits
  BY <1>2, SoleTimerIs DEF SoleTimer
<1>13. TimesAccounted
  <2>1. ASSUME NEW c \in trigger.times PROVE ~Since(c) /\ NotYet(c)
    <3>1. c \in times /\ c \in Nat
      BY <1>3
    <3>2. ~(c > 0 /\ (first = Never \/ c < first))
      BY <1>5, <3>1
    <3> QED
      BY <1>1, <1>2, <1>6, <3>2 DEF Since, NotYet
  <2> QED
    BY <1>2, <2>1, AccountedIs
<1> QED
  BY <1>2, <1>7, <1>8, <1>9, <1>10, <1>11, <1>12, <1>13 DEF AutomationInv, AutomationTyped

LEMMA AutomationInvariant ==
    AutomationSpec => []AutomationInv
BY InitAutomation, AutomationStep, PTL DEF AutomationSpec

-----------------------------------------------------------------------------
(* The theorems                                                            *)

\* The automation, its rows and the answers senders got keep their types.
THEOREM AutomationTypes ==
    AutomationSpec => []AutomationTyped
<1>1. AutomationInv => AutomationTyped
  BY DEF AutomationInv
<1> QED
  BY <1>1, AutomationInvariant, PTL

\* Whatever the calendar, the edits, the stops of the server and the times at
\* which the loop ticks: every instant since the configuration was made, up to
\* the one the automation waits for, is run once or lies in one skipped range,
\* and no later one does.
THEOREM InstantsAreAccounted ==
    AutomationSpec => []TimesAccounted
<1>1. AutomationInv => TimesAccounted
  BY DEF AutomationInv
<1> QED
  BY <1>1, AutomationInvariant, PTL

\* Senders that deliver an event any number of times, over any edits of the
\* automation, are told the one job that took that very content.
THEOREM EventsAreTakenOnce ==
    AutomationSpec => []EventsRunOnce
<1>1. ASSUME RowsTyped, EventRows, Answered PROVE EventsRunOnce
  <2> SUFFICES ASSUME NEW a \in answers, NEW b \in answers
               PROVE  LET s == rows[a[2]]  u == rows[b[2]]
                          field == IF s.key[1] = "github" THEN "body" ELSE "id"
                      IN  /\ s.hash = <<s.key[1], a[1].body>>
                          /\ (s.key[1] = u.key[1] /\ a[1][field] = b[1][field]) => a[2] = b[2]
    BY DEF EventsRunOnce
  <2> DEFINE s == rows[a[2]]
             u == rows[b[2]]
  <2>1. /\ a[2] \in 1..Len(rows) /\ s.source = "webhook" /\ s.hash = <<s.key[1], a[1].body>>
        /\ s.key[1] # "github" => s.key = <<s.key[1], a[1].id>>
    BY <1>1 DEF Answered
  <2>2. /\ b[2] \in 1..Len(rows) /\ u.source = "webhook" /\ u.hash = <<u.key[1], b[1].body>>
        /\ u.key[1] # "github" => u.key = <<u.key[1], b[1].id>>
    BY <1>1 DEF Answered
  <2>3. ASSUME s.key[1] = u.key[1], s.key[1] = "github", a[1].body = b[1].body PROVE a[2] = b[2]
    <3>1. s.hash = u.hash
      BY <2>1, <2>2, <2>3
    <3> QED
      BY <1>1, <2>1, <2>2, <2>3, <3>1 DEF EventRows
  <2>4. ASSUME s.key[1] = u.key[1], s.key[1] # "github", a[1].id = b[1].id PROVE a[2] = b[2]
    <3>1. s.key = u.key
      BY <2>1, <2>2, <2>4
    <3> QED
      BY <1>1, <2>1, <2>2, <3>1 DEF EventRows
  <2> QED
    BY <2>1, <2>3, <2>4
<1>2. AutomationInv => EventsRunOnce
  BY <1>1 DEF AutomationInv, AutomationTyped
<1> QED
  BY <1>2, AutomationInvariant, PTL

\* A timer whose last occurrence has not started replaces it: at most one waits.
THEOREM TimersDoNotPileUp ==
    AutomationSpec => []OneTimerWaits
<1>1. AutomationInv => OneTimerWaits
  BY DEF AutomationInv
<1> QED
  BY <1>1, AutomationInvariant, PTL

\* What was queued under a configuration the owner has replaced never starts.
THEOREM ReplacedWorkNeverStarts ==
    AutomationSpec => EditedWorkNeverStarts
<1>1. ASSUME AutomationInv
      PROVE  [\A i \in DOMAIN rows : (rows[i].job = "queued" /\ rows'[i].job = "running")
                                         => rows[i].version = version]_automationVars
  <2>1. DOMAIN rows = 1..Len(rows) /\ Versions
    BY <1>1, PlacesOfRows DEF AutomationInv, AutomationTyped
  <2> QED
    BY <2>1 DEF Versions
<1> QED
  BY <1>1, AutomationInvariant, PTL DEF EditedWorkNeverStarts

-----------------------------------------------------------------------------
(* Task threads: what is true of every job, and of all of them              *)

Statuses == {"queued", "running", "waiting", "succeeded", "failed", "cancelled",
             "interrupted"}
Places == {"idle", "run", "asked", "done", "failed", "cancelled"}
TurnStates == {"pending", "queued", "running", "waiting", "ended"}
Kinds == {"message", "event", "report", "resume", "instruction"}
Inputs == [kind : {"event", "report"}, thread : Nat, of : Nat, run : Nat]
TaskJobs ==
    [status : Statuses, thread : AllThreads, kind : Kinds, auto : BOOLEAN,
     turn : TurnStates, at : Places, occ : BOOLEAN, moved : BOOLEAN, gen : Nat,
     verified : BOOLEAN, inputs : SUBSET Inputs, read : SUBSET Inputs]
ThreadStates == {"none", "active", "running", "paused"}

ThreadsTyped ==
    /\ thread \in [AllThreads -> ThreadStates] /\ ckpt \in [AllThreads -> BOOLEAN]
    /\ followers \in Seq(Tasks) /\ instructed \in Nat
    /\ spent \in [events : Nat, sent : Nat, orders : Nat, crashes : Nat]
TasksTyped == job \in Seq(TaskJobs) /\ delivered \in SUBSET Inputs /\ ThreadsTyped

\* A task follows the topic once, and from when it was opened.
FollowOnce ==
    /\ \A i, k \in 1..Len(followers) : followers[i] = followers[k] => i = k
    /\ \A i \in 1..Len(followers) : thread[followers[i]] # "none"

\* A job no worker was given has been read nothing of, and only such a job can
\* be found in the queue with events or reports; of another all was read.
WellRead(r) ==
    /\ r.gen = 0 => /\ r.read = {} /\ r.at = "idle" /\ r.turn # "waiting"
                    /\ r.status \in {"queued", "cancelled"}
    /\ r.gen > 0 => r.inputs \subseteq r.read
    /\ r.status = "queued" /\ r.kind \in {"event", "report"} => r.gen = 0

Carried(r) == r.inputs \cup r.read

\* What was accepted is carried by one job, and nothing else is carried.
CarriedOnce(jobs, d) ==
    /\ \A j \in DOMAIN jobs : Carried(jobs[j]) \subseteq d
    /\ \A i \in d : \E j \in DOMAIN jobs : i \in Carried(jobs[j])
    /\ \A j, k \in DOMAIN jobs : j # k => Carried(jobs[j]) \cap Carried(jobs[k]) = {}

Sound(jobs, d) ==
    /\ jobs \in Seq(TaskJobs) /\ d \in SUBSET Inputs
    /\ \A j \in DOMAIN jobs : WellRead(jobs[j])
    /\ CarriedOnce(jobs, d)

\* What was accepted has happened: it is one of the first n events, or the report
\* of a run whose worker is gone.
Happened(jobs, d, n) ==
    \A i \in d :
        \/ i.kind = "event" /\ i.of <= n
        \/ /\ i.kind = "report" /\ i.of \in DOMAIN jobs /\ i.run <= jobs[i.of].gen
           /\ i.run = jobs[i.of].gen => jobs[i.of].at = "idle"

TasksInv ==
    /\ TasksTyped /\ FollowOnce
    /\ Sound(job, delivered) /\ Happened(job, delivered, spent.events)

Instructions(jobs) == {j \in DOMAIN jobs : jobs[j].kind = "instruction"}
Requests == spent.events + spent.sent

\* What is left of the newest request's instructions was allowed with it.
BudgetKept ==
    /\ instructed <= MaxPerRequest
    /\ Requests = 0 => job = <<>>
    /\ Requests # 0 => Cardinality(Instructions(job)) + (MaxPerRequest - instructed)
                           <= MaxPerRequest * Requests

-----------------------------------------------------------------------------
(* Jobs and what they carry                                                 *)

LEMMA TaskConstants ==
    /\ MaxOpened \in Nat /\ MaxDeliveries \in Nat
    /\ Home \in AllThreads /\ Tasks \subseteq AllThreads /\ Home \notin Tasks
    /\ \A t \in AllThreads : t \in Nat
BY TaskAssumption DEF Home, Tasks, AllThreads

\* What is known of each job.
LEMMA ATaskJob ==
    ASSUME NEW r \in TaskJobs
    PROVE  /\ r.status \in Statuses /\ r.thread \in AllThreads /\ r.kind \in Kinds
           /\ r.auto \in BOOLEAN /\ r.turn \in TurnStates /\ r.at \in Places
           /\ r.occ \in BOOLEAN /\ r.moved \in BOOLEAN /\ r.gen \in Nat
           /\ r.verified \in BOOLEAN
           /\ r.inputs \in SUBSET Inputs /\ r.read \in SUBSET Inputs
BY DEF TaskJobs

LEMMA TheTaskJobs ==
    ASSUME NEW jobs \in Seq(TaskJobs)
    PROVE  /\ Len(jobs) \in Nat /\ DOMAIN jobs = 1..Len(jobs)
           /\ \A j \in 1..Len(jobs) : jobs[j] \in TaskJobs /\ j \in Nat
OBVIOUS

\* One job is rewritten.
LEMMA OneRewritten ==
    ASSUME NEW jobs \in Seq(TaskJobs), NEW j \in DOMAIN jobs, NEW r \in TaskJobs
    PROVE  /\ [jobs EXCEPT ![j] = r] \in Seq(TaskJobs)
           /\ DOMAIN [jobs EXCEPT ![j] = r] = DOMAIN jobs
           /\ Len([jobs EXCEPT ![j] = r]) = Len(jobs)
           /\ \A k \in DOMAIN jobs :
                  [jobs EXCEPT ![j] = r][k] = IF k = j THEN r ELSE jobs[k]
<1>1. [jobs EXCEPT ![j] = r] \in Seq(TaskJobs)
    BY ExceptSeq
<1>2. DOMAIN [jobs EXCEPT ![j] = r] = DOMAIN jobs
    OBVIOUS
<1>3. Len([jobs EXCEPT ![j] = r]) = Len(jobs)
    BY ExceptSeq
<1> QED
    BY <1>1, <1>2, <1>3

\* How a job may go on without a change of what it carries.
Proceeds(p, r) ==
    /\ Carried(r) = Carried(p) /\ WellRead(r)
    /\ \/ r.gen > p.gen
       \/ r.gen = p.gen /\ (p.at = "idle" => r.at = "idle")

LEMMA JobsProceed ==
    ASSUME NEW jobs, NEW d, NEW n \in Nat, NEW new \in Seq(TaskJobs),
           Sound(jobs, d), Happened(jobs, d, n), DOMAIN new = DOMAIN jobs,
           \A j \in DOMAIN jobs : Proceeds(jobs[j], new[j])
    PROVE  Sound(new, d) /\ Happened(new, d, n)
<1>1. jobs \in Seq(TaskJobs) /\ d \in SUBSET Inputs /\ CarriedOnce(jobs, d)
    BY DEF Sound
<1>2. \A j \in DOMAIN jobs : Carried(new[j]) = Carried(jobs[j]) /\ WellRead(new[j])
    BY DEF Proceeds
<1>3. CarriedOnce(new, d)
    BY <1>1, <1>2 DEF CarriedOnce
<1>4. Sound(new, d)
    BY <1>1, <1>2, <1>3 DEF Sound
<1>5. ASSUME NEW i \in d
      PROVE  \/ i.kind = "event" /\ i.of <= n
             \/ /\ i.kind = "report" /\ i.of \in DOMAIN new /\ i.run <= new[i.of].gen
                /\ i.run = new[i.of].gen => new[i.of].at = "idle"
    <2>1. \/ i.kind = "event" /\ i.of <= n
          \/ /\ i.kind = "report" /\ i.of \in DOMAIN jobs /\ i.run <= jobs[i.of].gen
             /\ i.run = jobs[i.of].gen => jobs[i.of].at = "idle"
        BY <1>5 DEF Happened
    <2>2. CASE i.kind = "event" /\ i.of <= n
        BY <2>2
    <2>3. CASE /\ i.kind = "report" /\ i.of \in DOMAIN jobs /\ i.run <= jobs[i.of].gen
               /\ i.run = jobs[i.of].gen => jobs[i.of].at = "idle"
        <3>1. PICK k \in DOMAIN jobs : k = i.of
            BY <2>3
        <3>2. jobs[k].gen \in Nat /\ new[k].gen \in Nat
            BY <1>1, <3>1, TheTaskJobs, ATaskJob
        <3>3. i.run \in Nat
            BY <1>1, <1>5 DEF Inputs
        <3>4. \/ new[k].gen > jobs[k].gen
              \/ new[k].gen = jobs[k].gen /\ (jobs[k].at = "idle" => new[k].at = "idle")
            BY <3>1 DEF Proceeds
        <3> QED
            BY <2>3, <3>1, <3>2, <3>3, <3>4
    <2> QED
        BY <2>1, <2>2, <2>3
<1>6. Happened(new, d, n)
    BY <1>5 DEF Happened
<1> QED
    BY <1>4, <1>6

\* One job goes on.
LEMMA OneProceeds ==
    ASSUME NEW jobs, NEW d, NEW n \in Nat, Sound(jobs, d), Happened(jobs, d, n),
           NEW j \in DOMAIN jobs, NEW r \in TaskJobs, Proceeds(jobs[j], r)
    PROVE  LET new == [jobs EXCEPT ![j] = r]
           IN  new \in Seq(TaskJobs) /\ Sound(new, d) /\ Happened(new, d, n)
<1> DEFINE new == [jobs EXCEPT ![j] = r]
<1>1. jobs \in Seq(TaskJobs) /\ \A k \in DOMAIN jobs : WellRead(jobs[k])
    BY DEF Sound
<1>2. /\ new \in Seq(TaskJobs) /\ DOMAIN new = DOMAIN jobs
      /\ \A k \in DOMAIN jobs : new[k] = IF k = j THEN r ELSE jobs[k]
    BY <1>1, OneRewritten
<1>3. \A k \in DOMAIN jobs : Proceeds(jobs[k], jobs[k])
    BY <1>1 DEF Proceeds
<1>4. \A k \in DOMAIN jobs : Proceeds(jobs[k], new[k])
    BY <1>2, <1>3
<1> HIDE DEF new
<1>5. Sound(new, d) /\ Happened(new, d, n)
    BY <1>2, <1>4, JobsProceed
<1> QED
    BY <1>2, <1>5 DEF new

\* A new input joins a job that no worker was given.
LEMMA InputJoins ==
    ASSUME NEW jobs, NEW d, Sound(jobs, d), NEW j \in DOMAIN jobs,
           jobs[j].gen = 0, NEW x \in Inputs, x \notin d
    PROVE  /\ Sound([jobs EXCEPT ![j].inputs = @ \cup {x}], d \cup {x})
           /\ DOMAIN [jobs EXCEPT ![j].inputs = @ \cup {x}] = DOMAIN jobs
           /\ \A k \in DOMAIN jobs :
                  LET new == [jobs EXCEPT ![j].inputs = @ \cup {x}][k]
                  IN  new.gen = jobs[k].gen /\ new.at = jobs[k].at /\ new.kind = jobs[k].kind
<1> DEFINE r == [jobs[j] EXCEPT !.inputs = @ \cup {x}]
           new == [jobs EXCEPT ![j].inputs = @ \cup {x}]
<1>1. /\ jobs \in Seq(TaskJobs) /\ d \in SUBSET Inputs /\ CarriedOnce(jobs, d)
      /\ \A k \in DOMAIN jobs : WellRead(jobs[k])
    BY DEF Sound
<1>2. jobs[j] \in TaskJobs
    BY <1>1, TheTaskJobs
<1>3. r \in TaskJobs
    BY <1>2 DEF TaskJobs
<1>4. new = [jobs EXCEPT ![j] = r]
    OBVIOUS
<1>5. /\ r.gen = jobs[j].gen /\ r.at = jobs[j].at /\ r.kind = jobs[j].kind
      /\ r.status = jobs[j].status /\ r.turn = jobs[j].turn /\ r.read = jobs[j].read
      /\ r.inputs = jobs[j].inputs \cup {x}
    BY <1>2 DEF TaskJobs
<1> HIDE DEF r
<1>6. /\ new \in Seq(TaskJobs) /\ DOMAIN new = DOMAIN jobs
      /\ \A k \in DOMAIN jobs : new[k] = IF k = j THEN r ELSE jobs[k]
    BY <1>1, <1>3, <1>4, OneRewritten
<1> HIDE DEF new
<1>7. Carried(r) = Carried(jobs[j]) \cup {x}
    BY <1>5 DEF Carried
<1>8. WellRead(r)
    BY <1>1, <1>5 DEF WellRead
<1>9. CarriedOnce(new, d \cup {x})
    <2>1. \A k \in DOMAIN jobs : x \notin Carried(jobs[k])
        BY <1>1 DEF CarriedOnce
    <2>2. \A k \in DOMAIN jobs :
              Carried(new[k]) = IF k = j THEN Carried(jobs[k]) \cup {x} ELSE Carried(jobs[k])
        BY <1>6, <1>7
    <2>3. \A k \in DOMAIN new : Carried(new[k]) \subseteq d \cup {x}
        BY <1>1, <1>6, <2>2 DEF CarriedOnce
    <2>4. ASSUME NEW i \in d \cup {x}
          PROVE  \E k \in DOMAIN new : i \in Carried(new[k])
        <3>1. CASE i = x
            BY <1>6, <2>2, <3>1
        <3>2. CASE i \in d
            BY <1>1, <1>6, <2>2, <3>2 DEF CarriedOnce
        <3> QED
            BY <3>1, <3>2
    <2>5. \A k, l \in DOMAIN new : k # l => Carried(new[k]) \cap Carried(new[l]) = {}
        BY <1>1, <1>6, <2>1, <2>2 DEF CarriedOnce
    <2> QED
        BY <2>3, <2>4, <2>5 DEF CarriedOnce
<1>10. Sound(new, d \cup {x})
    BY <1>1, <1>6, <1>8, <1>9 DEF Sound
<1>11. \A k \in DOMAIN jobs :
           new[k].gen = jobs[k].gen /\ new[k].at = jobs[k].at /\ new[k].kind = jobs[k].kind
    BY <1>5, <1>6
<1> QED
    BY <1>6, <1>10, <1>11 DEF new

\* What a new job is.
LEMMA ANewJob ==
    ASSUME NEW inputs \in SUBSET Inputs, NEW t \in AllThreads, NEW kind \in Kinds,
           NEW auto \in BOOLEAN, NEW turn \in TurnStates, turn # "waiting"
    PROVE  /\ NewJob(t, kind, auto, inputs, turn) \in TaskJobs
           /\ WellRead(NewJob(t, kind, auto, inputs, turn))
           /\ Carried(NewJob(t, kind, auto, inputs, turn)) = inputs
           /\ NewJob(t, kind, auto, inputs, turn).kind = kind
<1>1. NewJob(t, kind, auto, inputs, turn) \in TaskJobs
    BY DEF NewJob, TaskJobs, Statuses, Places
<1> QED
    BY <1>1 DEF NewJob, Carried, WellRead

\* A job is added, with new inputs or with none.
LEMMA JobIsAdded ==
    ASSUME NEW jobs, NEW d, Sound(jobs, d), NEW r \in TaskJobs, WellRead(r),
           Carried(r) \cap d = {}
    PROVE  /\ Sound(Append(jobs, r), d \cup Carried(r))
           /\ Len(Append(jobs, r)) = Len(jobs) + 1
           /\ DOMAIN jobs \subseteq DOMAIN Append(jobs, r)
           /\ \A k \in DOMAIN jobs : Append(jobs, r)[k] = jobs[k]
           /\ Append(jobs, r)[Len(jobs) + 1] = r
<1> DEFINE new == Append(jobs, r)
           N == Len(jobs) + 1
           inputs == Carried(r)
<1>1. /\ jobs \in Seq(TaskJobs) /\ d \in SUBSET Inputs /\ CarriedOnce(jobs, d)
      /\ \A k \in DOMAIN jobs : WellRead(jobs[k])
    BY DEF Sound
<1>2. inputs \in SUBSET Inputs /\ inputs \cap d = {}
    BY ATaskJob DEF Carried
<1>4. /\ new \in Seq(TaskJobs) /\ Len(jobs) \in Nat
      /\ DOMAIN jobs = 1..Len(jobs) /\ DOMAIN new = 1..N /\ new[N] = r
      /\ \A k \in DOMAIN jobs : new[k] = jobs[k]
    BY <1>1
<1>5. /\ N \in DOMAIN new /\ N \notin DOMAIN jobs
      /\ (\A k \in DOMAIN new : k = N \/ k \in DOMAIN jobs)
      /\ DOMAIN jobs \subseteq DOMAIN new
    BY <1>4
<1> HIDE DEF new, N, inputs
<1>6. Carried(r) = inputs
    BY DEF inputs
<1>7. \A k \in DOMAIN new : WellRead(new[k])
    BY <1>1, <1>4, <1>5, <1>6
<1>8. CarriedOnce(new, d \cup inputs)
    <2>1. \A k \in DOMAIN jobs : Carried(new[k]) = Carried(jobs[k]) /\ Carried(jobs[k]) \subseteq d
        BY <1>1, <1>4 DEF CarriedOnce
    <2>2. Carried(new[N]) = inputs
        BY <1>4, <1>6
    <2>3. \A k \in DOMAIN new : Carried(new[k]) \subseteq d \cup inputs
        BY <1>5, <2>1, <2>2
    <2>4. ASSUME NEW i \in d \cup inputs
          PROVE  \E k \in DOMAIN new : i \in Carried(new[k])
        <3>1. CASE i \in inputs
            BY <1>5, <2>2, <3>1
        <3>2. CASE i \in d
            BY <1>1, <1>5, <2>1, <3>2 DEF CarriedOnce
        <3> QED
            BY <3>1, <3>2
    <2>5. ASSUME NEW k \in DOMAIN new, NEW l \in DOMAIN new, k # l
          PROVE  Carried(new[k]) \cap Carried(new[l]) = {}
        <3>1. CASE k = N
            BY <1>2, <1>5, <2>1, <2>2, <2>5, <3>1
        <3>2. CASE l = N
            BY <1>2, <1>5, <2>1, <2>2, <2>5, <3>2
        <3>3. CASE k # N /\ l # N
            BY <1>1, <1>5, <2>1, <2>5, <3>3 DEF CarriedOnce
        <3> QED
            BY <3>1, <3>2, <3>3
    <2> QED
        BY <2>3, <2>4, <2>5 DEF CarriedOnce
<1>9. Sound(new, d \cup inputs)
    BY <1>1, <1>2, <1>4, <1>7, <1>8 DEF Sound
<1>10. Len(new) = N
    BY <1>1 DEF new, N
<1> QED
    BY <1>4, <1>5, <1>9, <1>10 DEF new, N, inputs

\* Jobs are only added, and those there are keep their runs.
RunsKept(jobs, new) ==
    /\ DOMAIN jobs \subseteq DOMAIN new
    /\ \A k \in DOMAIN jobs : new[k].gen = jobs[k].gen /\ new[k].at = jobs[k].at

LEMMA HappenedStays ==
    ASSUME NEW jobs, NEW d, NEW n \in Nat, NEW m \in Nat, n <= m, d \in SUBSET Inputs,
           NEW new, RunsKept(jobs, new), Happened(jobs, d, n)
    PROVE  Happened(new, d, m)
<1> SUFFICES ASSUME NEW i \in d
             PROVE  \/ i.kind = "event" /\ i.of <= m
                    \/ /\ i.kind = "report" /\ i.of \in DOMAIN new
                       /\ i.run <= new[i.of].gen
                       /\ i.run = new[i.of].gen => new[i.of].at = "idle"
    BY DEF Happened
<1>1. i.of \in Nat
    BY DEF Inputs
<1> QED
    BY <1>1 DEF Happened, RunsKept

LEMMA ThereIsAMax ==
    ASSUME NEW jobs \in Seq(TaskJobs), NEW S \in SUBSET DOMAIN jobs, S # {}
    PROVE  Max(S) \in S /\ Min(S) \in S
<1>1. Len(jobs) \in Nat /\ S \in SUBSET (1..Len(jobs))
    BY TheTaskJobs
<1>2. S \in SUBSET Nat /\ S \in SUBSET Int /\ \A y \in S : y <= Len(jobs)
    BY <1>1
<1> QED
    BY <1>1, <1>2, LeastOf, GreatestOf

\* A queued run with events, or with reports, was given to no worker.
LEMMA OpenIsNew ==
    ASSUME NEW jobs, NEW d, Sound(jobs, d), NEW t
    PROVE  /\ Batches(jobs, t) # {} =>
                  /\ Max(Batches(jobs, t)) \in DOMAIN jobs
                  /\ jobs[Max(Batches(jobs, t))].gen = 0
           /\ OpenReports(jobs) # {} =>
                  /\ Min(OpenReports(jobs)) \in DOMAIN jobs
                  /\ jobs[Min(OpenReports(jobs))].gen = 0
<1>1. jobs \in Seq(TaskJobs) /\ \A j \in DOMAIN jobs : WellRead(jobs[j])
    BY DEF Sound
<1>2. Batches(jobs, t) \in SUBSET DOMAIN jobs /\ OpenReports(jobs) \in SUBSET DOMAIN jobs
    BY DEF Batches, OpenReports, JobsOn
<1>3. \A j \in Batches(jobs, t) : jobs[j].gen = 0
    BY <1>1, <1>2 DEF Batches, WellRead
<1>4. \A j \in OpenReports(jobs) : jobs[j].gen = 0
    BY <1>1, <1>2 DEF OpenReports, WellRead
<1>5. Batches(jobs, t) # {} => Max(Batches(jobs, t)) \in Batches(jobs, t)
    BY <1>1, <1>2, ThereIsAMax
<1>6. OpenReports(jobs) # {} => Min(OpenReports(jobs)) \in OpenReports(jobs)
    BY <1>1, <1>2, ThereIsAMax
<1> QED
    BY <1>2, <1>3, <1>4, <1>5, <1>6

\* A message is posted with what it brings.
LEMMA PostKeeps ==
    ASSUME NEW jobs, NEW d, Sound(jobs, d), NEW inputs \in SUBSET Inputs, inputs \cap d = {},
           NEW t \in AllThreads, NEW kind \in Kinds, NEW auto \in BOOLEAN
    PROVE  /\ Sound(Post(jobs, t, kind, auto, inputs), d \cup inputs)
           /\ RunsKept(jobs, Post(jobs, t, kind, auto, inputs))
<1>1. PICK turn \in TurnStates :
          turn # "waiting" /\ turn = IF Busy(jobs, t) THEN "queued" ELSE "pending"
    BY DEF TurnStates
<1>2. PICK r \in TaskJobs : r = NewJob(t, kind, auto, inputs, turn) /\ WellRead(r)
                                /\ Carried(r) = inputs
    BY <1>1, ANewJob
<1>3. Post(jobs, t, kind, auto, inputs) = Append(jobs, r)
    BY <1>1, <1>2 DEF Post
<1>4. /\ Sound(Append(jobs, r), d \cup inputs) /\ DOMAIN jobs \subseteq DOMAIN Append(jobs, r)
      /\ \A k \in DOMAIN jobs : Append(jobs, r)[k] = jobs[k]
    BY <1>2, JobIsAdded
<1> QED
    BY <1>3, <1>4 DEF RunsKept

\* A message is an instruction if it is posted as one.
LEMMA PostBrings ==
    ASSUME NEW jobs \in Seq(TaskJobs), NEW inputs \in SUBSET Inputs, NEW t \in AllThreads,
           NEW kind \in Kinds, NEW auto \in BOOLEAN
    PROVE  /\ Instructions(Post(jobs, t, kind, auto, inputs))
                  \subseteq Instructions(jobs) \cup {Len(jobs) + 1}
           /\ kind # "instruction" =>
                  Instructions(Post(jobs, t, kind, auto, inputs)) \subseteq Instructions(jobs)
<1>1. PICK turn \in TurnStates :
          turn # "waiting" /\ turn = IF Busy(jobs, t) THEN "queued" ELSE "pending"
    BY DEF TurnStates
<1>2. PICK r \in TaskJobs : r = NewJob(t, kind, auto, inputs, turn) /\ r.kind = kind
    BY <1>1, ANewJob
<1>3. Post(jobs, t, kind, auto, inputs) = Append(jobs, r)
    BY <1>1, <1>2 DEF Post
<1> DEFINE new == Append(jobs, r)
<1>4. /\ DOMAIN jobs = 1..Len(jobs) /\ DOMAIN new = 1..(Len(jobs) + 1)
      /\ Len(jobs) \in Nat /\ new[Len(jobs) + 1] = r /\ \A k \in DOMAIN jobs : new[k] = jobs[k]
    OBVIOUS
<1> HIDE DEF new
<1>5. \A k \in DOMAIN new : k \in DOMAIN jobs \/ k = Len(jobs) + 1
    BY <1>4
<1>6. /\ Instructions(new) \subseteq Instructions(jobs) \cup {Len(jobs) + 1}
      /\ kind # "instruction" => Instructions(new) \subseteq Instructions(jobs)
    BY <1>2, <1>4, <1>5 DEF Instructions
<1> QED
    BY <1>3, <1>6 DEF new

\* An event is delivered.
LEMMA DeliverKeeps ==
    ASSUME NEW jobs, NEW d, Sound(jobs, d), NEW t \in AllThreads, NEW e \in Nat,
           Event(t, e) \notin d, NEW auto \in BOOLEAN
    PROVE  /\ Sound(Deliver(jobs, t, e, auto), d \cup {Event(t, e)})
           /\ RunsKept(jobs, Deliver(jobs, t, e, auto))
           /\ Instructions(Deliver(jobs, t, e, auto)) \subseteq Instructions(jobs)
<1>1. Event(t, e) \in Inputs
    BY TaskConstants DEF Event, Inputs
<1>2. CASE Batches(jobs, t) # {}
    <2>1. PICK b \in DOMAIN jobs : b = Max(Batches(jobs, t)) /\ jobs[b].gen = 0
        BY <1>2, OpenIsNew
    <2>2. Deliver(jobs, t, e, auto) = [jobs EXCEPT ![b].inputs = @ \cup {Event(t, e)}]
        BY <1>2, <2>1 DEF Deliver
    <2>3. /\ Sound([jobs EXCEPT ![b].inputs = @ \cup {Event(t, e)}], d \cup {Event(t, e)})
          /\ DOMAIN [jobs EXCEPT ![b].inputs = @ \cup {Event(t, e)}] = DOMAIN jobs
          /\ \A k \in DOMAIN jobs :
                LET new == [jobs EXCEPT ![b].inputs = @ \cup {Event(t, e)}][k]
                IN  new.gen = jobs[k].gen /\ new.at = jobs[k].at /\ new.kind = jobs[k].kind
        BY <1>1, <2>1, InputJoins
    <2> QED
        BY <2>2, <2>3 DEF RunsKept, Instructions
<1>3. CASE Batches(jobs, t) = {}
    <2>1. Deliver(jobs, t, e, auto) = Post(jobs, t, "event", auto, {Event(t, e)})
        BY <1>3 DEF Deliver
    <2>2. {Event(t, e)} \in SUBSET Inputs /\ {Event(t, e)} \cap d = {} /\ "event" \in Kinds
        BY <1>1 DEF Kinds
    <2>3. jobs \in Seq(TaskJobs)
        BY DEF Sound
    <2>4. Instructions(Post(jobs, t, "event", auto, {Event(t, e)})) \subseteq Instructions(jobs)
        <3>1. "event" # "instruction"
            OBVIOUS
        <3> QED
            BY <2>2, <2>3, <3>1, PostBrings
    <2> QED
        BY <2>1, <2>2, <2>4, PostKeeps
<1> QED
    BY <1>2, <1>3

\* A run is reported.
LEMMA ReportKeeps ==
    ASSUME NEW jobs, NEW d, Sound(jobs, d), NEW x \in Inputs, x \notin d
    PROVE  /\ Sound(ReportIn(jobs, x), d \cup {x}) /\ RunsKept(jobs, ReportIn(jobs, x))
           /\ Instructions(ReportIn(jobs, x)) \subseteq Instructions(jobs)
<1>1. CASE OpenReports(jobs) # {}
    <2>1. PICK b \in DOMAIN jobs : b = Min(OpenReports(jobs)) /\ jobs[b].gen = 0
        BY <1>1, OpenIsNew
    <2>2. ReportIn(jobs, x) = [jobs EXCEPT ![b].inputs = @ \cup {x}]
        BY <1>1, <2>1 DEF ReportIn
    <2>3. /\ Sound([jobs EXCEPT ![b].inputs = @ \cup {x}], d \cup {x})
          /\ DOMAIN [jobs EXCEPT ![b].inputs = @ \cup {x}] = DOMAIN jobs
          /\ \A k \in DOMAIN jobs :
                LET new == [jobs EXCEPT ![b].inputs = @ \cup {x}][k]
                IN  new.gen = jobs[k].gen /\ new.at = jobs[k].at /\ new.kind = jobs[k].kind
        BY <2>1, InputJoins
    <2> QED
        BY <2>2, <2>3 DEF RunsKept, Instructions
<1>2. CASE OpenReports(jobs) = {}
    <2>0. PICK auto \in BOOLEAN : auto = FALSE
        OBVIOUS
    <2>1. ReportIn(jobs, x) = Post(jobs, Home, "report", auto, {x})
        BY <1>2, <2>0 DEF ReportIn
    <2>2. /\ {x} \in SUBSET Inputs /\ {x} \cap d = {} /\ "report" \in Kinds /\ Home \in AllThreads
        BY TaskConstants DEF Kinds
    <2>3. jobs \in Seq(TaskJobs)
        BY DEF Sound
    <2>4. Instructions(Post(jobs, Home, "report", auto, {x})) \subseteq Instructions(jobs)
        <3>1. "report" # "instruction"
            OBVIOUS
        <3> QED
            BY <2>2, <2>3, <3>1, PostBrings
    <2>5. Sound(ReportIn(jobs, x), d \cup {x}) /\ RunsKept(jobs, ReportIn(jobs, x))
        BY <2>1, <2>2, PostKeeps
    <2> QED
        BY <2>1, <2>4, <2>5
<1> QED
    BY <1>1, <1>2

-----------------------------------------------------------------------------
(* An event for the tasks that follow the topic                             *)

LEMMA TheSubscribers ==
    ASSUME TasksTyped, FollowOnce
    PROVE  /\ Len(Subscribers) \in Nat /\ DOMAIN Subscribers = 1..Len(Subscribers)
           /\ \A i \in 1..Len(Subscribers) : Subscribers[i] \in AllThreads
           /\ \A i, k \in 1..Len(Subscribers) : Subscribers[i] = Subscribers[k] => i = k
<1> DEFINE n == Min({MaxDeliveries, Len(followers)})
<1>1. followers \in Seq(Tasks) /\ Len(followers) \in Nat /\ MaxDeliveries \in Nat
    BY TaskConstants DEF TasksTyped, ThreadsTyped
<1>2. n \in {MaxDeliveries, Len(followers)} /\ n <= Len(followers)
    <2>1. {MaxDeliveries, Len(followers)} \in SUBSET Nat
        BY <1>1
    <2> QED
        BY <2>1, LeastOf
<1>3. n \in Nat
    BY <1>1, <1>2
<1> HIDE DEF n
<1>4. Subscribers = SubSeq(followers, 1, n)
    BY DEF Subscribers, n
<1>5. Len(Subscribers) = n /\ \A i \in 1..n : Subscribers[i] = followers[i]
    BY <1>1, <1>2, <1>3, <1>4
<1>6. DOMAIN Subscribers = 1..n
    BY <1>1, <1>2, <1>3, <1>4
<1>7. \A i \in 1..n : i \in 1..Len(followers) /\ followers[i] \in Tasks
    BY <1>1, <1>2, <1>3
<1> QED
    BY <1>3, <1>5, <1>6, <1>7, TaskConstants DEF FollowOnce

\* The jobs after n deliveries are those after one less, and one delivery.
LEMMA DeliveredIs ==
    ASSUME Len(Subscribers) \in Nat
    PROVE  /\ Delivered[0] = job
           /\ \A n \in 1..Len(Subscribers) :
                  Delivered[n] = Deliver(Delivered[n - 1], Subscribers[n], NextEvent, FALSE)
<1> DEFINE step(jobs, n) == Deliver(jobs, Subscribers[n], NextEvent, FALSE)
           is(f, m) == f = [n \in 0..m |-> IF n = 0 THEN job ELSE step(f[n - 1], n)]
           without == {m \in Nat : ~\E f : is(f, m)}
           N == Len(Subscribers)
<1> HIDE DEF step
<1>1. ASSUME NEW m \in without, \A k \in Nat : k < m => k \notin without
      PROVE  FALSE
    <2>1. CASE m = 0
        <3>1. is([n \in 0..0 |-> job], 0)
            OBVIOUS
        <3> QED
            BY <1>1, <2>1, <3>1
    <2>2. CASE m # 0
        <3>1. m - 1 \in Nat /\ m - 1 \notin without
            <4> HIDE DEF is
            <4>1. m \in Nat
                BY <1>1
            <4>2. m - 1 \in Nat /\ m - 1 < m
                BY <2>2, <4>1
            <4> HIDE DEF without
            <4> QED
                BY <1>1, <4>2
        <3>2. PICK g : g = [n \in 0..(m - 1) |-> IF n = 0 THEN job ELSE step(g[n - 1], n)]
            BY <3>1
        <3> DEFINE f == [n \in 0..m |-> IF n = m THEN step(g[m - 1], m) ELSE g[n]]
        <3>3. ASSUME NEW n \in 0..m
              PROVE  f[n] = IF n = 0 THEN job ELSE step(f[n - 1], n)
            <4>1. CASE n = m
                <5>1. f[n] = step(g[m - 1], m) /\ n # 0 /\ m - 1 \in 0..m /\ m - 1 # m
                    BY <1>1, <2>2, <4>1
                <5>2. f[m - 1] = g[m - 1]
                    BY <5>1
                <5> QED
                    BY <4>1, <5>1, <5>2
            <4>2. CASE n # m
                <5>1. n \in 0..(m - 1) /\ f[n] = g[n]
                    BY <1>1, <2>2, <4>2
                <5>2. g[n] = IF n = 0 THEN job ELSE step(g[n - 1], n)
                    BY <3>2, <5>1
                <5>3. CASE n = 0
                    BY <5>1, <5>2, <5>3
                <5>4. CASE n # 0
                    <6>1. n - 1 \in 0..m /\ n - 1 # m
                        BY <1>1, <5>1, <5>4
                    <6>2. f[n - 1] = g[n - 1]
                        BY <6>1
                    <6> QED
                        BY <5>1, <5>2, <5>4, <6>2
                <5> QED
                    BY <5>3, <5>4
            <4> QED
                BY <4>1, <4>2
        <3>4. f = [n \in 0..m |-> f[n]]
            OBVIOUS
        <3> HIDE DEF f
        <3>5. is(f, m)
            BY <3>3, <3>4
        <3> QED
            BY <1>1, <3>5
    <2> QED
        BY <2>1, <2>2
<1>2. without = {}
    <2> SUFFICES ASSUME without # {} PROVE FALSE
        OBVIOUS
    <2> HIDE DEF without
    <2>0. without \subseteq Nat
        BY DEF without
    <2>1. PICK m \in without : \A k \in Nat : <<k, m>> \in OpToRel(<, Nat) => k \notin without
        BY <2>0, NatLessThanWellFounded, WFMin, Zenon
    <2>2. \A k \in Nat : k < m => k \notin without
        BY <2>0, <2>1 DEF OpToRel
    <2> QED
        BY <1>1, <2>2
<1>3. \E f : f = [n \in 0..N |-> IF n = 0 THEN job
                                 ELSE Deliver(f[n - 1], Subscribers[n], NextEvent, FALSE)]
    BY <1>2 DEF step
<1>4. Delivered = [n \in 0..N |-> IF n = 0 THEN job
                         ELSE Deliver(Delivered[n - 1], Subscribers[n], NextEvent, FALSE)]
    BY <1>3 DEF Delivered
<1>5. 0 \in 0..N /\ \A n \in 1..N : n \in 0..N /\ n # 0
    OBVIOUS
<1> QED
    BY <1>4, <1>5

\* What was delivered with the first n of them.
Sent(n) == {Event(Subscribers[i], NextEvent) : i \in 1..n}

LEMMA RunsKeptOn ==
    ASSUME NEW a, NEW b, NEW c, RunsKept(a, b), RunsKept(b, c)
    PROVE  RunsKept(a, c)
BY DEF RunsKept

LEMMA DeliveredKeeps ==
    ASSUME TasksInv
    PROVE  /\ Sound(Delivered[Len(Subscribers)], delivered \cup Sent(Len(Subscribers)))
           /\ RunsKept(job, Delivered[Len(Subscribers)])
           /\ Instructions(Delivered[Len(Subscribers)]) \subseteq Instructions(job)
<1> DEFINE N == Len(Subscribers)
           good(n) == /\ Sound(Delivered[n], delivered \cup Sent(n))
                      /\ RunsKept(job, Delivered[n])
                      /\ Instructions(Delivered[n]) \subseteq Instructions(job)
           bad == {n \in 0..N : ~good(n)}
<1>1. /\ N \in Nat /\ \A i \in 1..N : Subscribers[i] \in AllThreads
      /\ \A i, k \in 1..N : Subscribers[i] = Subscribers[k] => i = k
    BY TheSubscribers DEF TasksInv
<1>2. /\ Delivered[0] = job
      /\ \A n \in 1..N :
             Delivered[n] = Deliver(Delivered[n - 1], Subscribers[n], NextEvent, FALSE)
    BY <1>1, DeliveredIs
<1>3. Sound(job, delivered) /\ Happened(job, delivered, spent.events) /\ spent.events \in Nat
      /\ delivered \in SUBSET Inputs /\ NextEvent \in Nat /\ ~(NextEvent <= spent.events)
    BY DEF TasksInv, TasksTyped, ThreadsTyped, NextEvent
<1>4. \A i \in 1..N : Event(Subscribers[i], NextEvent) \notin delivered
    BY <1>3 DEF Happened, Event
<1>5. good(0)
    <2>1. Sent(0) = {}
        BY DEF Sent
    <2> QED
        BY <1>2, <1>3, <2>1 DEF RunsKept
<1>6. ASSUME NEW n \in 1..N, good(n - 1)
      PROVE  good(n)
    <2> DEFINE x == Event(Subscribers[n], NextEvent)
    <2>1. x \notin delivered
        BY <1>4, <1>6
    <2>2. x \notin Sent(n - 1)
        <3>1. \A i \in 1..(n - 1) : i \in 1..N /\ i # n
            BY <1>1, <1>6
        <3>2. \A i \in 1..(n - 1) : Subscribers[i] # Subscribers[n]
            BY <1>1, <1>6, <3>1
        <3> QED
            BY <3>2 DEF Sent, Event
    <2>3. Sent(n) = Sent(n - 1) \cup {x}
        <3>1. 1..n = (1..(n - 1)) \cup {n}
            BY <1>1, <1>6
        <3> QED
            BY <3>1 DEF Sent
    <2>4. PICK no \in BOOLEAN : no = FALSE
        OBVIOUS
    <2>5. Delivered[n] = Deliver(Delivered[n - 1], Subscribers[n], NextEvent, no)
        BY <1>2, <1>6, <2>4
    <2>6. /\ Sound(Deliver(Delivered[n - 1], Subscribers[n], NextEvent, no),
                   (delivered \cup Sent(n - 1)) \cup {x})
          /\ RunsKept(Delivered[n - 1], Deliver(Delivered[n - 1], Subscribers[n], NextEvent, no))
          /\ Instructions(Deliver(Delivered[n - 1], Subscribers[n], NextEvent, no))
                 \subseteq Instructions(Delivered[n - 1])
        <3> DEFINE d == delivered \cup Sent(n - 1)
        <3>1. Sound(Delivered[n - 1], d) /\ Event(Subscribers[n], NextEvent) \notin d
            BY <1>6, <2>1, <2>2
        <3>2. Subscribers[n] \in AllThreads /\ NextEvent \in Nat
            BY <1>1, <1>3, <1>6
        <3> HIDE DEF d
        <3>3. /\ Sound(Deliver(Delivered[n - 1], Subscribers[n], NextEvent, no),
                       d \cup {Event(Subscribers[n], NextEvent)})
              /\ RunsKept(Delivered[n - 1],
                          Deliver(Delivered[n - 1], Subscribers[n], NextEvent, no))
              /\ Instructions(Deliver(Delivered[n - 1], Subscribers[n], NextEvent, no))
                     \subseteq Instructions(Delivered[n - 1])
            BY <3>1, <3>2, DeliverKeeps
        <3> QED
            BY <3>3 DEF d
    <2>7. (delivered \cup Sent(n - 1)) \cup {x} = delivered \cup Sent(n)
        BY <2>3
    <2> QED
        BY <1>6, <2>5, <2>6, <2>7, RunsKeptOn
<1>7. bad = {}
    <2> SUFFICES ASSUME bad # {} PROVE FALSE
        OBVIOUS
    <2> HIDE DEF good
    <2>1. bad \in SUBSET Nat
        BY <1>1
    <2>2. PICK n \in bad : \A m \in bad : n <= m
        <3> HIDE DEF bad
        <3> QED
            BY <2>1, LeastOf
    <2>3. n # 0
        BY <1>5
    <2>4. n \in 1..N /\ n - 1 \in 0..N /\ ~(n <= n - 1)
        BY <1>1, <2>3
    <2>5. good(n - 1)
        BY <2>2, <2>4
    <2> QED
        BY <1>6, <2>4, <2>5
<1>8. N \in 0..N
    BY <1>1
<1> QED
    BY <1>7, <1>8

-----------------------------------------------------------------------------
(* The steps                                                                *)

LEMMA TasksInvFrom ==
    ASSUME ThreadsTyped', FollowOnce', Sound(job, delivered)',
           Happened(job, delivered, spent.events)'
    PROVE  TasksInv'
BY DEF TasksInv, TasksTyped, Sound

LEMMA TasksInvGives ==
    ASSUME TasksInv
    PROVE  /\ job \in Seq(TaskJobs) /\ DOMAIN job = 1..Len(job) /\ Len(job) \in Nat
           /\ \A j \in DOMAIN job : job[j] \in TaskJobs /\ WellRead(job[j]) /\ j \in Nat
           /\ delivered \in SUBSET Inputs /\ ThreadsTyped /\ FollowOnce
           /\ Sound(job, delivered) /\ Happened(job, delivered, spent.events)
           /\ spent.events \in Nat
BY TheTaskJobs DEF TasksInv, TasksTyped, Sound, ThreadsTyped

LEMMA SpendCounts ==
    ASSUME ThreadsTyped, NEW name \in {"events", "sent", "orders", "crashes"}, Spend(name)
    PROVE  /\ spent' \in [events : Nat, sent : Nat, orders : Nat, crashes : Nat]
           /\ spent'.events \in Nat /\ spent.events <= spent'.events
           /\ name = "events" => spent'.events = NextEvent
<1>1. spent \in [events : Nat, sent : Nat, orders : Nat, crashes : Nat]
    BY DEF ThreadsTyped
<1>2. spent' = [spent EXCEPT ![name] = @ + 1]
    BY DEF Spend
<1> QED
    BY <1>1, <1>2 DEF NextEvent

\* Threads that were opened stay so.
LEMMA FollowersStay ==
    ASSUME ThreadsTyped, FollowOnce, UNCHANGED followers,
           \A t \in AllThreads : thread[t] # "none" => thread'[t] # "none"
    PROVE  FollowOnce'
<1>1. \A i \in 1..Len(followers) : followers[i] \in AllThreads
    BY TaskConstants DEF ThreadsTyped
<1> QED
    BY <1>1 DEF FollowOnce

LEMMA TakeEventKeeps ==
    ASSUME TasksInv, NEW targets, TakeEvent(targets)
    PROVE  /\ instructed' \in Nat => ThreadsTyped'
           /\ FollowOnce' /\ spent'.events = NextEvent /\ NextEvent \in Nat
           /\ spent.events <= NextEvent
<1>1. ThreadsTyped /\ FollowOnce /\ spent.events \in Nat
    BY TasksInvGives
<1>2. Spend("events") /\ UNCHANGED followers
      /\ thread' = [t \in AllThreads |->
                       IF t \in targets /\ thread[t] \in {"none", "paused"}
                       THEN "active" ELSE thread[t]]
      /\ ckpt' = [t \in AllThreads |-> ckpt[t] /\ (t \in targets => thread[t] # "paused")]
    BY DEF TakeEvent
<1>3. /\ spent' \in [events : Nat, sent : Nat, orders : Nat, crashes : Nat]
      /\ spent'.events = NextEvent
    BY <1>1, <1>2, SpendCounts
<1>4. thread' \in [AllThreads -> ThreadStates] /\ ckpt' \in [AllThreads -> BOOLEAN]
    BY <1>1, <1>2 DEF ThreadsTyped, ThreadStates
<1>5. FollowOnce'
    BY <1>1, <1>2, FollowersStay
<1> QED
    BY <1>1, <1>2, <1>3, <1>4, <1>5 DEF ThreadsTyped, NextEvent

LEMMA EventToTasksKeeps ==
    ASSUME TasksInv, EventToTasks
    PROVE  TasksInv'
<1> DEFINE N == Len(Subscribers)
<1>1. /\ Sound(job, delivered) /\ Happened(job, delivered, spent.events)
      /\ spent.events \in Nat /\ delivered \in SUBSET Inputs /\ ThreadsTyped /\ FollowOnce
    BY TasksInvGives
<1>2. /\ TakeEvent({Subscribers[i] : i \in DOMAIN Subscribers})
      /\ job' = Delivered[N] /\ UNCHANGED instructed
    BY DEF EventToTasks
<1>3. N \in Nat /\ DOMAIN Subscribers = 1..N
    BY TheSubscribers DEF TasksInv
<1>4. /\ ThreadsTyped' /\ FollowOnce' /\ spent'.events = NextEvent /\ NextEvent \in Nat
      /\ spent.events <= NextEvent
    BY <1>1, <1>2, TakeEventKeeps DEF ThreadsTyped
<1>5. delivered' = delivered \cup Sent(N)
    <2>1. delivered' = delivered \cup
              {Event(t, NextEvent) : t \in {Subscribers[i] : i \in DOMAIN Subscribers}}
        BY <1>2 DEF TakeEvent
    <2>2. {Event(t, NextEvent) : t \in {Subscribers[i] : i \in DOMAIN Subscribers}} = Sent(N)
        BY <1>3 DEF Sent
    <2> QED
        BY <2>1, <2>2
<1>6. Sound(job', delivered') /\ RunsKept(job, job')
    BY <1>2, <1>5, DeliveredKeeps
<1>7. Happened(job', delivered, NextEvent)
    BY <1>1, <1>4, <1>6, HappenedStays
<1>8. Happened(job', delivered', NextEvent)
    <2>1. \A i \in Sent(N) : i.kind = "event" /\ i.of <= NextEvent
        BY <1>4 DEF Sent, Event
    <2> QED
        BY <1>5, <1>7, <2>1 DEF Happened
<1> QED
    BY <1>4, <1>6, <1>8, TasksInvFrom

LEMMA EventToHomeKeeps ==
    ASSUME TasksInv, EventToHome
    PROVE  TasksInv'
<1> DEFINE x == Event(Home, NextEvent)
<1>1. /\ Sound(job, delivered) /\ Happened(job, delivered, spent.events)
      /\ spent.events \in Nat /\ delivered \in SUBSET Inputs /\ ThreadsTyped /\ FollowOnce
    BY TasksInvGives
<1>2. PICK yes \in BOOLEAN : yes = TRUE
    OBVIOUS
<1>3. /\ TakeEvent({Home}) /\ job' = Deliver(job, Home, NextEvent, yes)
      /\ instructed' = IF Batches(job, Home) = {} THEN 0 ELSE instructed
    BY <1>2 DEF EventToHome
<1>4. instructed' \in Nat
    BY <1>1, <1>3 DEF ThreadsTyped
<1>5. /\ ThreadsTyped' /\ FollowOnce' /\ spent'.events = NextEvent /\ NextEvent \in Nat
      /\ spent.events <= NextEvent
    BY <1>3, <1>4, TakeEventKeeps
<1>6. delivered' = delivered \cup {x}
    BY <1>3 DEF TakeEvent
<1>7. x \notin delivered
    BY <1>1 DEF Happened, Event, NextEvent
<1>8. Sound(job', delivered') /\ RunsKept(job, job')
    BY <1>1, <1>3, <1>5, <1>6, <1>7, TaskConstants, DeliverKeeps
<1>9. Happened(job', delivered, NextEvent)
    BY <1>1, <1>5, <1>8, HappenedStays
<1>10. Happened(job', delivered', NextEvent)
    <2>1. x.kind = "event" /\ x.of <= NextEvent
        BY <1>5 DEF Event
    <2> QED
        BY <1>6, <1>9, <2>1 DEF Happened
<1> QED
    BY <1>5, <1>8, <1>10, TasksInvFrom

\* A message is posted that brings no input.
LEMMA PostStep ==
    ASSUME TasksInv, NEW t \in AllThreads, NEW kind \in Kinds, NEW auto \in BOOLEAN,
           job' = Post(job, t, kind, auto, {}), UNCHANGED delivered,
           spent'.events \in Nat, spent.events <= spent'.events
    PROVE  Sound(job, delivered)' /\ Happened(job, delivered, spent.events)'
<1>1. /\ Sound(job, delivered) /\ Happened(job, delivered, spent.events)
      /\ spent.events \in Nat /\ delivered \in SUBSET Inputs
    BY TasksInvGives
<1>2. {} \in SUBSET Inputs /\ {} \cap delivered = {} /\ delivered \cup {} = delivered
    OBVIOUS
<1>3. /\ Sound(Post(job, t, kind, auto, {}), delivered \cup {})
      /\ RunsKept(job, Post(job, t, kind, auto, {}))
    BY <1>1, <1>2, PostKeeps
<1>4. Sound(job', delivered') /\ RunsKept(job, job')
    BY <1>2, <1>3
<1>5. Happened(job', delivered, spent'.events)
    BY <1>1, <1>4, HappenedStays
<1> QED
    BY <1>4, <1>5

LEMMA HappenedLater ==
    ASSUME NEW jobs, NEW d \in SUBSET Inputs, NEW n \in Nat, NEW m \in Nat, n <= m,
           Happened(jobs, d, n)
    PROVE  Happened(jobs, d, m)
<1>1. RunsKept(jobs, jobs)
    BY DEF RunsKept
<1> QED
    BY <1>1, HappenedStays

\* A job goes on.
LEMMA JobStep ==
    ASSUME TasksInv, NEW j \in DOMAIN job, NEW r \in TaskJobs, Proceeds(job[j], r),
           job' = [job EXCEPT ![j] = r], UNCHANGED delivered,
           spent'.events \in Nat, spent.events <= spent'.events
    PROVE  Sound(job, delivered)' /\ Happened(job, delivered, spent.events)'
<1>1. /\ Sound(job, delivered) /\ Happened(job, delivered, spent.events)
      /\ spent.events \in Nat /\ delivered \in SUBSET Inputs
    BY TasksInvGives
<1>2. Happened(job, delivered, spent'.events)
    BY <1>1, HappenedLater
<1>3. /\ Sound([job EXCEPT ![j] = r], delivered)
      /\ Happened([job EXCEPT ![j] = r], delivered, spent'.events)
    BY <1>1, <1>2, OneProceeds
<1> QED
    BY <1>3

LEMMA JobsStep ==
    ASSUME TasksInv, NEW new \in Seq(TaskJobs), DOMAIN new = DOMAIN job,
           \A j \in DOMAIN job : Proceeds(job[j], new[j]),
           job' = new, UNCHANGED delivered,
           spent'.events \in Nat, spent.events <= spent'.events
    PROVE  Sound(job, delivered)' /\ Happened(job, delivered, spent.events)'
<1>1. /\ Sound(job, delivered) /\ Happened(job, delivered, spent.events)
      /\ spent.events \in Nat /\ delivered \in SUBSET Inputs
    BY TasksInvGives
<1>2. Happened(job, delivered, spent'.events)
    BY <1>1, HappenedLater
<1>3. Sound(new, delivered) /\ Happened(new, delivered, spent'.events)
    BY <1>1, <1>2, JobsProceed
<1> QED
    BY <1>3

\* What a message does to its thread.
LEMMA ReopenKeeps ==
    ASSUME ThreadsTyped, NEW t \in AllThreads,
           thread' = Reopened(thread, t), ckpt' = Superseded(ckpt, t)
    PROVE  /\ thread' \in [AllThreads -> ThreadStates] /\ ckpt' \in [AllThreads -> BOOLEAN]
           /\ \A u \in AllThreads : thread[u] # "none" => thread'[u] # "none"
<1>1. thread \in [AllThreads -> ThreadStates] /\ ckpt \in [AllThreads -> BOOLEAN]
    BY DEF ThreadsTyped
<1>2. /\ thread' = [thread EXCEPT ![t] = IF thread[t] = "paused" THEN "active" ELSE thread[t]]
      /\ ckpt' = [ckpt EXCEPT ![t] = ckpt[t] /\ thread[t] # "paused"]
    BY DEF Reopened, Superseded
<1>3. ckpt' \in [AllThreads -> BOOLEAN]
    BY <1>1, <1>2
<1>4. thread' \in [AllThreads -> ThreadStates]
    BY <1>1, <1>2 DEF ThreadStates
<1>5. \A u \in AllThreads : thread'[u] = IF u = t /\ thread[t] = "paused" THEN "active"
                                         ELSE thread[u]
    BY <1>1, <1>2
<1> QED
    BY <1>3, <1>4, <1>5

LEMMA SendsCounts ==
    ASSUME ThreadsTyped, NEW what, Sends(what)
    PROVE  /\ spent' \in [events : Nat, sent : Nat, orders : Nat, crashes : Nat]
           /\ spent'.events \in Nat /\ spent.events <= spent'.events
<1>1. Spend("sent")
    BY DEF Sends
<1> QED
    BY <1>1, SpendCounts

LEMMA QueueMessageKeeps ==
    ASSUME TasksInv, NEW t \in AllThreads, QueueMessage(t)
    PROVE  TasksInv'
<1>1. ThreadsTyped /\ FollowOnce
    BY TasksInvGives
<1>2. PICK no \in BOOLEAN : no = FALSE
    OBVIOUS
<1>3. /\ Sends("message") /\ job' = Post(job, t, "message", no, {})
      /\ thread' = Reopened(thread, t) /\ ckpt' = Superseded(ckpt, t)
      /\ instructed' = IF t = Home THEN 0 ELSE instructed
      /\ UNCHANGED <<followers, delivered>>
    BY <1>2 DEF QueueMessage
<1>4. /\ spent' \in [events : Nat, sent : Nat, orders : Nat, crashes : Nat]
      /\ spent'.events \in Nat /\ spent.events <= spent'.events
    BY <1>1, <1>3, SendsCounts
<1>5. /\ thread' \in [AllThreads -> ThreadStates] /\ ckpt' \in [AllThreads -> BOOLEAN]
      /\ \A u \in AllThreads : thread[u] # "none" => thread'[u] # "none"
    BY <1>1, <1>3, ReopenKeeps
<1>6. ThreadsTyped' /\ FollowOnce'
    BY <1>1, <1>3, <1>4, <1>5, FollowersStay DEF ThreadsTyped
<1>7. "message" \in Kinds
    BY DEF Kinds
<1>8. Sound(job, delivered)' /\ Happened(job, delivered, spent.events)'
    BY <1>3, <1>4, <1>7, PostStep
<1> QED
    BY <1>6, <1>8, TasksInvFrom

LEMMA AnswerWaitingKeeps ==
    ASSUME TasksInv, NEW t \in AllThreads, AnswerWaiting(t)
    PROVE  TasksInv'
<1>1. /\ job \in Seq(TaskJobs) /\ ThreadsTyped /\ FollowOnce
      /\ \A j \in DOMAIN job : job[j] \in TaskJobs /\ WellRead(job[j])
    BY TasksInvGives
<1>2. /\ Sends("message") /\ Waiting(t) # {}
      /\ thread' = [thread EXCEPT ![t] = "active"] /\ ckpt' = [ckpt EXCEPT ![t] = FALSE]
      /\ instructed' = IF t = Home THEN 0 ELSE instructed
      /\ UNCHANGED <<followers, delivered>>
    BY DEF AnswerWaiting
<1>3. /\ spent' \in [events : Nat, sent : Nat, orders : Nat, crashes : Nat]
      /\ spent'.events \in Nat /\ spent.events <= spent'.events
    BY <1>1, <1>2, SendsCounts
<1>4. Waiting(t) \in SUBSET DOMAIN job
    BY DEF Waiting, JobsOn
<1>5. PICK w \in DOMAIN job : w = Min(Waiting(t)) /\ job[w].status = "waiting"
    <2>1. Min(Waiting(t)) \in Waiting(t)
        BY <1>1, <1>2, <1>4, ThereIsAMax
    <2> QED
        BY <1>4, <2>1 DEF Waiting
<1>6. PICK ended : ended = [job EXCEPT ![w].turn = "ended"]
    OBVIOUS
<1>7. PICK turn \in TurnStates :
          turn # "waiting" /\ turn = IF Busy(ended, t) THEN "queued" ELSE "pending"
    BY DEF TurnStates
<1>8. PICK r : r = [job[w] EXCEPT !.status = "queued", !.kind = "message", !.inputs = {},
                                  !.turn = turn]
    OBVIOUS
<1>9. r \in TaskJobs
    <2>1. job[w] \in TaskJobs
        BY <1>1
    <2> QED
        BY <1>8, <2>1 DEF TaskJobs, Statuses, Kinds
<1>10. /\ r.status = "queued" /\ r.kind = "message" /\ r.inputs = {} /\ r.gen = job[w].gen
       /\ r.at = job[w].at /\ r.read = job[w].read
    BY <1>1, <1>8 DEF TaskJobs
<1>11. job' = [job EXCEPT ![w] = r]
    <2>1. job' = [ended EXCEPT ![w] =
                      [@ EXCEPT !.status = "queued", !.kind = "message", !.inputs = {},
                                !.turn = IF Busy(ended, t) THEN "queued" ELSE "pending"]]
        BY <1>5, <1>6 DEF AnswerWaiting
    <2>2. [ended[w] EXCEPT !.status = "queued", !.kind = "message", !.inputs = {},
                           !.turn = turn] = r
        BY <1>1, <1>6, <1>8 DEF TaskJobs
    <2> QED
        BY <1>1, <1>6, <1>7, <2>1, <2>2
<1>12. Proceeds(job[w], r)
    <2>1. job[w].gen # 0 /\ job[w].gen \in Nat /\ job[w].inputs \subseteq job[w].read
        BY <1>1, <1>5, ATaskJob DEF WellRead
    <2> QED
        BY <1>10, <2>1 DEF Proceeds, Carried, WellRead
<1>13. Sound(job, delivered)' /\ Happened(job, delivered, spent.events)'
    BY <1>2, <1>3, <1>9, <1>11, <1>12, JobStep
<1>14. ThreadsTyped'
    BY <1>1, <1>2, <1>3 DEF ThreadsTyped, ThreadStates
<1>15. FollowOnce'
    BY <1>1, <1>2, FollowersStay DEF ThreadsTyped
<1> QED
    BY <1>13, <1>14, <1>15, TasksInvFrom

LEMMA ResumeKeeps ==
    ASSUME TasksInv, NEW t \in AllThreads, Resume(t)
    PROVE  TasksInv'
<1> DEFINE asked == {j \in JobsOn(job, t) : job[j].turn = "waiting"}
           kept == {j \in asked : job[j].status \in {"running", "waiting"}}
<1>1. /\ job \in Seq(TaskJobs) /\ ThreadsTyped /\ FollowOnce
      /\ \A j \in DOMAIN job : job[j] \in TaskJobs /\ WellRead(job[j])
      /\ Sound(job, delivered) /\ Happened(job, delivered, spent.events)
      /\ delivered \in SUBSET Inputs /\ spent.events \in Nat
    BY TasksInvGives
<1>2. /\ Sends("resume") /\ thread' = [thread EXCEPT ![t] = "running"]
      /\ UNCHANGED <<ckpt, followers, instructed, delivered>>
    BY DEF Resume
<1>3. /\ spent' \in [events : Nat, sent : Nat, orders : Nat, crashes : Nat]
      /\ spent'.events \in Nat /\ spent.events <= spent'.events
    BY <1>1, <1>2, SendsCounts
<1>4. ThreadsTyped' /\ FollowOnce'
    <2>1. ThreadsTyped'
        BY <1>1, <1>2, <1>3 DEF ThreadsTyped, ThreadStates
    <2>2. \A u \in AllThreads : thread[u] # "none" => thread'[u] # "none"
        BY <1>1, <1>2 DEF ThreadsTyped
    <2> QED
        BY <1>1, <1>2, <2>1, <2>2, FollowersStay
<1>5. CASE /\ kept # {}
           /\ job' = [job EXCEPT ![Max(kept)] =
                         [@ EXCEPT !.status = "queued", !.kind = "resume",
                                   !.inputs = {}, !.turn = "running",
                                   !.moved = (job[Max(kept)].at # "idle"),
                                   !.verified = FALSE]]
    <2>1. PICK w \in DOMAIN job : w = Max(kept) /\ job[w].turn = "waiting"
        <3>1. kept \in SUBSET DOMAIN job
            BY DEF JobsOn
        <3>2. Max(kept) \in kept
            <4> HIDE DEF kept
            <4> QED
                BY <1>1, <1>5, <3>1, ThereIsAMax
        <3> QED
            BY <3>1, <3>2
    <2>2. PICK moved \in BOOLEAN : moved = (job[w].at # "idle")
        OBVIOUS
    <2>3. PICK r : r = [job[w] EXCEPT !.status = "queued", !.kind = "resume", !.inputs = {},
                            !.turn = "running", !.moved = moved, !.verified = FALSE]
        OBVIOUS
    <2>4. job[w] \in TaskJobs /\ WellRead(job[w]) /\ job[w].gen \in Nat
        BY <1>1, ATaskJob
    <2>5. r \in TaskJobs
        BY <2>3, <2>4 DEF TaskJobs, Statuses, Kinds, TurnStates
    <2>6. /\ r.status = "queued" /\ r.kind = "resume" /\ r.inputs = {} /\ r.gen = job[w].gen
          /\ r.at = job[w].at /\ r.read = job[w].read
        BY <2>3, <2>4 DEF TaskJobs
    <2>7. job' = [job EXCEPT ![w] = r]
        BY <1>5, <2>1, <2>2, <2>3
    <2>8. Proceeds(job[w], r)
        <3>1. job[w].gen # 0 /\ job[w].gen \in Nat /\ job[w].inputs \subseteq job[w].read
            BY <2>1, <2>4 DEF WellRead
        <3> QED
            BY <2>6, <3>1 DEF Proceeds, Carried, WellRead
    <2>9. Sound(job, delivered)' /\ Happened(job, delivered, spent.events)'
        BY <1>2, <1>3, <2>5, <2>7, <2>8, JobStep
    <2> QED
        BY <1>4, <2>9, TasksInvFrom
<1>6. CASE job' = Append(job, NewJob(t, "resume", FALSE, {}, "running"))
    <2>1. PICK no \in BOOLEAN : no = FALSE
        OBVIOUS
    <2>2. /\ {} \in SUBSET Inputs /\ "resume" \in Kinds /\ "running" \in TurnStates
          /\ "running" # "waiting"
        BY DEF Kinds, TurnStates
    <2>3. PICK r \in TaskJobs : r = NewJob(t, "resume", no, {}, "running") /\ WellRead(r)
                                    /\ Carried(r) = {}
        BY <2>2, ANewJob
    <2>4. job' = Append(job, r)
        BY <1>6, <2>1, <2>3
    <2>5. /\ Sound(Append(job, r), delivered \cup Carried(r))
          /\ DOMAIN job \subseteq DOMAIN Append(job, r)
          /\ \A k \in DOMAIN job : Append(job, r)[k] = job[k]
        <3>1. Carried(r) \cap delivered = {}
            BY <2>3
        <3> QED
            BY <1>1, <2>3, <3>1, JobIsAdded
    <2>6. Sound(job', delivered') /\ RunsKept(job, job')
        BY <1>2, <2>3, <2>4, <2>5 DEF RunsKept
    <2>7. Happened(job', delivered', spent'.events)
        BY <1>1, <1>2, <1>3, <2>6, HappenedStays
    <2> QED
        BY <1>4, <2>6, <2>7, TasksInvFrom
<1> QED
    BY <1>5, <1>6 DEF Resume

\* A cancelled job carries what it carried.
LEMMA CancelledProceeds ==
    ASSUME TasksInv, NEW turns \in SUBSET DOMAIN job
    PROVE  /\ Cancelled(turns) \in Seq(TaskJobs) /\ DOMAIN Cancelled(turns) = DOMAIN job
           /\ \A j \in DOMAIN job : Proceeds(job[j], Cancelled(turns)[j])
<1> DEFINE new == Cancelled(turns)
<1>1. /\ job \in Seq(TaskJobs) /\ DOMAIN job = 1..Len(job) /\ Len(job) \in Nat
      /\ \A j \in DOMAIN job : job[j] \in TaskJobs /\ WellRead(job[j])
    BY TasksInvGives
<1>2. ASSUME NEW j \in DOMAIN job
      PROVE  new[j] \in TaskJobs /\ Proceeds(job[j], new[j])
    <2>1. job[j] \in TaskJobs /\ job[j].gen \in Nat /\ WellRead(job[j])
        BY <1>1, ATaskJob
    <2>2. CASE j \notin turns
        <3>1. new[j] = job[j]
            BY <2>2 DEF Cancelled
        <3> QED
            BY <2>1, <3>1 DEF Proceeds
    <2>3. CASE j \in turns /\ ~InLine(j)
        <3>1. new[j] = [job[j] EXCEPT !.turn = "ended"]
            BY <2>3 DEF Cancelled
        <3>2. new[j] \in TaskJobs
            BY <2>1, <3>1 DEF TaskJobs, TurnStates
        <3>3. /\ new[j].status = job[j].status /\ new[j].kind = job[j].kind
              /\ new[j].gen = job[j].gen /\ new[j].at = job[j].at /\ new[j].turn = "ended"
              /\ new[j].inputs = job[j].inputs /\ new[j].read = job[j].read
            BY <2>1, <3>1 DEF TaskJobs
        <3> HIDE DEF new
        <3> QED
            BY <2>1, <3>2, <3>3 DEF Proceeds, Carried, WellRead
    <2>4. CASE j \in turns /\ InLine(j)
        <3>1. new[j] = [job[j] EXCEPT !.turn = "ended", !.status = "cancelled",
                                      !.occ = @ /\ job[j].at # "idle"]
            BY <2>4 DEF Cancelled
        <3>2. new[j] \in TaskJobs
            BY <2>1, <3>1 DEF TaskJobs, TurnStates, Statuses
        <3>3. /\ new[j].status = "cancelled" /\ new[j].kind = job[j].kind
              /\ new[j].gen = job[j].gen /\ new[j].at = job[j].at /\ new[j].turn = "ended"
              /\ new[j].inputs = job[j].inputs /\ new[j].read = job[j].read
            BY <2>1, <3>1 DEF TaskJobs
        <3> HIDE DEF new
        <3> QED
            BY <2>1, <3>2, <3>3 DEF Proceeds, Carried, WellRead
    <2> QED
        BY <2>2, <2>3, <2>4
<1>3. DOMAIN new = DOMAIN job /\ new = [j \in 1..Len(job) |-> new[j]]
    BY <1>1 DEF Cancelled
<1> HIDE DEF new
<1>4. new \in Seq(TaskJobs)
    BY <1>1, <1>2, <1>3
<1> QED
    BY <1>2, <1>3, <1>4 DEF new

LEMMA CancelTurnKeeps ==
    ASSUME TasksInv, NEW j \in DOMAIN job, CancelTurn(j)
    PROVE  TasksInv'
<1>1. ThreadsTyped /\ FollowOnce
    BY TasksInvGives
<1>2. /\ Sends("cancel") /\ job' = Cancelled({j})
      /\ UNCHANGED <<thread, ckpt, followers, instructed, delivered>>
    BY DEF CancelTurn
<1>3. /\ spent' \in [events : Nat, sent : Nat, orders : Nat, crashes : Nat]
      /\ spent'.events \in Nat /\ spent.events <= spent'.events
    BY <1>1, <1>2, SendsCounts
<1>4. /\ Cancelled({j}) \in Seq(TaskJobs) /\ DOMAIN Cancelled({j}) = DOMAIN job
      /\ \A k \in DOMAIN job : Proceeds(job[k], Cancelled({j})[k])
    BY CancelledProceeds
<1>5. Sound(job, delivered)' /\ Happened(job, delivered, spent.events)'
    BY <1>2, <1>3, <1>4, JobsStep
<1>6. ThreadsTyped' /\ FollowOnce'
    BY <1>1, <1>2, <1>3 DEF ThreadsTyped, FollowOnce
<1> QED
    BY <1>5, <1>6, TasksInvFrom

\* What a step leaves alone.
LEMMA NothingElse ==
    ASSUME TasksInv, UNCHANGED <<thread, followers, instructed, spent>>,
           ckpt' \in [AllThreads -> BOOLEAN]
    PROVE  /\ ThreadsTyped' /\ FollowOnce'
           /\ spent'.events \in Nat /\ spent.events <= spent'.events
<1>1. ThreadsTyped /\ FollowOnce /\ spent.events \in Nat
    BY TasksInvGives
<1> QED
    BY <1>1 DEF ThreadsTyped, FollowOnce

LEMMA AcknowledgeKeeps ==
    ASSUME TasksInv, NEW j \in DOMAIN job, Acknowledge(j)
    PROVE  TasksInv'
<1>1. job[j] \in TaskJobs /\ WellRead(job[j]) /\ job[j].gen \in Nat /\ ThreadsTyped
      /\ job \in Seq(TaskJobs)
    BY TasksInvGives, ATaskJob
<1>2. /\ job' = [job EXCEPT ![j].verified = TRUE, ![j].occ = FALSE]
      /\ UNCHANGED <<thread, ckpt, followers, instructed, spent, delivered>>
    BY DEF Acknowledge
<1>3. PICK r : r = [job[j] EXCEPT !.verified = TRUE, !.occ = FALSE]
    OBVIOUS
<1>4. r \in TaskJobs
    BY <1>1, <1>3 DEF TaskJobs
<1>5. /\ r.status = job[j].status /\ r.kind = job[j].kind /\ r.inputs = job[j].inputs
      /\ r.gen = job[j].gen /\ r.at = job[j].at /\ r.read = job[j].read
      /\ r.turn = job[j].turn
    BY <1>1, <1>3 DEF TaskJobs
<1>6. job' = [job EXCEPT ![j] = r]
    BY <1>1, <1>2, <1>3
<1>7. Proceeds(job[j], r)
    BY <1>1, <1>5 DEF Proceeds, Carried, WellRead
<1>8. /\ ThreadsTyped' /\ FollowOnce'
      /\ spent'.events \in Nat /\ spent.events <= spent'.events
    BY <1>1, <1>2, NothingElse DEF ThreadsTyped
<1>9. Sound(job, delivered)' /\ Happened(job, delivered, spent.events)'
    BY <1>2, <1>4, <1>6, <1>7, <1>8, JobStep
<1> QED
    BY <1>8, <1>9, TasksInvFrom

\* A worker is given all its job carries.
LEMMA ClaimKeeps ==
    ASSUME TasksInv, NEW q \in DOMAIN job, Claim(q)
    PROVE  TasksInv'
<1>1. job[q] \in TaskJobs /\ WellRead(job[q]) /\ job[q].gen \in Nat /\ ThreadsTyped
      /\ job \in Seq(TaskJobs)
    BY TasksInvGives, ATaskJob
<1> DEFINE runs == job[q].kind = "resume" \/ thread[job[q].thread] = "active"
           given(at, turn) ==
               [job[q] EXCEPT !.status = "running", !.occ = TRUE, !.at = at, !.turn = turn,
                              !.moved = FALSE, !.gen = job[q].gen + 1,
                              !.read = job[q].read \cup job[q].inputs]
<1>2. UNCHANGED <<thread, ckpt, followers, instructed, spent, delivered>>
    BY DEF Claim
<1>3. job' = [job EXCEPT ![q] = given(IF runs THEN "run" ELSE "failed",
                                      IF runs THEN "running" ELSE "pending")]
    BY DEF Claim
<1> HIDE DEF runs, given
<1>4. PICK at \in {"run", "failed"}, turn \in {"running", "pending"} :
          job' = [job EXCEPT ![q] = given(at, turn)]
    <2>1. CASE runs
        BY <1>3, <2>1
    <2>2. CASE ~runs
        BY <1>3, <2>2
    <2> QED
        BY <2>1, <2>2
<1> DEFINE r == given(at, turn)
<1>5. r = [job[q] EXCEPT !.status = "running", !.occ = TRUE, !.at = at, !.turn = turn,
                         !.moved = FALSE, !.gen = job[q].gen + 1,
                              !.read = job[q].read \cup job[q].inputs]
    BY DEF given
<1> HIDE DEF r
<1>6. r \in TaskJobs
    <2>1. /\ at \in Places /\ turn \in TurnStates /\ "running" \in Statuses
          /\ job[q].gen + 1 \in Nat /\ job[q].read \cup job[q].inputs \in SUBSET Inputs
        BY <1>1, ATaskJob DEF Places, TurnStates, Statuses
    <2> QED
        BY <1>1, <1>5, <2>1 DEF TaskJobs
<1>7. /\ r.status = "running" /\ r.inputs = job[q].inputs /\ r.gen = job[q].gen + 1
      /\ r.read = job[q].read \cup job[q].inputs
    BY <1>1, <1>5 DEF TaskJobs
<1>8. Proceeds(job[q], r)
    BY <1>1, <1>7 DEF Proceeds, Carried, WellRead
<1>9. /\ ThreadsTyped' /\ FollowOnce'
      /\ spent'.events \in Nat /\ spent.events <= spent'.events
    BY <1>1, <1>2, NothingElse DEF ThreadsTyped
<1>10. Sound(job, delivered)' /\ Happened(job, delivered, spent.events)'
    <2>1. job' = [job EXCEPT ![q] = r]
        BY <1>4 DEF r
    <2> QED
        BY <1>2, <1>6, <1>8, <1>9, <2>1, JobStep
<1> QED
    BY <1>9, <1>10, TasksInvFrom

LEMMA OrdersCounts ==
    ASSUME ThreadsTyped, NEW j, Orders(j)
    PROVE  /\ spent' \in [events : Nat, sent : Nat, orders : Nat, crashes : Nat]
           /\ spent'.events \in Nat /\ spent.events <= spent'.events
           /\ instructed' \in Nat
<1>1. Spend("orders") /\ instructed' = instructed + 1
    BY DEF Orders
<1> QED
    BY <1>1, SpendCounts DEF ThreadsTyped

LEMMA DispatchKeeps ==
    ASSUME TasksInv, NEW j \in DOMAIN job, NEW t \in Tasks, NEW follows \in BOOLEAN,
           Dispatch(j, t, follows)
    PROVE  TasksInv'
<1>1. ThreadsTyped /\ FollowOnce
    BY TasksInvGives
<1>2. PICK no \in BOOLEAN : no = FALSE
    OBVIOUS
<1>3. /\ Orders(j) /\ thread[t] = "none"
      /\ thread' = [thread EXCEPT ![t] = "active"]
      /\ job' = Post(job, t, "instruction", no, {})
      /\ followers' = IF follows THEN Append(followers, t) ELSE followers
      /\ UNCHANGED <<ckpt, delivered>>
    BY <1>2 DEF Dispatch
<1>4. /\ spent' \in [events : Nat, sent : Nat, orders : Nat, crashes : Nat]
      /\ spent'.events \in Nat /\ spent.events <= spent'.events
      /\ instructed' \in Nat
    BY <1>1, <1>3, OrdersCounts
<1>5. "instruction" \in Kinds /\ t \in AllThreads
    BY TaskConstants DEF Kinds
<1>6. Sound(job, delivered)' /\ Happened(job, delivered, spent.events)'
    BY <1>3, <1>4, <1>5, PostStep
<1>7. /\ followers \in Seq(Tasks) /\ Len(followers) \in Nat
      /\ \A i \in 1..Len(followers) : followers[i] \in AllThreads
    BY <1>1, TaskConstants DEF ThreadsTyped
<1>8. /\ thread' \in [AllThreads -> ThreadStates] /\ thread'[t] # "none"
      /\ \A u \in AllThreads : thread[u] # "none" => thread'[u] # "none"
    BY <1>1, <1>3, <1>5 DEF ThreadsTyped, ThreadStates
<1>9. ThreadsTyped'
    BY <1>1, <1>3, <1>4, <1>7, <1>8 DEF ThreadsTyped
<1>10. \A i \in 1..Len(followers) : followers[i] # t /\ thread'[followers[i]] # "none"
    BY <1>1, <1>3, <1>7, <1>8 DEF FollowOnce
<1>11. FollowOnce'
    <2>1. CASE ~follows
        BY <1>1, <1>3, <1>10, <2>1 DEF FollowOnce
    <2>2. CASE follows
        <3>1. /\ Len(followers') = Len(followers) + 1 /\ followers'[Len(followers) + 1] = t
              /\ \A i \in 1..Len(followers) : followers'[i] = followers[i]
            BY <1>3, <1>7, <2>2
        <3>2. \A i \in 1..Len(followers') : i \in 1..Len(followers) \/ i = Len(followers) + 1
            BY <1>7, <3>1
        <3>3. \A i \in 1..Len(followers') : thread'[followers'[i]] # "none"
            BY <1>8, <1>10, <3>1, <3>2
        <3>4. \A i, k \in 1..Len(followers') : followers'[i] = followers'[k] => i = k
            BY <1>1, <1>10, <3>1, <3>2 DEF FollowOnce
        <3> QED
            BY <3>3, <3>4 DEF FollowOnce
    <2> QED
        BY <2>1, <2>2
<1> QED
    BY <1>6, <1>9, <1>11, TasksInvFrom

\* A task that follows no more leaves the others where they are.
LEMMA UnfollowedIs ==
    ASSUME ThreadsTyped, FollowOnce, NEW t
    PROVE  /\ Unfollowed(t) \in Seq(Tasks) /\ Len(Unfollowed(t)) \in Nat
           /\ \A i \in 1..Len(Unfollowed(t)) :
                  /\ Unfollowed(t)[i] # t
                  /\ \E k \in 1..Len(followers) : Unfollowed(t)[i] = followers[k]
           /\ \A i, k \in 1..Len(Unfollowed(t)) :
                  Unfollowed(t)[i] = Unfollowed(t)[k] => i = k
<1> DEFINE at == {i \in DOMAIN followers : followers[i] = t}
           N == Len(followers)
<1>1. /\ followers \in Seq(Tasks) /\ N \in Nat /\ DOMAIN followers = 1..N
      /\ \A i, k \in 1..N : followers[i] = followers[k] => i = k
    BY DEF ThreadsTyped, FollowOnce
<1>2. CASE at = {}
    <2>1. Unfollowed(t) = followers /\ \A i \in 1..N : followers[i] # t
        BY <1>1, <1>2 DEF Unfollowed
    <2> QED
        BY <1>1, <2>1
<1>3. CASE at # {}
    <2>1. PICK m \in 1..N : m = Min(at) /\ followers[m] = t
        <3>1. at \in SUBSET Nat
            BY <1>1
        <3>2. Min(at) \in at
            <4> HIDE DEF at
            <4> QED
                BY <1>3, <3>1, LeastOf
        <3> QED
            BY <1>1, <3>2
    <2> DEFINE a == SubSeq(followers, 1, m - 1)
               b == SubSeq(followers, m + 1, N)
               s == a \o b
    <2>2. Unfollowed(t) = s
        BY <1>3, <2>1 DEF Unfollowed
    <2>3. m \in Nat /\ m >= 1 /\ m <= N
        BY <1>1, <2>1
    <2>4. /\ a \in Seq(Tasks) /\ Len(a) = m - 1
          /\ \A i \in 1..(m - 1) : a[i] = followers[i]
        BY <1>1, <2>3
    <2>5. /\ b \in Seq(Tasks) /\ Len(b) = N - m
          /\ \A i \in 1..(N - m) : b[i] = followers[m + i]
        <3>1. b \in Seq(Tasks)
            BY <1>1, <2>3
        <3>2. Len(b) = N - m
            <4>1. CASE m = N
                BY <1>1, <2>3, <4>1
            <4>2. CASE m # N
                <5>1. m + 1 <= N
                    <6> HIDE DEF N
                    <6>1. m < N
                        BY <1>1, <2>3, <4>2
                    <6> QED
                        BY <1>1, <2>3, <6>1
                <5>2. N - (m + 1) + 1 = N - m
                    BY <1>1, <2>3
                <5> QED
                    BY <1>1, <2>3, <5>1, <5>2
            <4> QED
                BY <4>1, <4>2
        <3>3. \A i \in 1..(N - m) : b[i] = followers[m + 1 + i - 1]
            BY <1>1, <2>3
        <3>4. \A i \in 1..(N - m) : m + 1 + i - 1 = m + i
            BY <1>1, <2>3
        <3> QED
            BY <3>1, <3>2, <3>3, <3>4
    <2> HIDE DEF a, b
    <2>6. s \in Seq(Tasks) /\ Len(s) = N - 1
        <3>1. s \in Seq(Tasks) /\ Len(s) = Len(a) + Len(b)
            BY <2>4, <2>5, ConcatProperties
        <3>2. (m - 1) + (N - m) = N - 1
            BY <1>1, <2>3
        <3> QED
            BY <2>4, <2>5, <3>1, <3>2
    <2>7. \A i \in 1..(N - 1) : s[i] = IF i < m THEN followers[i] ELSE followers[i + 1]
        <3> TAKE i \in 1..(N - 1)
        <3>1. CASE i < m
            <4>1. i \in 1..(m - 1) /\ i \in 1..Len(a)
                BY <1>1, <2>3, <2>4, <3>1
            <4>2. s[i] = a[i]
                BY <2>4, <2>5, <4>1
            <4> QED
                BY <2>4, <3>1, <4>1, <4>2
        <3>2. CASE ~(i < m)
            <4>1. i - (m - 1) \in 1..(N - m) /\ m + (i - (m - 1)) = i + 1
                BY <1>1, <2>3, <3>2
            <4>2. s[i] = b[i - Len(a)]
                BY <1>1, <2>3, <2>4, <2>5, <3>2
            <4> QED
                BY <2>4, <2>5, <3>2, <4>1, <4>2
        <3> QED
            BY <3>1, <3>2
    <2> HIDE DEF s
    <2>8. \A i \in 1..(N - 1) : i \in 1..N /\ i + 1 \in 1..N /\ i \in Nat
        BY <1>1
    <2>9. \A i \in 1..(N - 1) : s[i] # t /\ \E k \in 1..N : s[i] = followers[k]
        <3> TAKE i \in 1..(N - 1)
        <3>1. CASE i < m
            <4>1. i # m
                BY <2>3, <2>8, <3>1
            <4> QED
                BY <1>1, <2>1, <2>7, <2>8, <3>1, <4>1
        <3>2. CASE ~(i < m)
            <4>1. i + 1 # m
                BY <2>3, <2>8, <3>2
            <4> QED
                BY <1>1, <2>1, <2>7, <2>8, <3>2, <4>1
        <3> QED
            BY <3>1, <3>2
    <2>10. ASSUME NEW i \in 1..(N - 1), NEW k \in 1..(N - 1), s[i] = s[k]
           PROVE  i = k
        <3>1. i \in Nat /\ k \in Nat /\ i \in 1..N /\ i + 1 \in 1..N /\ k \in 1..N /\ k + 1 \in 1..N
            BY <2>8
        <3>2. CASE i < m /\ k < m
            BY <1>1, <2>7, <2>10, <3>1, <3>2
        <3>3. CASE i < m /\ ~(k < m)
            <4>1. followers[i] = followers[k + 1]
                BY <2>7, <2>10, <3>3
            <4> QED
                BY <1>1, <2>3, <3>1, <3>3, <4>1
        <3>4. CASE ~(i < m) /\ k < m
            <4>1. followers[i + 1] = followers[k]
                BY <2>7, <2>10, <3>4
            <4> QED
                BY <1>1, <2>3, <3>1, <3>4, <4>1
        <3>5. CASE ~(i < m) /\ ~(k < m)
            <4>1. followers[i + 1] = followers[k + 1]
                BY <2>7, <2>10, <3>5
            <4> QED
                BY <1>1, <3>1, <4>1
        <3> QED
            BY <3>2, <3>3, <3>4, <3>5
    <2>11. N - 1 \in Nat
        BY <1>1, <2>3
    <2> QED
        BY <2>2, <2>6, <2>9, <2>10, <2>11
<1> QED
    BY <1>2, <1>3

\* Who follows the topic after a task was told to, or told not to.
LEMMA FollowersAre ==
    ASSUME ThreadsTyped, FollowOnce, NEW t \in Tasks, thread'[t] # "none",
           \A u \in AllThreads : thread[u] # "none" => thread'[u] # "none",
           followers' \in {followers, Unfollowed(t), Append(Unfollowed(t), t)}
    PROVE  followers' \in Seq(Tasks) /\ FollowOnce'
<1> DEFINE u == Unfollowed(t)
           N == Len(u)
<1>1. followers \in Seq(Tasks) /\ \A i \in 1..Len(followers) : thread'[followers[i]] # "none"
    BY TaskConstants DEF ThreadsTyped, FollowOnce
<1>2. /\ u \in Seq(Tasks) /\ N \in Nat
      /\ \A i \in 1..N : u[i] # t /\ \E k \in 1..Len(followers) : u[i] = followers[k]
      /\ \A i, k \in 1..N : u[i] = u[k] => i = k
    BY UnfollowedIs
<1>3. \A i \in 1..N : thread'[u[i]] # "none"
    BY <1>1, <1>2
<1> HIDE DEF u
<1>4. CASE followers' = followers
    BY <1>1, <1>4 DEF FollowOnce
<1>5. CASE followers' = u
    BY <1>2, <1>3, <1>5 DEF FollowOnce
<1>6. CASE followers' = Append(u, t)
    <2>1. /\ followers' \in Seq(Tasks) /\ Len(followers') = N + 1 /\ followers'[N + 1] = t
          /\ \A i \in 1..N : followers'[i] = u[i]
        BY <1>2, <1>6
    <2>2. \A i \in 1..Len(followers') : i \in 1..N \/ i = N + 1
        BY <1>2, <2>1
    <2>3. \A i \in 1..Len(followers') : thread'[followers'[i]] # "none"
        BY <1>3, <2>1, <2>2
    <2>4. \A i, k \in 1..Len(followers') : followers'[i] = followers'[k] => i = k
        BY <1>2, <2>1, <2>2
    <2> QED
        BY <2>1, <2>3, <2>4 DEF FollowOnce
<1> QED
    BY <1>4, <1>5, <1>6 DEF u

LEMMA FollowUpKeeps ==
    ASSUME TasksInv, NEW j \in DOMAIN job, NEW t \in Tasks, FollowUp(j, t)
    PROVE  TasksInv'
<1>1. ThreadsTyped /\ FollowOnce
    BY TasksInvGives
<1>2. PICK no \in BOOLEAN : no = FALSE
    OBVIOUS
<1>3. /\ Orders(j) /\ LiveThread(t)
      /\ thread' = Reopened(thread, t) /\ ckpt' = Superseded(ckpt, t)
      /\ job' = Post(job, t, "instruction", no, {})
      /\ followers' \in {followers, Unfollowed(t), Append(Unfollowed(t), t)}
      /\ UNCHANGED delivered
    BY <1>2 DEF FollowUp
<1>4. /\ spent' \in [events : Nat, sent : Nat, orders : Nat, crashes : Nat]
      /\ spent'.events \in Nat /\ spent.events <= spent'.events
      /\ instructed' \in Nat
    BY <1>1, <1>3, OrdersCounts
<1>5. "instruction" \in Kinds /\ t \in AllThreads
    BY TaskConstants DEF Kinds
<1>6. Sound(job, delivered)' /\ Happened(job, delivered, spent.events)'
    BY <1>3, <1>4, <1>5, PostStep
<1>7. /\ thread' \in [AllThreads -> ThreadStates] /\ ckpt' \in [AllThreads -> BOOLEAN]
      /\ \A u \in AllThreads : thread[u] # "none" => thread'[u] # "none"
    BY <1>1, <1>3, <1>5, ReopenKeeps
<1>8. thread[t] # "none"
    BY <1>3 DEF LiveThread
<1>9. followers' \in Seq(Tasks) /\ FollowOnce'
    BY <1>1, <1>3, <1>5, <1>7, <1>8, FollowersAre
<1>10. ThreadsTyped'
    BY <1>4, <1>7, <1>9 DEF ThreadsTyped
<1> QED
    BY <1>6, <1>9, <1>10, TasksInvFrom

LEMMA CancelTaskKeeps ==
    ASSUME TasksInv, NEW j \in DOMAIN job, NEW t \in Tasks, CancelTask(j, t)
    PROVE  TasksInv'
<1>1. ThreadsTyped /\ FollowOnce
    BY TasksInvGives
<1>2. /\ Spend("orders") /\ thread[t] # "none"
      /\ job' = Cancelled(Unfinished(t)) /\ followers' = Unfollowed(t)
      /\ UNCHANGED <<thread, ckpt, instructed, delivered>>
    BY DEF CancelTask
<1>3. /\ spent' \in [events : Nat, sent : Nat, orders : Nat, crashes : Nat]
      /\ spent'.events \in Nat /\ spent.events <= spent'.events
    BY <1>1, <1>2, SpendCounts
<1>4. Unfinished(t) \in SUBSET DOMAIN job
    BY DEF Unfinished, JobsOn
<1>5. /\ job' \in Seq(TaskJobs) /\ DOMAIN job' = DOMAIN job
      /\ \A k \in DOMAIN job : Proceeds(job[k], job'[k])
    BY <1>2, <1>4, CancelledProceeds
<1>6. Sound(job, delivered)' /\ Happened(job, delivered, spent.events)'
    BY <1>2, <1>3, <1>5, JobsStep
<1>7. followers' \in Seq(Tasks) /\ FollowOnce'
    BY <1>1, <1>2, FollowersAre
<1>8. ThreadsTyped'
    BY <1>1, <1>2, <1>3, <1>7 DEF ThreadsTyped
<1> QED
    BY <1>6, <1>7, <1>8, TasksInvFrom

\* A run comes to its end.
LEMMA LeaveKeeps ==
    ASSUME TasksInv, NEW j \in DOMAIN job, job[j].at = "run", NEW at \in Places,
           NEW turn \in TurnStates, Leave(j, at, turn), RunEnds,
           thread' \in [AllThreads -> ThreadStates], ckpt' \in [AllThreads -> BOOLEAN],
           \A u \in AllThreads : thread[u] # "none" => thread'[u] # "none"
    PROVE  TasksInv'
<1>1. /\ job[j] \in TaskJobs /\ WellRead(job[j]) /\ job[j].gen \in Nat /\ ThreadsTyped
      /\ FollowOnce /\ job \in Seq(TaskJobs) /\ spent.events \in Nat
    BY TasksInvGives, ATaskJob
<1>2. job' = [job EXCEPT ![j].at = at, ![j].turn = turn]
      /\ UNCHANGED <<followers, instructed, spent, delivered>>
    BY DEF Leave, RunEnds
<1>3. PICK r : r = [job[j] EXCEPT !.at = at, !.turn = turn]
    OBVIOUS
<1>4. r \in TaskJobs
    BY <1>1, <1>3 DEF TaskJobs
<1>5. /\ r.status = job[j].status /\ r.kind = job[j].kind /\ r.inputs = job[j].inputs
      /\ r.gen = job[j].gen /\ r.read = job[j].read
    BY <1>1, <1>3 DEF TaskJobs
<1>6. job' = [job EXCEPT ![j] = r]
    BY <1>1, <1>2, <1>3
<1>7. Proceeds(job[j], r)
    BY <1>1, <1>5 DEF Proceeds, Carried, WellRead
<1>8. Sound(job, delivered)' /\ Happened(job, delivered, spent.events)'
    <2>1. spent'.events \in Nat /\ spent.events <= spent'.events
        BY <1>1, <1>2
    <2> QED
        BY <1>2, <1>4, <1>6, <1>7, <2>1, JobStep
<1>9. ThreadsTyped'
    BY <1>1, <1>2 DEF ThreadsTyped
<1>10. FollowOnce'
    BY <1>1, <1>2, FollowersStay
<1> QED
    BY <1>8, <1>9, <1>10, TasksInvFrom

LEMMA EndsKeeps ==
    ASSUME TasksInv, NEW j \in DOMAIN job, Ends(j)
    PROVE  TasksInv'
<1>1. /\ thread \in [AllThreads -> ThreadStates] /\ ckpt \in [AllThreads -> BOOLEAN]
      /\ job[j].thread \in AllThreads
    BY TasksInvGives, ATaskJob DEF ThreadsTyped
<1>2. /\ "asked" \in Places /\ "done" \in Places /\ "failed" \in Places /\ "cancelled" \in Places
      /\ "waiting" \in TurnStates /\ "ended" \in TurnStates
    BY DEF Places, TurnStates
<1>3. CASE AskUser(j)
    <2>1. /\ job[j].at = "run" /\ Leave(j, "asked", "waiting") /\ RunEnds
          /\ thread' = [thread EXCEPT ![job[j].thread] = "paused"]
          /\ ckpt' = [ckpt EXCEPT ![job[j].thread] = TRUE]
        BY <1>3 DEF AskUser, Owns
    <2>2. /\ thread' \in [AllThreads -> ThreadStates] /\ ckpt' \in [AllThreads -> BOOLEAN]
          /\ \A u \in AllThreads : thread[u] # "none" => thread'[u] # "none"
        BY <1>1, <2>1 DEF ThreadStates
    <2> QED
        BY <1>2, <2>1, <2>2, LeaveKeeps
<1>4. CASE Complete(j)
    <2>1. /\ job[j].at = "run" /\ Leave(j, "done", "ended") /\ RunEnds
          /\ thread' = [thread EXCEPT ![job[j].thread] = "active"]
          /\ ckpt' = [ckpt EXCEPT ![job[j].thread] = ckpt[job[j].thread]
                                                         /\ job[j].kind # "resume"]
        BY <1>4 DEF Complete, Owns
    <2>2. /\ thread' \in [AllThreads -> ThreadStates]
          /\ \A u \in AllThreads : thread[u] # "none" => thread'[u] # "none"
        BY <1>1, <2>1 DEF ThreadStates
    <2>3. ckpt' \in [AllThreads -> BOOLEAN]
        BY <1>1, <2>1
    <2> QED
        BY <1>2, <2>1, <2>2, <2>3, LeaveKeeps
<1>5. CASE Break(j)
    <2>1. /\ job[j].at = "run" /\ RunEnds /\ UNCHANGED ckpt
          /\ thread' = IF job[j].kind = "resume"
                       THEN [thread EXCEPT ![job[j].thread] = "paused"] ELSE thread
        BY <1>5 DEF Break
    <2>2. PICK at \in {"failed", "cancelled"} : Leave(j, at, "ended")
        BY <1>5 DEF Break
    <2>3. /\ thread' \in [AllThreads -> ThreadStates] /\ ckpt' \in [AllThreads -> BOOLEAN]
          /\ \A u \in AllThreads : thread[u] # "none" => thread'[u] # "none"
        BY <1>1, <2>1 DEF ThreadStates
    <2> QED
        BY <1>2, <2>1, <2>2, <2>3, LeaveKeeps
<1> QED
    BY <1>3, <1>4, <1>5 DEF Ends

LEMMA FinishMovedKeeps ==
    ASSUME TasksInv, NEW j \in DOMAIN job, FinishMoved(j)
    PROVE  TasksInv'
<1>1. /\ job[j] \in TaskJobs /\ WellRead(job[j]) /\ job[j].gen \in Nat /\ ThreadsTyped
      /\ job \in Seq(TaskJobs)
    BY TasksInvGives, ATaskJob
<1>2. /\ job' = [job EXCEPT ![j].at = "idle", ![j].moved = FALSE]
      /\ UNCHANGED <<thread, ckpt, followers, instructed, spent, delivered>>
    BY DEF FinishMoved
<1>3. PICK r : r = [job[j] EXCEPT !.at = "idle", !.moved = FALSE]
    OBVIOUS
<1>4. r \in TaskJobs
    BY <1>1, <1>3 DEF TaskJobs, Places
<1>5. /\ r.status = job[j].status /\ r.kind = job[j].kind /\ r.inputs = job[j].inputs
      /\ r.gen = job[j].gen /\ r.read = job[j].read /\ r.turn = job[j].turn /\ r.at = "idle"
    BY <1>1, <1>3 DEF TaskJobs
<1>6. job' = [job EXCEPT ![j] = r]
    BY <1>1, <1>2, <1>3
<1>7. Proceeds(job[j], r)
    BY <1>1, <1>5 DEF Proceeds, Carried, WellRead
<1>8. /\ ThreadsTyped' /\ FollowOnce'
      /\ spent'.events \in Nat /\ spent.events <= spent'.events
    BY <1>1, <1>2, NothingElse DEF ThreadsTyped
<1>9. Sound(job, delivered)' /\ Happened(job, delivered, spent.events)'
    BY <1>2, <1>4, <1>6, <1>7, <1>8, JobStep
<1> QED
    BY <1>8, <1>9, TasksInvFrom

\* A run's report is new: no worker has ended that run before.
LEMMA ReportIsNew ==
    ASSUME TasksInv, NEW j \in DOMAIN job, job[j].at # "idle"
    PROVE  Report(j, job[j].gen) \in Inputs /\ Report(j, job[j].gen) \notin delivered
<1>1. job[j].gen \in Nat /\ j \in Nat /\ Happened(job, delivered, spent.events)
    BY TasksInvGives, ATaskJob
<1>2. PICK x : x = Report(j, job[j].gen)
    OBVIOUS
<1>3. x.kind = "report" /\ x.of = j /\ x.run = job[j].gen
    BY <1>2 DEF Report
<1>4. x \in Inputs
    BY <1>1, <1>2, TaskConstants DEF Report, Inputs
<1>5. x \notin delivered
    BY <1>1, <1>3 DEF Happened
<1> QED
    BY <1>2, <1>4, <1>5

\* A report is accepted with the job it goes to.
LEMMA ReportStep ==
    ASSUME NEW jobs, NEW d, NEW n \in Nat, Sound(jobs, d), Happened(jobs, d, n),
           NEW j \in DOMAIN jobs, jobs[j].at = "idle", NEW x \in Inputs, x \notin d,
           x.kind = "report", x.of = j, x.run = jobs[j].gen
    PROVE  /\ Sound(ReportIn(jobs, x), d \cup {x}) /\ Happened(ReportIn(jobs, x), d \cup {x}, n)
           /\ Instructions(ReportIn(jobs, x)) \subseteq Instructions(jobs)
<1> DEFINE new == ReportIn(jobs, x)
<1>1. /\ Sound(new, d \cup {x}) /\ RunsKept(jobs, new)
      /\ Instructions(new) \subseteq Instructions(jobs)
    BY ReportKeeps
<1>2. jobs[j].gen \in Nat /\ d \in SUBSET Inputs
    BY TheTaskJobs, ATaskJob DEF Sound
<1> HIDE DEF new
<1>3. Happened(new, d, n)
    BY <1>1, <1>2, HappenedStays
<1>4. j \in DOMAIN new /\ new[j].gen = jobs[j].gen /\ new[j].at = "idle"
    BY <1>1 DEF RunsKept
<1>5. Happened(new, d \cup {x}, n)
    BY <1>2, <1>3, <1>4 DEF Happened
<1> QED
    BY <1>1, <1>5 DEF new

\* A worker is gone, and its run is reported.
LEMMA FinishKeeps ==
    ASSUME TasksInv, NEW j \in DOMAIN job, Finish(j)
    PROVE  TasksInv' /\ Instructions(job') \subseteq Instructions(job)
<1> DEFINE live == job[j].status = "running"
           outcome == IF live THEN Outcome[job[j].at] ELSE job[j].status
           turn == IF job[j].turn = "pending" THEN "ended" ELSE job[j].turn
           entry == Report(j, job[j].gen)
           r == [job[j] EXCEPT !.status = outcome, !.at = "idle",
                               !.occ = (outcome = "waiting"), !.turn = turn]
           ended == [job EXCEPT ![j] = r]
           reports == Reportable(job[j].thread, outcome)
<1>1. /\ job[j] \in TaskJobs /\ WellRead(job[j]) /\ job[j].gen \in Nat /\ ThreadsTyped
      /\ job \in Seq(TaskJobs) /\ spent.events \in Nat
      /\ Sound(job, delivered) /\ Happened(job, delivered, spent.events)
    BY TasksInvGives, ATaskJob
<1>2. /\ Finishing(j)
      /\ job' = IF reports THEN ReportIn(ended, entry) ELSE ended
      /\ delivered' = IF reports THEN delivered \cup {entry} ELSE delivered
      /\ UNCHANGED <<thread, ckpt, followers, instructed, spent>>
    BY DEF Finish
<1>3. /\ job[j].at # "idle" /\ job[j].gen # 0
      /\ Outcome[job[j].at] \in {"waiting", "succeeded", "failed", "cancelled"}
    BY <1>1, <1>2 DEF Finishing, Outcome, WellRead
<1>4. /\ outcome \in Statuses /\ (outcome = "queued" => job[j].status = "queued")
      /\ turn \in TurnStates
    BY <1>1, <1>3 DEF TaskJobs, Statuses, TurnStates
<1> HIDE DEF outcome, turn
<1>5. PICK occ \in BOOLEAN : occ = (outcome = "waiting")
    OBVIOUS
<1>6. r = [job[j] EXCEPT !.status = outcome, !.at = "idle", !.occ = occ, !.turn = turn]
    BY <1>5
<1> HIDE DEF r
<1>7. r \in TaskJobs
    BY <1>1, <1>4, <1>6 DEF TaskJobs, Places
<1>8. /\ r.status = outcome /\ r.kind = job[j].kind /\ r.inputs = job[j].inputs
      /\ r.gen = job[j].gen /\ r.read = job[j].read /\ r.at = "idle"
    BY <1>1, <1>6 DEF TaskJobs
<1>9. Proceeds(job[j], r)
    BY <1>1, <1>3, <1>4, <1>8 DEF Proceeds, Carried, WellRead
<1>10. /\ ended \in Seq(TaskJobs) /\ DOMAIN ended = DOMAIN job /\ ended[j] = r
    BY <1>1, <1>7, OneRewritten
<1>11. Sound(ended, delivered) /\ Happened(ended, delivered, spent.events)
    BY <1>1, <1>7, <1>9, OneProceeds
<1>12. entry \in Inputs /\ entry \notin delivered
    BY <1>3, ReportIsNew
<1>13. entry.kind = "report" /\ entry.of = j /\ entry.run = ended[j].gen
    BY <1>8, <1>10 DEF Report
<1>14. Instructions(ended) \subseteq Instructions(job)
    <2>1. \A k \in DOMAIN job : ended[k].kind = job[k].kind
        BY <1>1, <1>7, <1>8, OneRewritten
    <2> QED
        BY <1>10, <2>1 DEF Instructions
<1> HIDE DEF ended, entry, reports
<1>15. /\ Sound(job', delivered') /\ Happened(job', delivered', spent.events)
       /\ Instructions(job') \subseteq Instructions(job)
    <2>1. CASE reports
        <3>1. /\ Sound(ReportIn(ended, entry), delivered \cup {entry})
              /\ Happened(ReportIn(ended, entry), delivered \cup {entry}, spent.events)
              /\ Instructions(ReportIn(ended, entry)) \subseteq Instructions(ended)
            BY <1>1, <1>8, <1>10, <1>11, <1>12, <1>13, ReportStep
        <3> QED
            BY <1>2, <1>14, <2>1, <3>1
    <2>2. CASE ~reports
        BY <1>2, <1>11, <1>14, <2>2
    <2> QED
        BY <2>1, <2>2
<1>16. ThreadsTyped' /\ FollowOnce'
    BY <1>1, <1>2, NothingElse DEF ThreadsTyped
<1> QED
    BY <1>2, <1>15, <1>16, TasksInvFrom

\* What becomes of a job when the server recovers.
LEMMA RecoveredIs ==
    ASSUME TasksInv, NEW j \in DOMAIN job
    PROVE  /\ RecoveredStatus(j) \in Statuses
           /\ RecoveredStatus(j) = "queued" => job[j].status = "queued"
           /\ job[j].gen = 0 => RecoveredStatus(j) = job[j].status
<1>1. job[j].status \in Statuses /\ WellRead(job[j])
    BY TasksInvGives, ATaskJob
<1>2. CASE job[j].status = "running"
    <2>1. RecoveredStatus(j) \in {"waiting", "succeeded", "interrupted"}
        BY <1>2 DEF RecoveredStatus
    <2> QED
        BY <1>1, <1>2, <2>1 DEF Statuses, WellRead
<1>3. CASE job[j].status \in {"queued", "cancelled"} /\ job[j].at # "idle"
    <2>1. RecoveredStatus(j) = "interrupted"
        BY <1>3 DEF RecoveredStatus
    <2> QED
        BY <1>1, <1>3, <2>1 DEF Statuses, WellRead
<1>4. CASE /\ job[j].status # "running"
           /\ ~(job[j].status \in {"queued", "cancelled"} /\ job[j].at # "idle")
    <2>1. RecoveredStatus(j) = job[j].status
        BY <1>4 DEF RecoveredStatus
    <2> QED
        BY <1>1, <2>1
<1> QED
    BY <1>2, <1>3, <1>4

LEMMA RestartKeeps ==
    ASSUME TasksInv, Restart
    PROVE  TasksInv'
<1> DEFINE turn(j) == IF job[j].turn \in {"pending", "running"} /\ job[j].status # "queued"
                      THEN "ended" ELSE job[j].turn
           occ(j) == job[j].occ /\ RecoveredStatus(j) \notin {"succeeded", "failed", "cancelled"}
           new == [j \in DOMAIN job |->
                      [job[j] EXCEPT !.status = RecoveredStatus(j), !.at = "idle",
                                     !.occ = occ(j), !.turn = turn(j)]]
<1>1. /\ job \in Seq(TaskJobs) /\ DOMAIN job = 1..Len(job) /\ Len(job) \in Nat
      /\ \A j \in DOMAIN job : job[j] \in TaskJobs /\ WellRead(job[j]) /\ job[j].gen \in Nat
      /\ ThreadsTyped /\ FollowOnce
    BY TasksInvGives, ATaskJob
<1>2. /\ Spend("crashes") /\ job' = new
      /\ thread' = [t \in AllThreads |->
                       IF /\ thread[t] = "running"
                          /\ \A j \in JobsOn(job, t) : job[j].status # "queued"
                       THEN IF ckpt[t] THEN "paused" ELSE "active"
                       ELSE thread[t]]
      /\ UNCHANGED <<ckpt, followers, instructed, delivered>>
    BY DEF Restart
<1>3. /\ spent' \in [events : Nat, sent : Nat, orders : Nat, crashes : Nat]
      /\ spent'.events \in Nat /\ spent.events <= spent'.events
    BY <1>1, <1>2, SpendCounts
<1>4. /\ thread' \in [AllThreads -> ThreadStates]
      /\ \A u \in AllThreads : thread[u] # "none" => thread'[u] # "none"
    BY <1>1, <1>2 DEF ThreadsTyped, ThreadStates
<1>5. ASSUME NEW j \in DOMAIN job
      PROVE  new[j] \in TaskJobs /\ Proceeds(job[j], new[j])
    <2>1. job[j] \in TaskJobs /\ WellRead(job[j]) /\ job[j].gen \in Nat
        BY <1>1
    <2>2. /\ RecoveredStatus(j) \in Statuses
          /\ RecoveredStatus(j) = "queued" => job[j].status = "queued"
          /\ job[j].gen = 0 => RecoveredStatus(j) = job[j].status
        BY RecoveredIs
    <2>3. occ(j) \in BOOLEAN
        BY <2>1 DEF TaskJobs
    <2>4. turn(j) \in TurnStates /\ (turn(j) = "waiting" => job[j].turn = "waiting")
        BY <2>1 DEF TaskJobs, TurnStates
    <2>5. PICK r : r = new[j]
        OBVIOUS
    <2>6. r = [job[j] EXCEPT !.status = RecoveredStatus(j), !.at = "idle",
                             !.occ = occ(j), !.turn = turn(j)]
        BY <2>5
    <2> HIDE DEF occ, turn, new
    <2>7. r \in TaskJobs
        BY <2>1, <2>2, <2>3, <2>4, <2>6 DEF TaskJobs, Places
    <2>8. /\ r.status = RecoveredStatus(j) /\ r.kind = job[j].kind
          /\ r.inputs = job[j].inputs /\ r.read = job[j].read /\ r.gen = job[j].gen
          /\ r.at = "idle" /\ r.turn = turn(j)
        BY <2>1, <2>6 DEF TaskJobs
    <2>9. Proceeds(job[j], r)
        BY <2>1, <2>2, <2>4, <2>8 DEF Proceeds, Carried, WellRead
    <2> QED
        BY <2>5, <2>7, <2>9
<1>6. DOMAIN new = DOMAIN job /\ new = [j \in 1..Len(job) |-> new[j]]
    BY <1>1
<1> HIDE DEF new
<1>7. new \in Seq(TaskJobs)
    BY <1>1, <1>5, <1>6
<1>8. Sound(job, delivered)' /\ Happened(job, delivered, spent.events)'
    BY <1>2, <1>3, <1>5, <1>6, <1>7, JobsStep
<1>9. ThreadsTyped'
    BY <1>1, <1>2, <1>3, <1>4 DEF ThreadsTyped
<1>10. FollowOnce'
    BY <1>1, <1>2, <1>4, FollowersStay
<1> QED
    BY <1>8, <1>9, <1>10, TasksInvFrom

-----------------------------------------------------------------------------
(* Every input is read once                                                 *)

LEMMA TasksStart ==
    ASSUME TaskInit
    PROVE  TasksInv
<1>1. /\ job = <<>> /\ thread = [t \in AllThreads |-> "none"]
      /\ ckpt = [t \in AllThreads |-> FALSE] /\ followers = <<>> /\ instructed = 0
      /\ spent = [events |-> 0, sent |-> 0, orders |-> 0, crashes |-> 0] /\ delivered = {}
    BY DEF TaskInit
<1>2. ThreadsTyped
    BY <1>1 DEF ThreadsTyped, ThreadStates
<1>3. FollowOnce
    BY <1>1 DEF FollowOnce
<1>4. job \in Seq(TaskJobs) /\ DOMAIN job = {} /\ delivered \in SUBSET Inputs
    BY <1>1
<1>5. Sound(job, delivered)
    BY <1>1, <1>4 DEF Sound, CarriedOnce
<1>6. Happened(job, delivered, spent.events)
    BY <1>1 DEF Happened
<1> QED
    BY <1>2, <1>3, <1>4, <1>5, <1>6 DEF TasksInv, TasksTyped

LEMMA TasksStep ==
    ASSUME TasksInv, [TaskNext]_taskVars
    PROVE  TasksInv'
<1>1. CASE EventToTasks
    BY <1>1, EventToTasksKeeps
<1>2. CASE EventToHome
    BY <1>2, EventToHomeKeeps
<1>3. ASSUME NEW t \in AllThreads, QueueMessage(t) \/ AnswerWaiting(t) \/ Resume(t)
      PROVE  TasksInv'
    BY <1>3, QueueMessageKeeps, AnswerWaitingKeeps, ResumeKeeps
<1>4. ASSUME NEW j \in DOMAIN job, CancelTurn(j) \/ Acknowledge(j)
      PROVE  TasksInv'
    BY <1>4, CancelTurnKeeps, AcknowledgeKeeps
<1>5. CASE Restart
    BY <1>5, RestartKeeps
<1>6. ASSUME NEW j \in DOMAIN job, Router(j)
      PROVE  TasksInv'
    <2>1. PICK t \in Tasks : \/ \E follows \in BOOLEAN : Dispatch(j, t, follows)
                             \/ FollowUp(j, t) \/ CancelTask(j, t)
        BY <1>6 DEF Router
    <2> QED
        BY <2>1, DispatchKeeps, FollowUpKeeps, CancelTaskKeeps
<1>7. ASSUME NEW j \in DOMAIN job, Claim(j) \/ Ends(j) \/ Finishes(j)
      PROVE  TasksInv'
    BY <1>7, ClaimKeeps, EndsKeeps, FinishMovedKeeps, FinishKeeps DEF Finishes
<1>8. CASE UNCHANGED taskVars
    <2>1. UNCHANGED <<job, thread, ckpt, followers, instructed, spent, delivered>>
        BY <1>8 DEF taskVars
    <2> QED
        BY <2>1 DEF TasksInv, TasksTyped, ThreadsTyped, FollowOnce
<1>9. CASE TaskNext
    <2>1. CASE Clients
        BY <1>1, <1>2, <1>3, <1>4, <2>1 DEF Clients
    <2>2. CASE \E j \in DOMAIN job : Claim(j) \/ Router(j) \/ Ends(j) \/ Finishes(j)
        BY <1>6, <1>7, <2>2
    <2> QED
        BY <1>5, <1>9, <2>1, <2>2 DEF TaskNext
<1> QED
    BY <1>8, <1>9

LEMMA TasksInvariant == TaskSpec => []TasksInv
<1>1. TaskInit => TasksInv
    BY TasksStart
<1>2. TasksInv /\ [TaskNext]_taskVars => TasksInv'
    BY TasksStep
<1> QED
    BY <1>1, <1>2, PTL DEF TaskSpec

\* Every job, thread and input is what the tables allow.
THEOREM TaskTypes == TaskSpec => []TasksTyped
<1>1. TasksInv => TasksTyped
    BY DEF TasksInv
<1> QED
    BY <1>1, TasksInvariant, PTL

\* An event or a report is in exactly one run's input, and that run was given
\* all it carries when a worker took it: for every number of events, threads and
\* commands, and every order of deliveries, claims, answers, cancellations,
\* reports and restarts.
THEOREM InputsAreReadOnce == TaskSpec => []InputsReadOnce
<1>1. ASSUME TasksInv
      PROVE  InputsReadOnce
    <2>1. /\ \A j \in DOMAIN job : WellRead(job[j]) /\ job[j].gen \in Nat
          /\ CarriedOnce(job, delivered)
        BY <1>1, TasksInvGives, ATaskJob DEF Sound
    <2>2. \A i : Carriers(i) = {j \in DOMAIN job : i \in Carried(job[j])}
        BY DEF Carriers, Carried
    <2>3. ASSUME NEW i \in delivered
          PROVE  \E j \in DOMAIN job : /\ Carriers(i) = {j}
                                       /\ job[j].gen > 0 => i \in job[j].read
        <3>1. PICK j \in DOMAIN job : i \in Carried(job[j])
            BY <2>1 DEF CarriedOnce
        <3>2. \A k \in DOMAIN job : i \in Carried(job[k]) => k = j
            BY <2>1, <3>1 DEF CarriedOnce
        <3>3. Carriers(i) = {j}
            BY <2>2, <3>1, <3>2
        <3>4. job[j].gen > 0 => i \in job[j].read
            BY <2>1, <3>1 DEF WellRead, Carried
        <3> QED
            BY <3>3, <3>4
    <2> QED
        BY <2>3 DEF InputsReadOnce
<1>2. TasksInv => InputsReadOnce
    BY <1>1
<1> QED
    BY <1>2, TasksInvariant, PTL

-----------------------------------------------------------------------------
(* The instructions of a request                                            *)

LEMMA SpendRequests ==
    ASSUME ThreadsTyped, NEW name \in {"events", "sent", "orders", "crashes"}, Spend(name)
    PROVE  /\ name \in {"events", "sent"} => Requests' = Requests + 1
           /\ name \notin {"events", "sent"} => Requests' = Requests
<1>1. spent \in [events : Nat, sent : Nat, orders : Nat, crashes : Nat]
    BY DEF ThreadsTyped
<1>2. spent' = [spent EXCEPT ![name] = @ + 1]
    BY DEF Spend
<1> QED
    BY <1>1, <1>2 DEF Requests

LEMMA BudgetNumbers ==
    ASSUME TasksInv
    PROVE  /\ Requests \in Nat /\ instructed \in Nat /\ MaxPerRequest \in Nat
           /\ IsFiniteSet(Instructions(job)) /\ Cardinality(Instructions(job)) \in Nat
           /\ \A S \in SUBSET Instructions(job) :
                  /\ IsFiniteSet(S) /\ Cardinality(S) \in Nat
                  /\ Cardinality(S) <= Cardinality(Instructions(job))
<1>1. Requests \in Nat /\ instructed \in Nat /\ MaxPerRequest \in Nat
    BY TasksInvGives, TaskAssumption DEF ThreadsTyped, Requests
<1>2. Len(job) \in Nat /\ Instructions(job) \subseteq 1..Len(job)
    BY TasksInvGives DEF Instructions
<1>3. IsFiniteSet(Instructions(job))
    <2>1. IsFiniteSet(1..Len(job))
        BY <1>2, FS_Interval
    <2> QED
        BY <1>2, <2>1, FS_Subset
<1> QED
    BY <1>1, <1>3, FS_Subset, FS_CardinalityType

LEMMA MostOfABudget ==
    ASSUME NEW m \in Nat, NEW used \in Nat, NEW n \in Nat, NEW k \in Nat, NEW p \in Nat,
           n <= k, k <= p, used <= m
    PROVE  n + (m - used) <= p + m
OBVIOUS

\* A request comes in, and may renew the budget.
LEMMA BudgetGoesOn ==
    ASSUME TasksInv, BudgetKept, Instructions(job') \subseteq Instructions(job),
           instructed' \in {0, instructed}, Requests' = Requests + 1
    PROVE  BudgetKept'
<1> DEFINE M == MaxPerRequest
           c == Cardinality(Instructions(job))
           d == Cardinality(Instructions(job'))
           R == Requests
<1>1. R \in Nat /\ instructed \in Nat /\ M \in Nat /\ c \in Nat /\ d \in Nat /\ d <= c
    BY BudgetNumbers
<1>2. /\ instructed <= M /\ (R = 0 => job = <<>>)
      /\ R # 0 => c + (M - instructed) <= M * R
    BY DEF BudgetKept
<1>3. R = 0 => c = 0
    <2>1. job = <<>> => Instructions(job) = {}
        BY DEF Instructions
    <2> QED
        BY <1>2, <2>1, FS_EmptySet
<1>4. M * (R + 1) = M * R + M /\ M * R \in Nat
    BY <1>1
<1> HIDE DEF M, c, d, R
<1>5. c <= M * R
    BY <1>1, <1>2, <1>3, <1>4
<1>6. PICK used \in Nat : used = instructed' /\ used <= M
    BY <1>1, <1>2
<1>7. d + (M - used) <= M * (R + 1)
    <2>1. d + (M - used) <= M * R + M
        BY <1>1, <1>4, <1>5, <1>6, MostOfABudget
    <2> QED
        BY <1>4, <2>1
<1>8. Requests' = R + 1 /\ R + 1 # 0
    BY <1>1 DEF R
<1> QED
    BY <1>6, <1>7, <1>8 DEF BudgetKept, M, d

\* No request, and no instruction.
LEMMA BudgetStays ==
    ASSUME TasksInv, BudgetKept, Instructions(job') \subseteq Instructions(job),
           instructed' = instructed, Requests' = Requests, Requests = 0 => job' = <<>>
    PROVE  BudgetKept'
<1> DEFINE M == MaxPerRequest
           c == Cardinality(Instructions(job))
           d == Cardinality(Instructions(job'))
<1>1. Requests \in Nat /\ instructed \in Nat /\ M \in Nat /\ c \in Nat /\ d \in Nat /\ d <= c
    BY BudgetNumbers
<1>2. instructed <= M /\ (Requests # 0 => c + (M - instructed) <= M * Requests)
    BY DEF BudgetKept
<1>3. M * Requests \in Nat
    BY <1>1
<1> HIDE DEF M, c, d
<1>4. Requests # 0 => d + (M - instructed) <= M * Requests
    BY <1>1, <1>2, <1>3
<1> QED
    BY <1>2, <1>4 DEF BudgetKept, M, d

\* The router gives an instruction.
LEMMA BudgetIsUsed ==
    ASSUME TasksInv, BudgetKept, NEW j \in DOMAIN job, Orders(j), NEW x,
           Instructions(job') \subseteq Instructions(job) \cup {x}
    PROVE  BudgetKept'
<1> DEFINE M == MaxPerRequest
           c == Cardinality(Instructions(job))
           d == Cardinality(Instructions(job'))
           I == Instructions(job)
<1>1. Requests \in Nat /\ instructed \in Nat /\ M \in Nat /\ c \in Nat /\ IsFiniteSet(I)
    BY BudgetNumbers
<1>2. /\ instructed < M /\ instructed' = instructed + 1 /\ Requests' = Requests
    BY TasksInvGives, SpendRequests DEF Orders
<1>3. Requests # 0
    <2>1. job # <<>>
        OBVIOUS
    <2> QED
        BY <2>1 DEF BudgetKept
<1>4. c + (M - instructed) <= M * Requests /\ M * Requests \in Nat
    BY <1>1, <1>3 DEF BudgetKept
<1>5. d \in Nat /\ d <= c + 1
    <2>1. IsFiniteSet(I \cup {x}) /\ Cardinality(I \cup {x}) <= c + 1
                                  /\ Cardinality(I \cup {x}) \in Nat
        <3>1. /\ IsFiniteSet(I \cup {x})
              /\ Cardinality(I \cup {x}) = IF x \in I THEN Cardinality(I) ELSE Cardinality(I) + 1
            BY <1>1, FS_AddElement
        <3> QED
            BY <1>1, <3>1
    <2>2. /\ Cardinality(Instructions(job')) \in Nat
          /\ Cardinality(Instructions(job')) <= Cardinality(I \cup {x})
        BY <2>1, FS_Subset, FS_CardinalityType
    <2> QED
        BY <1>1, <2>1, <2>2
<1> HIDE DEF M, c, d, I
<1>6. d + (M - (instructed + 1)) <= M * Requests /\ instructed + 1 <= M
    BY <1>1, <1>2, <1>4, <1>5
<1> QED
    BY <1>2, <1>3, <1>6 DEF BudgetKept, M, d

LEMMA OneKind ==
    ASSUME TasksInv, NEW j \in DOMAIN job, NEW r, job' = [job EXCEPT ![j] = r],
           r.kind = "instruction" => job[j].kind = "instruction"
    PROVE  Instructions(job') \subseteq Instructions(job)
BY DEF Instructions

\* There is a request as soon as there is a job.
LEMMA JobsAreRequested ==
    ASSUME BudgetKept, NEW j \in DOMAIN job
    PROVE  Requests # 0
BY DEF BudgetKept

LEMMA EventsAreRequests ==
    ASSUME TasksInv, BudgetKept, EventToTasks \/ EventToHome
    PROVE  BudgetKept'
<1>1. ThreadsTyped /\ Sound(job, delivered) /\ delivered \in SUBSET Inputs
      /\ spent.events \in Nat /\ Happened(job, delivered, spent.events)
    BY TasksInvGives
<1>2. Requests' = Requests + 1
    <2>1. Spend("events")
        BY DEF EventToTasks, EventToHome, TakeEvent
    <2> QED
        BY <1>1, <2>1, SpendRequests
<1>3. CASE EventToTasks
    <2>1. job' = Delivered[Len(Subscribers)] /\ instructed' = instructed
        BY <1>3 DEF EventToTasks
    <2>2. Instructions(Delivered[Len(Subscribers)]) \subseteq Instructions(job)
        BY DeliveredKeeps
    <2> QED
        BY <1>2, <2>1, <2>2, BudgetGoesOn
<1>4. CASE EventToHome
    <2>1. PICK yes \in BOOLEAN : yes = TRUE
        OBVIOUS
    <2>2. job' = Deliver(job, Home, NextEvent, yes) /\ instructed' \in {0, instructed}
        BY <1>4, <2>1 DEF EventToHome
    <2>3. Event(Home, NextEvent) \notin delivered /\ NextEvent \in Nat
        BY <1>1 DEF Happened, Event, NextEvent
    <2>4. Instructions(Deliver(job, Home, NextEvent, yes)) \subseteq Instructions(job)
        BY <1>1, <2>3, TaskConstants, DeliverKeeps
    <2> QED
        BY <1>2, <2>2, <2>4, BudgetGoesOn
<1> QED
    BY <1>3, <1>4

LEMMA CommandsAreRequests ==
    ASSUME TasksInv, BudgetKept, NEW t \in AllThreads,
           QueueMessage(t) \/ AnswerWaiting(t) \/ Resume(t)
    PROVE  BudgetKept'
<1>1. /\ ThreadsTyped /\ job \in Seq(TaskJobs) /\ {} \in SUBSET Inputs
      /\ \A j \in DOMAIN job : job[j] \in TaskJobs
    BY TasksInvGives
<1>2. Requests' = Requests + 1 /\ instructed' \in {0, instructed}
    <2>1. Spend("sent") /\ instructed' \in {0, instructed}
        BY DEF QueueMessage, AnswerWaiting, Resume, Sends
    <2> QED
        BY <1>1, <2>1, SpendRequests
<1>3. PICK no \in BOOLEAN : no = FALSE
    OBVIOUS
<1>4. CASE QueueMessage(t)
    <2>1. job' = Post(job, t, "message", no, {})
        BY <1>3, <1>4 DEF QueueMessage
    <2>2. "message" \in Kinds /\ "message" # "instruction"
        BY DEF Kinds
    <2>3. Instructions(job') \subseteq Instructions(job)
        BY <1>1, <2>1, <2>2, PostBrings
    <2> QED
        BY <1>2, <2>3, BudgetGoesOn
<1>5. CASE AnswerWaiting(t)
    <2> DEFINE w == Min(Waiting(t))
               ended == [job EXCEPT ![w].turn = "ended"]
               turn == IF Busy(ended, t) THEN "queued" ELSE "pending"
               r == [ended[w] EXCEPT !.status = "queued", !.kind = "message", !.inputs = {},
                                     !.turn = turn]
    <2>1. job' = [ended EXCEPT ![w] = r] /\ Waiting(t) # {}
        BY <1>5 DEF AnswerWaiting
    <2>2. w \in DOMAIN job
        <3>1. Waiting(t) \in SUBSET DOMAIN job
            BY DEF Waiting, JobsOn
        <3> QED
            BY <1>1, <2>1, <3>1, ThereIsAMax
    <2> HIDE DEF w, turn
    <2>3. r.kind = "message"
        BY <1>1, <2>2 DEF TaskJobs
    <2>4. job' = [job EXCEPT ![w] = r]
        BY <2>1, <2>2
    <2> HIDE DEF r
    <2>5. Instructions(job') \subseteq Instructions(job)
        BY <2>2, <2>3, <2>4, OneKind
    <2> QED
        BY <1>2, <2>5, BudgetGoesOn
<1>6. CASE Resume(t)
    <2> DEFINE asked == {j \in JobsOn(job, t) : job[j].turn = "waiting"}
               kept == {j \in asked : job[j].status \in {"running", "waiting"}}
               w == Max(kept)
               r == [job[w] EXCEPT !.status = "queued", !.kind = "resume", !.inputs = {},
                                   !.turn = "running", !.moved = (job[w].at # "idle"),
                                   !.verified = FALSE]
    <2>1. \/ kept # {} /\ job' = [job EXCEPT ![w] = r]
          \/ job' = Append(job, NewJob(t, "resume", no, {}, "running"))
        BY <1>3, <1>6 DEF Resume
    <2>2. CASE kept # {} /\ job' = [job EXCEPT ![w] = r]
        <3>1. w \in DOMAIN job
            <4>1. kept \in SUBSET DOMAIN job
                BY DEF JobsOn
            <4> HIDE DEF kept
            <4> QED
                BY <1>1, <2>2, <4>1, ThereIsAMax
        <3> HIDE DEF w
        <3>2. r.kind = "resume"
            BY <1>1, <3>1 DEF TaskJobs
        <3> HIDE DEF r
        <3>3. Instructions(job') \subseteq Instructions(job)
            BY <2>2, <3>1, <3>2, OneKind
        <3> QED
            BY <1>2, <3>3, BudgetGoesOn
    <2>3. CASE job' = Append(job, NewJob(t, "resume", no, {}, "running"))
        <3>1. "resume" \in Kinds /\ "running" \in TurnStates /\ "running" # "waiting"
            BY DEF Kinds, TurnStates
        <3>2. PICK r1 \in TaskJobs : r1 = NewJob(t, "resume", no, {}, "running")
                                         /\ r1.kind = "resume"
            BY <1>1, <3>1, ANewJob
        <3>3. \A k \in DOMAIN job' : job'[k] = r1 \/ (k \in DOMAIN job /\ job'[k] = job[k])
            BY <1>1, <2>3, <3>2
        <3>4. Instructions(job') \subseteq Instructions(job)
            BY <3>2, <3>3 DEF Instructions
        <3> QED
            BY <1>2, <3>4, BudgetGoesOn
    <2> QED
        BY <2>1, <2>2, <2>3
<1> QED
    BY <1>4, <1>5, <1>6

LEMMA CancelledKinds ==
    ASSUME TasksInv, NEW turns
    PROVE  Instructions(Cancelled(turns)) \subseteq Instructions(job)
<1>1. \A j \in DOMAIN job : job[j] \in TaskJobs
    BY TasksInvGives
<1>2. DOMAIN Cancelled(turns) = DOMAIN job
    BY DEF Cancelled
<1>3. ASSUME NEW j \in DOMAIN job
      PROVE  Cancelled(turns)[j].kind = job[j].kind
    BY <1>1 DEF Cancelled, TaskJobs
<1> QED
    BY <1>2, <1>3 DEF Instructions

LEMMA RouterKeepsBudget ==
    ASSUME TasksInv, BudgetKept, NEW j \in DOMAIN job, Router(j)
    PROVE  BudgetKept'
<1>1. ThreadsTyped /\ job \in Seq(TaskJobs) /\ {} \in SUBSET Inputs
    BY TasksInvGives
<1>2. PICK t \in Tasks : \/ \E follows \in BOOLEAN : Dispatch(j, t, follows)
                         \/ FollowUp(j, t) \/ CancelTask(j, t)
    BY DEF Router
<1>3. CASE CancelTask(j, t)
    <2>1. /\ Spend("orders") /\ instructed' = instructed
          /\ job' = Cancelled(Unfinished(t))
        BY <1>3 DEF CancelTask
    <2>2. Requests' = Requests /\ Requests # 0
        BY <1>1, <2>1, SpendRequests, JobsAreRequested
    <2>3. Instructions(job') \subseteq Instructions(job)
        BY <2>1, CancelledKinds
    <2> QED
        BY <2>1, <2>2, <2>3, BudgetStays
<1>4. CASE (\E follows \in BOOLEAN : Dispatch(j, t, follows)) \/ FollowUp(j, t)
    <2>1. PICK no \in BOOLEAN : no = FALSE
        OBVIOUS
    <2>2. Orders(j) /\ job' = Post(job, t, "instruction", no, {})
        BY <1>4, <2>1 DEF Dispatch, FollowUp
    <2>3. "instruction" \in Kinds /\ t \in AllThreads
        BY TaskConstants DEF Kinds
    <2>4. Instructions(job') \subseteq Instructions(job) \cup {Len(job) + 1}
        BY <1>1, <2>2, <2>3, PostBrings
    <2> QED
        BY <2>2, <2>4, BudgetIsUsed
<1> QED
    BY <1>2, <1>3, <1>4

\* What a run does itself.
LEMMA RunKeepsBudget ==
    ASSUME TasksInv, BudgetKept, NEW j \in DOMAIN job,
           Acknowledge(j) \/ Claim(j) \/ Ends(j) \/ Finishes(j)
    PROVE  BudgetKept'
<1>1. /\ job[j] \in TaskJobs /\ job \in Seq(TaskJobs) /\ Sound(job, delivered)
      /\ Happened(job, delivered, spent.events) /\ spent.events \in Nat
    BY TasksInvGives
<1>2. Requests' = Requests /\ instructed' = instructed /\ Requests # 0
    <2>1. UNCHANGED <<spent, instructed>>
        BY DEF Acknowledge, Claim, Ends, Finishes, AskUser, Complete, Break, RunEnds,
               FinishMoved, Finish
    <2> QED
        BY <2>1, JobsAreRequested DEF Requests
<1>3. CASE Acknowledge(j)
    <2>1. job' = [job EXCEPT ![j].verified = TRUE, ![j].occ = FALSE]
        BY <1>3 DEF Acknowledge
    <2>2. PICK r : r = [job[j] EXCEPT !.verified = TRUE, !.occ = FALSE]
        OBVIOUS
    <2>3. job' = [job EXCEPT ![j] = r] /\ r.kind = job[j].kind
        BY <1>1, <2>1, <2>2 DEF TaskJobs
    <2>4. Instructions(job') \subseteq Instructions(job)
        BY <2>3, OneKind
    <2> QED
        BY <1>2, <2>4, BudgetStays
<1>4. CASE Claim(j)
    <2> DEFINE runs == job[j].kind = "resume" \/ thread[job[j].thread] = "active"
               r == [job[j] EXCEPT !.status = "running", !.occ = TRUE,
                                   !.at = IF runs THEN "run" ELSE "failed",
                                   !.turn = IF runs THEN "running" ELSE "pending",
                                   !.moved = FALSE, !.gen = job[j].gen + 1,
                                   !.read = job[j].read \cup job[j].inputs]
    <2>1. job' = [job EXCEPT ![j] = r]
        BY <1>4 DEF Claim
    <2>2. r.kind = job[j].kind
        BY <1>1 DEF TaskJobs
    <2> HIDE DEF r
    <2>3. Instructions(job') \subseteq Instructions(job)
        BY <2>1, <2>2, OneKind
    <2> QED
        BY <1>2, <2>3, BudgetStays
<1>5. CASE Ends(j)
    <2>1. PICK at, turn : Leave(j, at, turn)
        BY <1>5 DEF Ends, AskUser, Complete, Break
    <2>2. PICK r : r = [job[j] EXCEPT !.at = at, !.turn = turn]
        OBVIOUS
    <2>3. job' = [job EXCEPT ![j] = r] /\ r.kind = job[j].kind
        BY <1>1, <2>1, <2>2 DEF TaskJobs, Leave
    <2>4. Instructions(job') \subseteq Instructions(job)
        BY <2>3, OneKind
    <2> QED
        BY <1>2, <2>4, BudgetStays
<1>6. CASE FinishMoved(j)
    <2>1. job' = [job EXCEPT ![j].at = "idle", ![j].moved = FALSE]
        BY <1>6 DEF FinishMoved
    <2>2. PICK r : r = [job[j] EXCEPT !.at = "idle", !.moved = FALSE]
        OBVIOUS
    <2>3. job' = [job EXCEPT ![j] = r] /\ r.kind = job[j].kind
        BY <1>1, <2>1, <2>2 DEF TaskJobs
    <2>4. Instructions(job') \subseteq Instructions(job)
        BY <2>3, OneKind
    <2> QED
        BY <1>2, <2>4, BudgetStays
<1>7. CASE Finish(j)
    <2>1. Instructions(job') \subseteq Instructions(job)
        BY <1>7, FinishKeeps
    <2> QED
        BY <1>2, <2>1, BudgetStays
<1> QED
    BY <1>3, <1>4, <1>5, <1>6, <1>7 DEF Finishes

LEMMA BudgetStep ==
    ASSUME TasksInv, BudgetKept, [TaskNext]_taskVars
    PROVE  BudgetKept'
<1>1. ThreadsTyped /\ job \in Seq(TaskJobs)
    BY TasksInvGives
<1>2. ASSUME NEW j \in DOMAIN job, CancelTurn(j)
      PROVE  BudgetKept'
    <2>1. Spend("sent") /\ instructed' = instructed /\ job' = Cancelled({j})
        BY <1>2 DEF CancelTurn, Sends
    <2>2. Requests' = Requests + 1
        BY <1>1, <2>1, SpendRequests
    <2>3. Instructions(job') \subseteq Instructions(job)
        BY <2>1, CancelledKinds
    <2> QED
        BY <2>1, <2>2, <2>3, BudgetGoesOn
<1>3. CASE Restart
    <2>1. Spend("crashes") /\ instructed' = instructed
        BY <1>3 DEF Restart
    <2>2. Requests' = Requests
        BY <1>1, <2>1, SpendRequests
    <2>3. /\ DOMAIN job' = DOMAIN job
          /\ \A k \in DOMAIN job : job'[k].kind = job[k].kind
        <3>1. \A k \in DOMAIN job : job[k] \in TaskJobs
            BY TasksInvGives
        <3> QED
            BY <1>3, <3>1 DEF Restart, TaskJobs
    <2>4. Instructions(job') \subseteq Instructions(job)
        BY <2>3 DEF Instructions
    <2>5. Requests = 0 => job' = <<>>
        <3>1. job' \in Seq(TaskJobs)
            BY <1>3, RestartKeeps DEF TasksInv, TasksTyped
        <3>2. job = <<>> => DOMAIN job' = {}
            BY <2>3
        <3>3. DOMAIN job' = {} => job' = <<>>
            BY <3>1
        <3> QED
            BY <3>2, <3>3 DEF BudgetKept
    <2> QED
        BY <2>1, <2>2, <2>4, <2>5, BudgetStays
<1>4. CASE UNCHANGED taskVars
    <2>1. UNCHANGED <<job, spent, instructed>>
        BY <1>4 DEF taskVars
    <2> QED
        BY <2>1 DEF BudgetKept, Requests, Instructions
<1>5. CASE TaskNext
    <2>1. CASE Clients
        BY <1>2, <2>1, EventsAreRequests, CommandsAreRequests, RunKeepsBudget DEF Clients
    <2>2. CASE \E j \in DOMAIN job : Claim(j) \/ Router(j) \/ Ends(j) \/ Finishes(j)
        BY <2>2, RouterKeepsBudget, RunKeepsBudget
    <2> QED
        BY <1>3, <1>5, <2>1, <2>2 DEF TaskNext
<1> QED
    BY <1>4, <1>5

\* A request, an event or a command, sets off at most MaxPerRequest
\* instructions to tasks, whatever reports and follow-ups it leads to: the
\* budget that check_request_budget counts holds through every run, answer
\* and restart.
THEOREM RequestsAreBounded == TaskSpec => []InstructionsAreBounded
<1>1. ASSUME TaskInit
      PROVE  BudgetKept
    <2>1. job = <<>> /\ instructed = 0 /\ Requests = 0 /\ MaxPerRequest \in Nat
        BY <1>1, TaskAssumption DEF TaskInit, Requests
    <2> QED
        BY <2>1 DEF BudgetKept
<1>2. ASSUME TasksInv, BudgetKept
      PROVE  InstructionsAreBounded
    <2>1. /\ Requests \in Nat /\ instructed \in Nat /\ MaxPerRequest \in Nat
          /\ Cardinality(Instructions(job)) \in Nat
        BY <1>2, BudgetNumbers
    <2>2. Requests = 0 => Cardinality(Instructions(job)) = 0
        <3>1. job = <<>> => Instructions(job) = {}
            BY DEF Instructions
        <3> QED
            BY <1>2, <3>1, FS_EmptySet DEF BudgetKept
    <2>3. MaxPerRequest * Requests \in Nat
        BY <2>1
    <2>4. Cardinality(Instructions(job)) <= MaxPerRequest * Requests
        BY <1>2, <2>1, <2>2, <2>3 DEF BudgetKept
    <2> QED
        BY <2>4 DEF InstructionsAreBounded, Instructions, Requests
<1>3. TaskInit => BudgetKept
    BY <1>1
<1>4. TasksInv /\ BudgetKept /\ [TaskNext]_taskVars => BudgetKept'
    BY BudgetStep
<1>5. TasksInv /\ BudgetKept => InstructionsAreBounded
    BY <1>2
<1> QED
    BY <1>3, <1>4, <1>5, TasksInvariant, PTL DEF TaskSpec
===============================================================================
