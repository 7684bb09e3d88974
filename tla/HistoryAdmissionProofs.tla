----------------------- MODULE HistoryAdmissionProofs -----------------------
(***************************************************************************)
(* Theorems about HistoryAdmission for any agents, messages, rows,         *)
(* deletions and stops of the server.                                      *)
(*                                                                         *)
(* The order of the history follows from what is beyond the place of a     *)
(* message when it is claimed.  That saved prompts lack nothing needs two  *)
(* facts more: whatever changes at or before the place a prompt reaches    *)
(* deletes it, and while an agent is at work no row that was passed over   *)
(* becomes visible, since only a paused thread has rows to reopen.         *)
(***************************************************************************)
EXTENDS HistoryAdmission, TLAPS, SequenceTheorems, WellFoundedInduction

RowType ==
    [seq : Nat \ {0}, turn : Nat,
     status : {"visible", "interrupted", "running_checkpoint", "cleared"},
     admitted : BOOLEAN, by : Agents \cup {"user"}]
Prompt == [through : Nat, has : SUBSET Nat]

RowsTyped == rows \in Seq(RowType) /\ queue \in Seq(1..Len(rows))

PromptsTyped == saved \in [Agents -> Prompt] /\ read \in Prompt

CountsTyped ==
    /\ next \in Nat \ {0} /\ turns \in Nat /\ row \in 0..Len(rows)
    /\ used \in [deletes : Nat, crashes : Nat]

WorkTyped ==
    /\ status \in {"active", "paused", "running"}
    /\ step \in {"idle", "turn", "loading", "running"}
    /\ agent \in Agents \cup {Nobody} /\ safe \in BOOLEAN

HistoryTyped == RowsTyped /\ PromptsTyped /\ CountsTyped /\ WorkTyped

\* Places and turns are given out in ascending order, and what is interrupted
\* or unfinished was written by an agent.
Placed ==
    \A i \in 1..Len(rows) :
        /\ rows[i].seq < next
        /\ rows[i].admitted => rows[i].turn <= turns
        /\ rows[i].status \in {"interrupted", "running_checkpoint"} =>
               rows[i].admitted /\ rows[i].by \in Agents

\* Only an agent at work has read something, or writes a row, which is its own.
AtWork ==
    /\ step \in {"loading", "running"} => agent \in Agents
    /\ step \in {"idle", "turn"} => read = None /\ row = 0
    /\ row # 0 => rows[row].admitted /\ rows[row].by \in Agents

OrderInv == HistoryTyped /\ Placed /\ AtWork /\ HistoryInOrder

\* A prompt lacks nothing up to its place, and has nothing but history.
Complete(p) ==
    /\ \A i \in 1..Len(rows) : Visible(i) /\ rows[i].seq <= p.through => i \in p.has
    /\ \A i \in p.has : i \in 1..Len(rows) /\ rows[i].admitted
    /\ p.through < next

\* The agent at work knows what it answers.
KnowsItsMessage ==
    step = "running" =>
        \A i \in 1..Len(rows) :
            rows[i].by = "user" /\ rows[i].turn = turns /\ Visible(i) => i \in read.has

\* A paused thread is at rest, if no turn goes on after an agent failed.
RestsWhenPaused == status = "paused" => step = "idle"

SavedComplete == \A a \in Agents : Complete(saved[a])
ReadComplete == Complete(read)

CompleteInv ==
    /\ OrderInv
    /\ RestsWhenPaused /\ KnowsItsMessage
    /\ SavedComplete /\ ReadComplete

-----------------------------------------------------------------------------
(* Rows                                                                    *)

\* A function on the places of a sequence is a sequence of the same length.
LEMMA RowsAreSeq ==
    ASSUME NEW n \in Nat, NEW f \in [1..n -> RowType]
    PROVE  f \in Seq(RowType) /\ Len(f) = n
OBVIOUS

\* What was interrupted is shown in place; nothing else changes.
LEMMA ShownIs ==
    ASSUME HistoryTyped
    PROVE  /\ Shown \in Seq(RowType) /\ Len(Shown) = Len(rows)
           /\ \A i \in 1..Len(rows) :
                /\ Shown[i].seq = rows[i].seq /\ Shown[i].turn = rows[i].turn
                /\ Shown[i].admitted = rows[i].admitted /\ Shown[i].by = rows[i].by
                /\ rows[i].status # "interrupted" => Shown[i] = rows[i]
                /\ rows[i].status = "interrupted" =>
                       Shown[i].status = "visible" /\ Shown[i] # rows[i]
<1>1. rows \in [1..Len(rows) -> RowType] /\ Len(rows) \in Nat /\ DOMAIN rows = 1..Len(rows)
  BY LenProperties DEF HistoryTyped, RowsTyped, PromptsTyped, CountsTyped, WorkTyped
<1>2. \A i \in 1..Len(rows) : [rows[i] EXCEPT !.status = "visible"] \in RowType
  BY <1>1 DEF RowType
<1>3. Shown \in [1..Len(rows) -> RowType]
  BY <1>1, <1>2 DEF Shown
<1>4. \A i \in 1..Len(rows) : rows[i] \in RowType
  BY <1>1
<1>5. \A i \in 1..Len(rows) :
        Shown[i] = IF rows[i].status = "interrupted" THEN [rows[i] EXCEPT !.status = "visible"]
                   ELSE rows[i]
  BY <1>1 DEF Shown
<1>6. Shown \in Seq(RowType) /\ Len(Shown) = Len(rows)
  BY <1>1, <1>3, RowsAreSeq
<1> QED
  BY <1>4, <1>5, <1>6 DEF RowType

\* Appending a row leaves the others in place.
LEMMA Appended ==
    ASSUME NEW q \in Seq(RowType), NEW r \in RowType
    PROVE  /\ Append(q, r) \in Seq(RowType) /\ Len(Append(q, r)) = Len(q) + 1
           /\ Append(q, r)[Len(q) + 1] = r
           /\ \A i \in 1..Len(q) : Append(q, r)[i] = q[i]
BY AppendProperties

\* The row an action writes.
LEMMA RowIs ==
    ASSUME HistoryTyped, NEW kind \in {"visible", "interrupted", "running_checkpoint"},
           NEW b \in BOOLEAN, NEW by \in Agents \cup {"user"}
    PROVE  /\ Row(kind, b, by) \in RowType
           /\ Row(kind, b, by).seq = next /\ Row(kind, b, by).turn = turns
           /\ Row(kind, b, by).status = kind /\ Row(kind, b, by).admitted = b
           /\ Row(kind, b, by).by = by
BY DEF HistoryTyped, RowsTyped, PromptsTyped, CountsTyped, WorkTyped, Row, RowType

\* A row that changes its status keeps what it is otherwise.
Restated(i, kind) == [rows EXCEPT ![i].status = kind]

\* Such a row is a row, and the others stay.
LEMMA RestatedIs ==
    ASSUME HistoryTyped, NEW i \in 1..Len(rows), NEW kind \in {"visible", "interrupted", "cleared"}
    PROVE  LET new == Restated(i, kind)
           IN  /\ new \in Seq(RowType) /\ Len(new) = Len(rows) /\ DOMAIN new = 1..Len(rows)
               /\ new[i].status = kind
               /\ \A j \in 1..Len(rows) :
                    /\ new[j].seq = rows[j].seq /\ new[j].turn = rows[j].turn
                    /\ new[j].admitted = rows[j].admitted /\ new[j].by = rows[j].by
                    /\ j # i => new[j] = rows[j]
<1> DEFINE r == [rows[i] EXCEPT !.status = kind]
<1>1. rows \in Seq(RowType) /\ rows[i] \in RowType
  BY ElementOfSeq DEF HistoryTyped, RowsTyped, PromptsTyped, CountsTyped, WorkTyped
<1>2. r \in RowType /\ r.status = kind /\ r.seq = rows[i].seq /\ r.turn = rows[i].turn
      /\ r.admitted = rows[i].admitted /\ r.by = rows[i].by
  BY <1>1 DEF RowType
<1>3. Restated(i, kind) = [rows EXCEPT ![i] = r]
  BY DEF Restated
<1> HIDE DEF r
<1>4. /\ [rows EXCEPT ![i] = r] \in Seq(RowType) /\ Len([rows EXCEPT ![i] = r]) = Len(rows)
      /\ \A j \in 1..Len(rows) : [rows EXCEPT ![i] = r][j] = IF j = i THEN r ELSE rows[j]
  BY <1>1, <1>2, ExceptSeq
<1>5. DOMAIN [rows EXCEPT ![i] = r] = 1..Len(rows)
  BY <1>4, LenProperties
<1> QED
  BY <1>2, <1>3, <1>4, <1>5

\* A claimed message takes its place and its turn.
Claimed(i, at, n) == [rows EXCEPT ![i].seq = at, ![i].admitted = TRUE, ![i].turn = n]

ClaimedRow(r, at, n) == [r EXCEPT !.seq = at, !.admitted = TRUE, !.turn = n]

\* A claimed message keeps its author and its status.
LEMMA ClaimedRowIs ==
    ASSUME NEW r \in RowType, NEW at, at \in Nat \ {0}, NEW n, n \in Nat
    PROVE  /\ ClaimedRow(r, at, n) \in RowType
           /\ ClaimedRow(r, at, n).seq = at /\ ClaimedRow(r, at, n).turn = n
           /\ ClaimedRow(r, at, n).admitted = TRUE
           /\ ClaimedRow(r, at, n).status = r.status /\ ClaimedRow(r, at, n).by = r.by
BY DEF ClaimedRow, RowType

\* The other rows stay.
LEMMA ClaimedIs ==
    ASSUME HistoryTyped, NEW i \in 1..Len(rows), NEW at, at \in Nat \ {0}, NEW n, n \in Nat
    PROVE  /\ Claimed(i, at, n) \in Seq(RowType) /\ Len(Claimed(i, at, n)) = Len(rows)
           /\ DOMAIN Claimed(i, at, n) = 1..Len(rows)
           /\ Claimed(i, at, n)[i] = ClaimedRow(rows[i], at, n)
           /\ \A j \in 1..Len(rows) \ {i} : Claimed(i, at, n)[j] = rows[j]
<1> DEFINE r == ClaimedRow(rows[i], at, n)
<1>1. rows \in Seq(RowType) /\ rows[i] \in RowType /\ DOMAIN rows = 1..Len(rows)
  BY ElementOfSeq, LenProperties DEF HistoryTyped, RowsTyped
<1>2. r \in RowType
  BY <1>1, ClaimedRowIs
<1>3. Claimed(i, at, n) = [rows EXCEPT ![i] = r]
  BY <1>1 DEF Claimed, ClaimedRow
<1>6. r = ClaimedRow(rows[i], at, n)
  OBVIOUS
<1> HIDE DEF r
<1>4. /\ [rows EXCEPT ![i] = r] \in Seq(RowType) /\ Len([rows EXCEPT ![i] = r]) = Len(rows)
      /\ \A j \in 1..Len(rows) : [rows EXCEPT ![i] = r][j] = IF j = i THEN r ELSE rows[j]
  BY <1>1, <1>2, ExceptSeq
<1>5. DOMAIN [rows EXCEPT ![i] = r] = 1..Len(rows)
  BY <1>4, LenProperties
<1> QED
  BY <1>2, <1>3, <1>4, <1>5, <1>6

\* What was unfinished when the server stopped was interrupted.
Stopped == [i \in DOMAIN rows |->
    IF rows[i].status = "running_checkpoint" THEN [rows[i] EXCEPT !.status = "interrupted"]
    ELSE rows[i]]

\* Nothing else changes when the server stops.
LEMMA StoppedIs ==
    ASSUME HistoryTyped
    PROVE  /\ Stopped \in Seq(RowType) /\ Len(Stopped) = Len(rows)
           /\ DOMAIN Stopped = 1..Len(rows)
           /\ \A i \in 1..Len(rows) :
                /\ Stopped[i].seq = rows[i].seq /\ Stopped[i].turn = rows[i].turn
                /\ Stopped[i].admitted = rows[i].admitted /\ Stopped[i].by = rows[i].by
                /\ rows[i].status # "running_checkpoint" => Stopped[i] = rows[i]
                /\ rows[i].status = "running_checkpoint" => Stopped[i].status = "interrupted"
<1>1. rows \in [1..Len(rows) -> RowType] /\ Len(rows) \in Nat /\ DOMAIN rows = 1..Len(rows)
  BY LenProperties DEF HistoryTyped, RowsTyped, PromptsTyped, CountsTyped, WorkTyped
<1>2. \A i \in 1..Len(rows) : [rows[i] EXCEPT !.status = "interrupted"] \in RowType
  BY <1>1 DEF RowType
<1>3. Stopped \in [1..Len(rows) -> RowType]
  BY <1>1, <1>2 DEF Stopped
<1>4. \A i \in 1..Len(rows) : rows[i] \in RowType
  BY <1>1
<1>5. \A i \in 1..Len(rows) :
        Stopped[i] = IF rows[i].status = "running_checkpoint"
                     THEN [rows[i] EXCEPT !.status = "interrupted"] ELSE rows[i]
  BY <1>1 DEF Stopped
<1>6. Stopped \in Seq(RowType) /\ Len(Stopped) = Len(rows) /\ DOMAIN Stopped = 1..Len(rows)
  BY <1>1, <1>3, RowsAreSeq
<1> QED
  BY <1>4, <1>5, <1>6 DEF RowType

\* A prompt is kept as it was, or deleted; kept, nothing up to its place changed.
LEMMA KeptIs ==
    ASSUME HistoryTyped, NEW P, NEW a \in Agents
    PROVE  \/ Kept(P)[a] = None
           \/ Kept(P)[a] = saved[a] /\ \A s \in P : ~(s <= saved[a].through)
BY DEF Kept

\* What is left of the saved prompts are prompts.
LEMMA KeptTyped == ASSUME HistoryTyped, NEW P PROVE Kept(P) \in [Agents -> Prompt]
BY DEF Kept, HistoryTyped, RowsTyped, PromptsTyped, CountsTyped, WorkTyped, Prompt, None

\* A bounded set of numbers has a greatest one.
LEMMA GreatestExists ==
    ASSUME NEW n \in Nat, NEW S \in SUBSET (0..n), S # {}
    PROVE  \E m \in S : \A y \in S : y <= m
<1> DEFINE R == {p \in Nat \X Nat : p[1] < p[2]}
           D == {n - y : y \in S}
<1>1. IsWellFoundedOn(R, Nat)
  BY NatLessThanWellFounded DEF OpToRel
<1> HIDE DEF R
<1>2. D \subseteq Nat /\ D # {}
  <2>1. \A y \in S : n - y \in Nat
    OBVIOUS
  <2>2. PICK y \in S : TRUE
    OBVIOUS
  <2>3. n - y \in D
    BY <2>2
  <2> QED
    BY <2>1, <2>3
<1>3. PICK d \in D : \A e \in D : ~(<<e, d>> \in R)
  BY <1>1, <1>2, WFMin
<1>4. PICK m \in S : d = n - m
  BY <1>3
<1>5. ASSUME NEW y \in S PROVE y <= m
  <2>1. n - y \in D
    OBVIOUS
  <2>2. ~(n - y < d)
    BY <1>2, <1>3, <2>1 DEF R
  <2> QED
    BY <1>4, <2>2
<1> QED
  BY <1>5

\* The place the rows read reach: that of the last one, or the saved one.
Later == {i \in DOMAIN rows : Visible(i) /\ rows[i].seq > read.through}
LastOf(later) ==
    CHOOSE s \in {read.through} \cup {rows[i].seq : i \in later} :
        \A i \in later : rows[i].seq <= s

\* No row that is read is beyond that place.
LEMMA LastIs ==
    ASSUME HistoryTyped, Placed
    PROVE  /\ LastOf(Later) \in {read.through} \cup {rows[i].seq : i \in Later}
           /\ \A i \in Later : rows[i].seq <= LastOf(Later)
<1> DEFINE S == {read.through} \cup {rows[i].seq : i \in Later}
           n == read.through + next
<1>1. DOMAIN rows = 1..Len(rows) /\ \A i \in 1..Len(rows) : rows[i] \in RowType
  BY LenProperties, ElementOfSeq DEF HistoryTyped, RowsTyped
<1>2. read.through \in Nat /\ next \in Nat /\ n \in Nat
  BY DEF HistoryTyped, RowsTyped, PromptsTyped, CountsTyped, WorkTyped, Prompt
<1>3. \A i \in Later : rows[i].seq \in Nat /\ rows[i].seq < next
  BY <1>1 DEF Later, Placed, RowType
<1>4. S \in SUBSET (0..n) /\ S # {}
  BY <1>2, <1>3
<1> HIDE DEF n
<1>5. PICK m \in S : \A y \in S : y <= m
  BY <1>2, <1>4, GreatestExists
<1>6. \A i \in Later : rows[i].seq \in S
  OBVIOUS
<1>7. \E s \in S : \A i \in Later : rows[i].seq <= s
  BY <1>5, <1>6
<1> QED
  BY <1>7 DEF LastOf

-----------------------------------------------------------------------------
(* Types                                                                   *)

\* A new thread has its types.
LEMMA InitTyped == HistoryInit => HistoryTyped
<1> SUFFICES ASSUME HistoryInit PROVE HistoryTyped
  OBVIOUS
<1>1. <<>> \in Seq(RowType) /\ Len(<<>>) = 0 /\ <<>> \in Seq(1..0)
  BY EmptySeq
<1>2. None \in Prompt
  BY DEF None, Prompt
<1> QED
  <2>1. RowsTyped
    BY <1>1 DEF HistoryInit, RowsTyped
  <2>2. PromptsTyped
    BY <1>2 DEF HistoryInit, PromptsTyped
  <2>3. CountsTyped
    BY <1>1 DEF HistoryInit, CountsTyped
  <2>4. WorkTyped
    BY DEF HistoryInit, WorkTyped
  <2> QED
    BY <2>1, <2>2, <2>3, <2>4 DEF HistoryTyped

\* What an agent said is stored.
LEMMA StoredTyped ==
    ASSUME HistoryTyped, Placed, AtWork, step = "running",
           NEW kind \in {"visible", "interrupted"}, Stored(kind)
    PROVE  /\ rows' \in Seq(RowType) /\ Len(rows') >= Len(rows)
           /\ next' \in Nat \ {0} /\ saved' \in [Agents -> Prompt]
<1>1. CASE row = 0
  <2>1. Row(kind, TRUE, agent) \in RowType
    BY RowIs DEF AtWork
  <2>3. rows' = Append(rows, Row(kind, TRUE, agent))
    BY <1>1 DEF Stored
  <2>2. rows' \in Seq(RowType) /\ Len(rows') = Len(rows) + 1
    BY <2>1, <2>3, Appended DEF HistoryTyped, RowsTyped, PromptsTyped, CountsTyped, WorkTyped
  <2> QED
    BY <1>1, <2>2, LenProperties DEF Stored, HistoryTyped, RowsTyped, PromptsTyped, CountsTyped
<1>2. CASE row # 0
  <2>1. row \in 1..Len(rows)
    BY <1>2, LenProperties DEF HistoryTyped, RowsTyped, PromptsTyped, CountsTyped, WorkTyped
  <2>4. rows' = Restated(row, kind)
    BY <1>2 DEF Stored, Rewritten, Restated
  <2>2. rows' \in Seq(RowType) /\ Len(rows') = Len(rows)
    BY <2>1, <2>4, RestatedIs
  <2>3. saved' \in [Agents -> Prompt] /\ next' = next
    BY <1>2, KeptTyped DEF Stored, Rewritten
  <2> QED
    BY <2>2, <2>3, LenProperties DEF HistoryTyped, CountsTyped
<1> QED
  BY <1>1, <1>2

\* Every step keeps the types.
LEMMA StepTyped ==
    ASSUME HistoryTyped, Placed, AtWork, [HistoryNext]_historyVars
    PROVE  HistoryTyped'
<1> USE DEF working
<1>0. /\ Len(rows) \in Nat /\ DOMAIN rows = 1..Len(rows)
      /\ \A i \in 1..Len(rows) : rows[i] \in RowType
  BY LenProperties, ElementOfSeq DEF HistoryTyped, RowsTyped
<1>a. ASSUME Len(rows') \in Nat, Len(rows) <= Len(rows') PROVE queue \in Seq(1..Len(rows'))
  <2>1. 1..Len(rows) \subseteq 1..Len(rows')
    BY <1>0, <1>a
  <2>2. queue \in Seq(1..Len(rows))
    BY DEF HistoryTyped, RowsTyped
  <2> QED
    BY <2>1, <2>2, SeqMonotonic
<1>1. ASSUME Send PROVE HistoryTyped'
  <2>1. PICK r \in RowType : r = Row("visible", FALSE, "user")
    BY RowIs
  <2>7. rows' = Append(Shown, r) \/ rows' = Append(rows, r)
    BY <1>1, <2>1 DEF Send
  <2>8. Shown \in Seq(RowType) /\ Len(Shown) = Len(rows) /\ rows \in Seq(RowType)
    BY ShownIs DEF HistoryTyped, RowsTyped
  <2>2. rows' \in Seq(RowType) /\ Len(rows') = Len(rows) + 1
    BY <2>7, <2>8, Appended
  <2>3. saved' \in [Agents -> Prompt]
    BY <1>1, KeptTyped DEF Send, HistoryTyped, RowsTyped, PromptsTyped, CountsTyped, WorkTyped
  <2>4. queue \in Seq(1..Len(rows')) /\ Len(rows) + 1 \in 1..Len(rows')
    BY <1>0, <1>a, <2>2
  <2>5. queue' \in Seq(1..Len(rows'))
    BY <1>1, <2>4, AppendProperties DEF Send
  <2>6. /\ next' = next + 1 /\ status' \in {status, "active"} /\ step' = step /\ agent' = agent
        /\ read' = read /\ safe' = safe /\ row' = row /\ turns' = turns /\ used' = used
    BY <1>1 DEF Send
  <2>97. RowsTyped'
    BY <1>0, <1>1, <2>2, <2>3, <2>5, <2>6 DEF RowsTyped, HistoryTyped
  <2>98. PromptsTyped'
    BY <1>0, <1>1, <2>2, <2>3, <2>5, <2>6 DEF PromptsTyped, HistoryTyped
  <2>99. CountsTyped'
    BY <1>0, <1>1, <2>2, <2>3, <2>5, <2>6 DEF CountsTyped, HistoryTyped
  <2>100. WorkTyped'
    BY <1>0, <1>1, <2>2, <2>3, <2>5, <2>6 DEF WorkTyped, HistoryTyped
  <2> QED
    BY <2>97, <2>98, <2>99, <2>100 DEF HistoryTyped
<1>2. ASSUME Delete PROVE HistoryTyped'
  <2>1. PICK i \in 1..Len(rows) : Rewritten([rows EXCEPT ![i].status = "cleared"])
    BY <1>0, <1>2 DEF Delete
  <2>2. rows' \in Seq(RowType) /\ Len(rows') = Len(rows)
    BY <2>1, RestatedIs DEF Rewritten, Restated
  <2>3. saved' \in [Agents -> Prompt]
    BY <2>1, KeptTyped DEF Rewritten
  <2>4. used' \in [deletes : Nat, crashes : Nat]
    BY <1>2 DEF Delete, HistoryTyped, RowsTyped, PromptsTyped, CountsTyped, WorkTyped
  <2> QED
    BY <1>2, <2>2, <2>3, <2>4 DEF Delete, HistoryTyped, RowsTyped, PromptsTyped, CountsTyped, WorkTyped
<1>3. ASSUME ClaimMessage PROVE HistoryTyped'
  <2> DEFINE i == Head(queue)
             at == IF Overtaken(i) THEN next ELSE rows[i].seq
  <2>1. i \in 1..Len(rows) /\ queue' \in Seq(1..Len(rows))
    BY <1>3, HeadTailProperties DEF ClaimMessage, HistoryTyped, RowsTyped, PromptsTyped, CountsTyped, WorkTyped
  <2> HIDE DEF i
  <2>7. rows[i].seq \in Nat \ {0} /\ next \in Nat \ {0} /\ turns \in Nat
    BY <1>0, <2>1 DEF HistoryTyped, RowsTyped, PromptsTyped, CountsTyped, WorkTyped, RowType
  <2>8. (next' = IF Overtaken(i) THEN next + 1 ELSE next) /\ turns' = turns + 1
    BY <1>3 DEF ClaimMessage, i
  <2>2. at \in Nat \ {0} /\ next' \in Nat \ {0} /\ turns' = turns + 1 /\ turns' \in Nat
    BY <2>7, <2>8
  <2> HIDE DEF at
  <2>3. Rewritten([rows EXCEPT ![i].seq = at, ![i].admitted = TRUE, ![i].turn = turns + 1])
    BY <1>3 DEF ClaimMessage, at, i
  <2>6. turns + 1 \in Nat
    BY <2>2
  <2>9. rows' = Claimed(i, at, turns + 1)
    BY <2>3 DEF Rewritten, Claimed
  <2>4. rows' \in Seq(RowType) /\ Len(rows') = Len(rows)
    BY <2>1, <2>2, <2>6, <2>9, ClaimedIs
  <2>5. saved' \in [Agents -> Prompt]
    BY <2>3, KeptTyped DEF Rewritten
  <2> QED
    BY <1>3, <2>1, <2>2, <2>4, <2>5 DEF ClaimMessage, HistoryTyped, RowsTyped, PromptsTyped, CountsTyped, WorkTyped
<1>4. ASSUME LoadCheckpoint PROVE HistoryTyped'
  BY <1>4 DEF LoadCheckpoint, HistoryTyped, RowsTyped, PromptsTyped, CountsTyped, WorkTyped
<1>5. ASSUME LoadRows PROVE HistoryTyped'
  <2>1. read' = [through |-> LastOf(Later), has |-> read.has \cup Later]
    BY <1>5 DEF LoadRows, Later, LastOf
  <2>4. read.through \in Nat /\ \A i \in Later : rows[i].seq \in Nat
    BY <1>0 DEF HistoryTyped, RowsTyped, PromptsTyped, CountsTyped, WorkTyped, Prompt, RowType, Later
  <2>2. LastOf(Later) \in Nat
    BY <2>4, LastIs
  <2>3. read' \in Prompt
    BY <1>0, <2>1, <2>2 DEF HistoryTyped, RowsTyped, PromptsTyped, CountsTyped, WorkTyped, Prompt, Later
  <2> QED
    BY <1>5, <2>3 DEF LoadRows, HistoryTyped, RowsTyped, PromptsTyped, CountsTyped, WorkTyped
<1>6. ASSUME Save PROVE HistoryTyped'
  <2>1. saved' \in [Agents -> Prompt]
    BY <1>6 DEF Save, HistoryTyped, RowsTyped, PromptsTyped, CountsTyped, WorkTyped
  <2> QED
    BY <1>6, <2>1 DEF Save, HistoryTyped, RowsTyped, PromptsTyped, CountsTyped, WorkTyped
<1>7. ASSUME Checkpoint PROVE HistoryTyped'
  <2>1. Row("running_checkpoint", TRUE, agent) \in RowType
    BY <1>7, RowIs DEF Checkpoint, AtWork
  <2>2. rows' \in Seq(RowType) /\ Len(rows') = Len(rows) + 1
    BY <1>7, <2>1, Appended DEF Checkpoint, HistoryTyped, RowsTyped, PromptsTyped, CountsTyped, WorkTyped
  <2>3. queue \in Seq(1..Len(rows'))
    BY <1>0, <1>a, <2>2
  <2>4. /\ row' = Len(rows) + 1 /\ next' = next + 1 /\ safe' = FALSE /\ queue' = queue
        /\ status' = status /\ saved' = saved /\ step' = step /\ agent' = agent
        /\ read' = read /\ turns' = turns /\ used' = used
    BY <1>7 DEF Checkpoint
  <2>97. RowsTyped'
    BY <1>0, <2>2, <2>3, <2>4 DEF RowsTyped, HistoryTyped
  <2>98. PromptsTyped'
    BY <1>0, <2>2, <2>3, <2>4 DEF PromptsTyped, HistoryTyped
  <2>99. CountsTyped'
    BY <1>0, <2>2, <2>3, <2>4 DEF CountsTyped, HistoryTyped
  <2>100. WorkTyped'
    BY <1>0, <2>2, <2>3, <2>4 DEF WorkTyped, HistoryTyped
  <2> QED
    BY <2>97, <2>98, <2>99, <2>100 DEF HistoryTyped
<1>b. ASSUME step = "running", NEW kind \in {"visible", "interrupted"}, Stored(kind),
             NEW left \in {"turn", "idle"}, Rested(left),
             status' \in {"active", "paused", "running"}
      PROVE  HistoryTyped'
  <2>1. /\ rows' \in Seq(RowType) /\ Len(rows') >= Len(rows)
        /\ next' \in Nat \ {0} /\ saved' \in [Agents -> Prompt]
    BY <1>b, StoredTyped
  <2>2. Len(rows') \in Nat /\ queue \in Seq(1..Len(rows'))
    BY <1>0, <1>a, <2>1, LenProperties
  <2>3. /\ step' = left /\ agent' = Nobody /\ read' = None /\ safe' = FALSE /\ row' = 0
        /\ queue' = queue /\ turns' = turns /\ used' = used
    BY <1>b DEF Rested
  <2>4. None \in Prompt
    BY DEF None, Prompt
  <2>97. RowsTyped'
    BY <1>b, <2>1, <2>2, <2>3, <2>4 DEF RowsTyped, HistoryTyped
  <2>98. PromptsTyped'
    BY <1>b, <2>1, <2>2, <2>3, <2>4 DEF PromptsTyped, HistoryTyped
  <2>99. CountsTyped'
    BY <1>b, <2>1, <2>2, <2>3, <2>4 DEF CountsTyped, HistoryTyped
  <2>100. WorkTyped'
    BY <1>b, <2>1, <2>2, <2>3, <2>4 DEF WorkTyped, HistoryTyped
  <2> QED
    BY <2>97, <2>98, <2>99, <2>100 DEF HistoryTyped
<1>8. ASSUME FinishAgent PROVE HistoryTyped'
  <2>1. PICK left \in {"turn", "idle"} : Rested(left)
    BY <1>8 DEF FinishAgent
  <2>2. Stored("visible") /\ status' \in {"active", "paused", "running"}
    BY <1>8 DEF FinishAgent, HistoryTyped, RowsTyped, PromptsTyped, CountsTyped, WorkTyped
  <2> QED
    BY <1>8, <1>b, <2>1, <2>2 DEF FinishAgent
<1>9. ASSUME InterruptAgent PROVE HistoryTyped'
  <2>1. PICK left \in {"turn", "idle"} : Rested(left)
    BY <1>9 DEF InterruptAgent
  <2> QED
    BY <1>9, <1>b, <2>1 DEF InterruptAgent
<1>10. ASSUME Fail PROVE HistoryTyped'
  <2>1. /\ rows' = rows /\ next' = next /\ queue' = queue /\ saved' = saved
        /\ turns' = turns /\ used' = used /\ status' \in {status, "paused"}
        /\ step' = "idle" /\ agent' = Nobody /\ read' = None /\ safe' = FALSE /\ row' = 0
    BY <1>10 DEF Fail, Rested
  <2>2. None \in Prompt
    BY DEF None, Prompt
  <2>97. RowsTyped'
    BY <1>0, <2>1, <2>2 DEF RowsTyped, HistoryTyped
  <2>98. PromptsTyped'
    BY <1>0, <2>1, <2>2 DEF PromptsTyped, HistoryTyped
  <2>99. CountsTyped'
    BY <1>0, <2>1, <2>2 DEF CountsTyped, HistoryTyped
  <2>100. WorkTyped'
    BY <1>0, <2>1, <2>2 DEF WorkTyped, HistoryTyped
  <2> QED
    BY <2>97, <2>98, <2>99, <2>100 DEF HistoryTyped
<1>11. ASSUME Resume PROVE HistoryTyped'
  <2>1. PICK i \in 1..Len(rows) :
          /\ rows[i].status = "interrupted" /\ row' = i /\ agent' = rows[i].by
          /\ read' = [through |-> 0, has |-> {j \in DOMAIN rows : Visible(j)} \cup {i}]
    BY <1>0, <1>11 DEF Resume
  <2>2. read' \in Prompt
    BY <1>0, <2>1 DEF Prompt
  <2>3. agent' \in Agents
    BY <2>1 DEF Placed
  <2>4. /\ rows' = rows /\ next' = next /\ queue' = queue /\ saved' = saved
        /\ turns' = turns /\ used' = used
        /\ status' = "running" /\ step' = "running" /\ safe' = FALSE
    BY <1>11 DEF Resume
  <2>97. RowsTyped'
    BY <1>0, <2>1, <2>2, <2>3, <2>4 DEF RowsTyped, HistoryTyped
  <2>98. PromptsTyped'
    BY <1>0, <2>1, <2>2, <2>3, <2>4 DEF PromptsTyped, HistoryTyped
  <2>99. CountsTyped'
    BY <1>0, <2>1, <2>2, <2>3, <2>4 DEF CountsTyped, HistoryTyped
  <2>100. WorkTyped'
    BY <1>0, <2>1, <2>2, <2>3, <2>4 DEF WorkTyped, HistoryTyped
  <2> QED
    BY <2>97, <2>98, <2>99, <2>100 DEF HistoryTyped
<1>12. ASSUME StopServer PROVE HistoryTyped'
  <2>1. rows' \in Seq(RowType) /\ Len(rows') = Len(rows)
    BY <1>12, StoppedIs DEF StopServer, Rewritten, Stopped
  <2>2. saved' \in [Agents -> Prompt]
    BY <1>12, KeptTyped DEF StopServer, Rewritten
  <2>5. used' = [used EXCEPT !.crashes = @ + 1]
    BY <1>12 DEF StopServer
  <2>3. used' \in [deletes : Nat, crashes : Nat]
    BY <2>5 DEF HistoryTyped, RowsTyped, PromptsTyped, CountsTyped, WorkTyped
  <2>4. status' \in {"active", "paused", "running"}
    BY <1>12 DEF StopServer, HistoryTyped, RowsTyped, PromptsTyped, CountsTyped, WorkTyped
  <2>6. /\ next' = next /\ queue' = queue /\ turns' = turns /\ step' = "idle"
        /\ agent' = Nobody /\ read' = None /\ safe' = FALSE /\ row' = 0
    BY <1>12 DEF StopServer
  <2>7. None \in Prompt
    BY DEF None, Prompt
  <2>97. RowsTyped'
    BY <1>0, <2>1, <2>2, <2>3, <2>4, <2>6, <2>7 DEF RowsTyped, HistoryTyped
  <2>98. PromptsTyped'
    BY <1>0, <2>1, <2>2, <2>3, <2>4, <2>6, <2>7 DEF PromptsTyped, HistoryTyped
  <2>99. CountsTyped'
    BY <1>0, <2>1, <2>2, <2>3, <2>4, <2>6, <2>7 DEF CountsTyped, HistoryTyped
  <2>100. WorkTyped'
    BY <1>0, <2>1, <2>2, <2>3, <2>4, <2>6, <2>7 DEF WorkTyped, HistoryTyped
  <2> QED
    BY <2>97, <2>98, <2>99, <2>100 DEF HistoryTyped
<1>13. CASE UNCHANGED historyVars
  BY <1>13 DEF historyVars, HistoryTyped, RowsTyped, PromptsTyped, CountsTyped, WorkTyped
<1> QED
  BY <1>1, <1>2, <1>3, <1>4, <1>5, <1>6, <1>7, <1>8, <1>9, <1>10, <1>11, <1>12, <1>13
     DEF HistoryNext

-----------------------------------------------------------------------------
(* Order                                                                   *)

\* The rows keep their places, turns and authors, and only what an agent wrote
\* is interrupted.
Unmoved ==
    /\ turns' = turns
    /\ \A i \in 1..Len(rows) :
         /\ rows'[i].seq = rows[i].seq /\ rows'[i].turn = rows[i].turn
         /\ rows'[i].admitted = rows[i].admitted /\ rows'[i].by = rows[i].by
         /\ rows'[i].status \in {"interrupted", "running_checkpoint"} =>
                rows[i].admitted = TRUE /\ rows[i].by \in Agents

\* No row is added, or one at the end of the history.
NoneAdded == Len(rows') = Len(rows) /\ next' = next
OneAdded ==
    /\ Len(rows') = Len(rows) + 1 /\ next' = next + 1
    /\ rows'[Len(rows) + 1].seq = next /\ rows'[Len(rows) + 1].turn = turns
    /\ \/ /\ rows'[Len(rows) + 1].admitted = FALSE
          /\ rows'[Len(rows) + 1].status = "visible"
       \/ rows'[Len(rows) + 1].admitted = TRUE /\ rows'[Len(rows) + 1].by \in Agents

\* Rows and counters at the bounds their types give.
LEMMA TypesOfRows ==
    HistoryTyped => /\ DOMAIN rows = 1..Len(rows) /\ Len(rows) \in Nat
                    /\ next \in Nat \ {0} /\ turns \in Nat
                    /\ \A i \in 1..Len(rows) : rows[i] \in RowType
BY LenProperties, ElementOfSeq DEF HistoryTyped, RowsTyped, CountsTyped

\* The same after a step.
LEMMA TypesOfRowsAfter ==
    HistoryTyped' => /\ DOMAIN rows' = 1..Len(rows') /\ Len(rows') \in Nat
                     /\ next' \in Nat \ {0} /\ turns' \in Nat
                     /\ \A i \in 1..Len(rows') : rows'[i] \in RowType
BY LenProperties, ElementOfSeq DEF HistoryTyped, RowsTyped, CountsTyped

\* Rows that stay where they are, and one after them, keep the history in order.
LEMMA UnmovedKeepsOrder ==
    ASSUME HistoryTyped, HistoryTyped', Placed, HistoryInOrder,
           Unmoved, NoneAdded \/ OneAdded
    PROVE  Placed' /\ HistoryInOrder'
<1>1. /\ DOMAIN rows = 1..Len(rows) /\ Len(rows) \in Nat
      /\ next \in Nat \ {0} /\ turns \in Nat
      /\ \A i \in 1..Len(rows) : rows[i] \in RowType
  BY TypesOfRows
<1>2. /\ DOMAIN rows' = 1..Len(rows') /\ Len(rows') \in Nat
      /\ next' \in Nat \ {0} /\ turns' \in Nat
      /\ \A i \in 1..Len(rows') : rows'[i] \in RowType
  BY TypesOfRowsAfter
<1>3. Placed'
  <2>1. SUFFICES ASSUME NEW i \in 1..Len(rows')
        PROVE  /\ rows'[i].seq < next'
               /\ rows'[i].admitted => rows'[i].turn <= turns'
               /\ rows'[i].status \in {"interrupted", "running_checkpoint"} =>
                      rows'[i].admitted /\ rows'[i].by \in Agents
    BY DEF Placed
  <2>2. CASE i \in 1..Len(rows)
    <3>1. rows[i].seq < next /\ next <= next'
      BY <1>1, <2>2 DEF Placed, NoneAdded, OneAdded
    <3>2. rows'[i].seq < next'
      BY <1>1, <1>2, <2>2, <3>1 DEF Unmoved, RowType
    <3> QED
      BY <1>1, <2>2, <3>2 DEF Placed, Unmoved
  <2>3. CASE i \notin 1..Len(rows)
    <3>1. OneAdded /\ i = Len(rows) + 1
      BY <1>1, <2>3 DEF NoneAdded, OneAdded
    <3>2. rows'[i].seq < next'
      BY <1>1, <3>1 DEF OneAdded
    <3>3. rows'[i].turn <= turns'
      BY <1>1, <3>1 DEF OneAdded, Unmoved
    <3> QED
      BY <3>1, <3>2, <3>3 DEF OneAdded
  <2> QED
    BY <2>2, <2>3
<1>4. HistoryInOrder'
  <2>1. SUFFICES ASSUME NEW i \in 1..Len(rows'), NEW j \in 1..Len(rows'),
                        rows'[i].admitted, rows'[j].admitted, rows'[i].seq < rows'[j].seq
        PROVE  /\ rows'[i].turn <= rows'[j].turn
               /\ rows'[i].turn = rows'[j].turn => rows'[j].by # "user"
    BY <1>2 DEF HistoryInOrder
  <2>2. CASE i \in 1..Len(rows) /\ j \in 1..Len(rows)
    BY <1>1, <2>1, <2>2 DEF HistoryInOrder, Unmoved
  <2>3. CASE j \notin 1..Len(rows)
    <3>1. OneAdded /\ j = Len(rows) + 1 /\ i \in 1..Len(rows)
      <4>1. OneAdded /\ j = Len(rows) + 1
        BY <1>1, <2>3 DEF NoneAdded, OneAdded
      <4>2. i # j
        BY <1>2, <2>1 DEF RowType
      <4> QED
        BY <1>1, <4>1, <4>2 DEF OneAdded
    <3>2. rows'[i].turn <= turns /\ rows'[j].turn = turns
      BY <2>1, <3>1 DEF OneAdded, Unmoved, Placed
    <3>3. rows'[j].by # "user"
      BY <2>1, <3>1, HistoryAssumption DEF OneAdded
    <3> QED
      BY <3>2, <3>3
  <2>4. CASE i \notin 1..Len(rows) /\ j \in 1..Len(rows)
    <3>1. rows'[i].seq = next
      BY <1>1, <2>4 DEF NoneAdded, OneAdded
    <3>2. rows'[j].seq < next /\ rows'[j].seq \in Nat
      BY <1>1, <2>4 DEF Placed, Unmoved, RowType
    <3> QED
      BY <1>1, <2>1, <3>1, <3>2
  <2> QED
    BY <2>2, <2>3, <2>4
<1> QED
  BY <1>3, <1>4

\* A message that is claimed comes after everything that is history.
LEMMA ClaimKeepsOrder ==
    ASSUME HistoryTyped, HistoryTyped', Placed, HistoryInOrder, ClaimMessage
    PROVE  /\ Placed' /\ HistoryInOrder'
           /\ Len(rows') = Len(rows) /\ next <= next' /\ turns' = turns + 1
           /\ \A i \in 1..Len(rows) : rows[i].admitted => rows'[i].admitted
<1>1. /\ DOMAIN rows = 1..Len(rows) /\ Len(rows) \in Nat
      /\ next \in Nat \ {0} /\ turns \in Nat
      /\ \A i \in 1..Len(rows) : rows[i] \in RowType
  BY TypesOfRows
<1>2. /\ DOMAIN rows' = 1..Len(rows') /\ Len(rows') \in Nat
      /\ next' \in Nat \ {0} /\ turns' \in Nat
      /\ \A i \in 1..Len(rows') : rows'[i] \in RowType
  BY TypesOfRowsAfter
<1> DEFINE c == Head(queue)
           at == IF Overtaken(c) THEN next ELSE rows[c].seq
<1>3. c \in 1..Len(rows)
  BY HeadTailProperties DEF ClaimMessage, HistoryTyped, RowsTyped
<1>4. (next' = IF Overtaken(c) THEN next + 1 ELSE next) /\ turns' = turns + 1
  BY DEF ClaimMessage
<1>5. rows' = Claimed(c, at, turns + 1)
  BY DEF ClaimMessage, Rewritten, Claimed
<1>6. \A j \in 1..Len(rows) \ {c} : rows[j].admitted => rows[j].seq < at
  <2>1. CASE Overtaken(c)
    BY <1>1, <2>1 DEF Placed
  <2>2. CASE ~Overtaken(c)
    BY <1>1, <1>3, <2>2 DEF Overtaken, RowType
  <2> QED
    BY <2>1, <2>2
<1>7. at \in Nat \ {0} /\ at < next' /\ next <= next'
  <2>1. CASE Overtaken(c)
    BY <1>1, <1>4, <2>1
  <2>2. CASE ~Overtaken(c)
    <3>1. rows[c].seq \in Nat \ {0} /\ rows[c].seq < next
      BY <1>1, <1>3 DEF RowType, Placed
    <3> QED
      BY <1>1, <1>4, <2>2, <3>1
  <2> QED
    BY <2>1, <2>2
<1> HIDE DEF c, at
<1>8. PICK p \in 1..Len(rows), a \in Nat \ {0}, n \in Nat : p = c /\ a = at /\ n = turns + 1
  BY <1>1, <1>3, <1>7
<1>a. rows[p] \in RowType
  BY <1>1
<1>9. /\ Len(rows') = Len(rows) /\ rows'[c] = ClaimedRow(rows[p], a, n)
      /\ \A j \in 1..Len(rows) \ {c} : rows'[j] = rows[j]
  <2>2. Len(Claimed(p, a, n)) = Len(rows)
    BY ClaimedIs
  <2>3. Claimed(p, a, n)[p] = ClaimedRow(rows[p], a, n)
    BY <1>1 DEF Claimed, ClaimedRow
  <2>4. \A j \in 1..Len(rows) \ {p} : Claimed(p, a, n)[j] = rows[j]
    BY <1>1 DEF Claimed
  <2> QED
    BY <1>5, <1>8, <2>2, <2>3, <2>4
<1>10. /\ rows'[c].seq = at /\ rows'[c].turn = turns + 1 /\ rows'[c].admitted = TRUE
       /\ rows'[c].status = rows[c].status /\ rows'[c].by = rows[c].by
  <2>2. /\ ClaimedRow(rows[p], a, n).seq = a
        /\ ClaimedRow(rows[p], a, n).turn = n
        /\ ClaimedRow(rows[p], a, n).admitted = TRUE
        /\ ClaimedRow(rows[p], a, n).status = rows[p].status
        /\ ClaimedRow(rows[p], a, n).by = rows[p].by
    BY <1>a DEF ClaimedRow, RowType
  <2> QED
    BY <1>8, <1>9, <2>2
<1>11. Placed'
  <2>1. SUFFICES ASSUME NEW i \in 1..Len(rows)
        PROVE  /\ rows'[i].seq < next'
               /\ rows'[i].admitted => rows'[i].turn <= turns'
               /\ rows'[i].status \in {"interrupted", "running_checkpoint"} =>
                      rows'[i].admitted /\ rows'[i].by \in Agents
    BY <1>9 DEF Placed
  <2>2. CASE i = c
    BY <1>1, <1>3, <1>4, <1>7, <1>10, <2>2 DEF Placed
  <2>3. CASE i # c
    <3>1. rows'[i] = rows[i] /\ rows[i].seq < next /\ rows[i].seq \in Nat /\ rows[i].turn \in Nat
      BY <1>1, <1>9, <2>3 DEF Placed, RowType
    <3> QED
      BY <1>1, <1>2, <1>4, <1>7, <3>1 DEF Placed
  <2> QED
    BY <2>2, <2>3
<1>12. HistoryInOrder'
  <2>1. SUFFICES ASSUME NEW i \in 1..Len(rows), NEW j \in 1..Len(rows),
                        rows'[i].admitted, rows'[j].admitted, rows'[i].seq < rows'[j].seq
        PROVE  /\ rows'[i].turn <= rows'[j].turn
               /\ rows'[i].turn = rows'[j].turn => rows'[j].by # "user"
    BY <1>2, <1>9 DEF HistoryInOrder
  <2>2. CASE i # c /\ j # c
    BY <1>1, <1>9, <2>1, <2>2 DEF HistoryInOrder
  <2>3. CASE j = c
    <3>1. i # c
      BY <1>2, <1>9, <2>1, <2>3 DEF RowType
    <3>2. rows'[i].turn <= turns /\ rows'[i].turn \in Nat
      BY <1>1, <1>9, <2>1, <3>1 DEF Placed, RowType
    <3> QED
      BY <1>1, <1>10, <2>3, <3>2
  <2>4. CASE i = c /\ j # c
    <3>1. rows'[j].seq < at /\ rows'[j].seq \in Nat
      BY <1>1, <1>6, <1>9, <2>1, <2>4 DEF RowType
    <3> QED
      BY <1>7, <1>10, <2>1, <2>4, <3>1
  <2> QED
    BY <2>2, <2>3, <2>4
<1>13. \A i \in 1..Len(rows) : rows[i].admitted => rows'[i].admitted
  BY <1>9, <1>10
<1> QED
  BY <1>4, <1>7, <1>9, <1>11, <1>12, <1>13

\* A row after the others, or after those shown again.
LEMMA AddedIs ==
    ASSUME HistoryTyped, Placed, NEW r \in RowType, rows' = Append(rows, r),
           next' = next + 1, turns' = turns, r.seq = next, r.turn = turns,
           \/ r.admitted = FALSE /\ r.status = "visible"
           \/ r.admitted = TRUE /\ r.by \in Agents
    PROVE  Unmoved /\ OneAdded
<1>1. \A i \in 1..Len(rows) : rows[i] \in RowType
  BY TypesOfRows
<1>2. /\ Len(rows') = Len(rows) + 1 /\ rows'[Len(rows) + 1] = r
      /\ \A i \in 1..Len(rows) : rows'[i] = rows[i]
  BY Appended DEF HistoryTyped, RowsTyped
<1>3. Unmoved
  BY <1>1, <1>2 DEF Unmoved, Placed, RowType
<1>4. OneAdded
  BY <1>2 DEF OneAdded
<1> QED
  BY <1>3, <1>4

\* The message that closes what was interrupted.
LEMMA AddedAfterShown ==
    ASSUME HistoryTyped, Placed, NEW r \in RowType, rows' = Append(Shown, r),
           next' = next + 1, turns' = turns, r.seq = next, r.turn = turns,
           r.admitted = FALSE, r.status = "visible"
    PROVE  Unmoved /\ OneAdded
<1>1. \A i \in 1..Len(rows) : rows[i] \in RowType
  BY TypesOfRows
<1>2. /\ Shown \in Seq(RowType) /\ Len(Shown) = Len(rows)
      /\ \A i \in 1..Len(rows) :
           /\ Shown[i].seq = rows[i].seq /\ Shown[i].turn = rows[i].turn
           /\ Shown[i].admitted = rows[i].admitted /\ Shown[i].by = rows[i].by
           /\ rows[i].status # "interrupted" => Shown[i] = rows[i]
           /\ rows[i].status = "interrupted" =>
                  Shown[i].status = "visible" /\ Shown[i] # rows[i]
  BY ShownIs
<1>3. /\ Len(rows') = Len(rows) + 1 /\ rows'[Len(rows) + 1] = r
      /\ \A i \in 1..Len(rows) : rows'[i] = Shown[i]
  BY <1>2, Appended
<1>4. \A i \in 1..Len(rows) : Shown[i].status \in {"interrupted", "running_checkpoint"} =>
          rows[i].admitted = TRUE /\ rows[i].by \in Agents
  BY <1>1, <1>2 DEF Placed, RowType
<1>5. Unmoved
  BY <1>2, <1>3, <1>4 DEF Unmoved
<1>6. OneAdded
  BY <1>3 DEF OneAdded
<1> QED
  BY <1>5, <1>6

\* A row that an agent wrote, or that is deleted, changes its status.
LEMMA RestatedUnmoved ==
    ASSUME HistoryTyped, Placed, NEW i \in 1..Len(rows),
           NEW kind \in {"visible", "interrupted", "cleared"}, rows' = Restated(i, kind),
           next' = next, turns' = turns,
           kind = "interrupted" => rows[i].admitted = TRUE /\ rows[i].by \in Agents
    PROVE  Unmoved /\ NoneAdded
<1>1. \A j \in 1..Len(rows) : rows[j] \in RowType
  BY TypesOfRows
<1>2. /\ Len(rows') = Len(rows) /\ rows'[i].status = kind
      /\ \A j \in 1..Len(rows) :
           /\ rows'[j].seq = rows[j].seq /\ rows'[j].turn = rows[j].turn
           /\ rows'[j].admitted = rows[j].admitted /\ rows'[j].by = rows[j].by
           /\ j # i => rows'[j] = rows[j]
  BY RestatedIs
<1>3. \A j \in 1..Len(rows) : rows'[j].status \in {"interrupted", "running_checkpoint"} =>
          rows[j].admitted = TRUE /\ rows[j].by \in Agents
  BY <1>1, <1>2 DEF Placed, RowType
<1> QED
  BY <1>2, <1>3 DEF Unmoved, NoneAdded

\* What an agent said is stored in its row, or in one at the end.
LEMMA StoredUnmoved ==
    ASSUME HistoryTyped, Placed, AtWork, step = "running", turns' = turns,
           NEW kind \in {"visible", "interrupted"}, Stored(kind)
    PROVE  Unmoved /\ (NoneAdded \/ OneAdded)
<1>1. /\ DOMAIN rows = 1..Len(rows) /\ Len(rows) \in Nat
      /\ next \in Nat \ {0} /\ turns \in Nat
      /\ \A i \in 1..Len(rows) : rows[i] \in RowType
  BY TypesOfRows
<1>2. CASE row = 0
  <2>1. rows' = Append(rows, Row(kind, TRUE, agent)) /\ next' = next + 1
    BY <1>2 DEF Stored
  <2>2. agent \in Agents
    BY DEF AtWork
  <2>3. /\ Row(kind, TRUE, agent) \in RowType /\ Row(kind, TRUE, agent).seq = next
        /\ Row(kind, TRUE, agent).turn = turns /\ Row(kind, TRUE, agent).admitted = TRUE
        /\ Row(kind, TRUE, agent).by = agent
    BY <1>1, <2>2 DEF Row, RowType
  <2> QED
    BY <2>1, <2>2, <2>3, AddedIs
<1>3. CASE row # 0
  <2>1. rows' = Restated(row, kind) /\ next' = next /\ row \in 1..Len(rows)
    BY <1>1, <1>3 DEF Stored, Rewritten, Restated, HistoryTyped, CountsTyped
  <2>2. rows[row].admitted = TRUE /\ rows[row].by \in Agents
    BY <1>1, <1>3, <2>1 DEF AtWork, RowType
  <2> QED
    BY <2>1, <2>2, RestatedUnmoved
<1> QED
  BY <1>2, <1>3

\* Only a claim moves a row.
LEMMA StepsUnmoved ==
    ASSUME HistoryTyped, Placed, AtWork, [HistoryNext]_historyVars
    PROVE  ClaimMessage \/ (Unmoved /\ (NoneAdded \/ OneAdded))
<1> USE DEF working
<1>0. /\ DOMAIN rows = 1..Len(rows) /\ Len(rows) \in Nat
      /\ next \in Nat \ {0} /\ turns \in Nat
      /\ \A i \in 1..Len(rows) : rows[i] \in RowType
  BY TypesOfRows
<1>a. ASSUME rows' = rows, next' = next, turns' = turns PROVE Unmoved /\ NoneAdded
  BY <1>0, <1>a DEF Unmoved, NoneAdded, Placed, RowType
<1>1. ASSUME Send PROVE Unmoved /\ OneAdded
  <2>1. next' = next + 1 /\ turns' = turns
    BY <1>1 DEF Send
  <2>2. /\ Row("visible", FALSE, "user") \in RowType
        /\ Row("visible", FALSE, "user").seq = next /\ Row("visible", FALSE, "user").turn = turns
        /\ Row("visible", FALSE, "user").admitted = FALSE
        /\ Row("visible", FALSE, "user").status = "visible"
    BY <1>0 DEF Row, RowType
  <2>3. \/ rows' = Append(Shown, Row("visible", FALSE, "user"))
        \/ rows' = Append(rows, Row("visible", FALSE, "user"))
    BY <1>1 DEF Send
  <2> QED
    BY <2>1, <2>2, <2>3, AddedIs, AddedAfterShown
<1>2. ASSUME Delete PROVE Unmoved /\ NoneAdded
  <2>1. PICK i \in 1..Len(rows) : rows' = Restated(i, "cleared")
    BY <1>0, <1>2 DEF Delete, Rewritten, Restated
  <2>2. next' = next /\ turns' = turns
    BY <1>2 DEF Delete
  <2> QED
    BY <2>1, <2>2, RestatedUnmoved
<1>4. ASSUME LoadCheckpoint PROVE Unmoved /\ NoneAdded
  BY <1>a, <1>4 DEF LoadCheckpoint
<1>5. ASSUME LoadRows PROVE Unmoved /\ NoneAdded
  BY <1>a, <1>5 DEF LoadRows
<1>6. ASSUME Save PROVE Unmoved /\ NoneAdded
  BY <1>a, <1>6 DEF Save
<1>7. ASSUME Checkpoint PROVE Unmoved /\ OneAdded
  <2>1. /\ rows' = Append(rows, Row("running_checkpoint", TRUE, agent))
        /\ next' = next + 1 /\ turns' = turns /\ agent \in Agents
    BY <1>7 DEF Checkpoint, AtWork
  <2>2. /\ Row("running_checkpoint", TRUE, agent) \in RowType
        /\ Row("running_checkpoint", TRUE, agent).seq = next
        /\ Row("running_checkpoint", TRUE, agent).turn = turns
        /\ Row("running_checkpoint", TRUE, agent).admitted = TRUE
        /\ Row("running_checkpoint", TRUE, agent).by = agent
    BY <2>1, RowIs
  <2> QED
    BY <2>1, <2>2, AddedIs
<1>8. ASSUME FinishAgent PROVE Unmoved /\ (NoneAdded \/ OneAdded)
  BY <1>8, StoredUnmoved DEF FinishAgent, Rested
<1>9. ASSUME InterruptAgent PROVE Unmoved /\ (NoneAdded \/ OneAdded)
  BY <1>9, StoredUnmoved DEF InterruptAgent, Rested
<1>10. ASSUME Fail PROVE Unmoved /\ NoneAdded
  BY <1>a, <1>10 DEF Fail, Rested
<1>11. ASSUME Resume PROVE Unmoved /\ NoneAdded
  BY <1>a, <1>11 DEF Resume
<1>12. ASSUME StopServer PROVE Unmoved /\ NoneAdded
  <2>1. rows' = Stopped /\ next' = next /\ turns' = turns
    BY <1>12 DEF StopServer, Rewritten, Stopped
  <2>2. /\ Len(Stopped) = Len(rows)
        /\ \A i \in 1..Len(rows) :
             /\ Stopped[i].seq = rows[i].seq /\ Stopped[i].turn = rows[i].turn
             /\ Stopped[i].admitted = rows[i].admitted /\ Stopped[i].by = rows[i].by
             /\ rows[i].status # "running_checkpoint" => Stopped[i] = rows[i]
             /\ rows[i].status = "running_checkpoint" => Stopped[i].status = "interrupted"
    BY StoppedIs
  <2>3. \A i \in 1..Len(rows) : Stopped[i].status \in {"interrupted", "running_checkpoint"} =>
            rows[i].admitted = TRUE /\ rows[i].by \in Agents
    BY <1>0, <2>2 DEF Placed, RowType
  <2> QED
    BY <2>1, <2>2, <2>3 DEF Unmoved, NoneAdded
<1>13. CASE UNCHANGED historyVars
  BY <1>a, <1>13 DEF historyVars
<1> QED
  BY <1>1, <1>2, <1>4, <1>5, <1>6, <1>7, <1>8, <1>9, <1>10, <1>11, <1>12, <1>13
     DEF HistoryNext

\* Who is at work, and the row it writes.
LEMMA StepAtWork ==
    ASSUME HistoryTyped, HistoryTyped', Placed, AtWork, [HistoryNext]_historyVars
    PROVE  AtWork'
<1> USE DEF working
<1>0. /\ DOMAIN rows = 1..Len(rows) /\ Len(rows) \in Nat
      /\ \A i \in 1..Len(rows) : rows[i] \in RowType
  BY TypesOfRows
<1>a. row \in 0..Len(rows)
  BY DEF HistoryTyped, CountsTyped
<1>b. ASSUME row' = row, ~ClaimMessage PROVE row' # 0 => rows'[row'].admitted /\ rows'[row'].by \in Agents
  <2>1. Unmoved
    BY <1>b, StepsUnmoved
  <2>2. row # 0 => row \in 1..Len(rows)
    BY <1>0, <1>a
  <2> QED
    BY <1>b, <2>1, <2>2 DEF AtWork, Unmoved
<1>c. ASSUME row' = row, step' = step, agent' = agent, read' = read, ~ClaimMessage PROVE AtWork'
  BY <1>b, <1>c DEF AtWork
<1>d. ASSUME step' \in {"idle", "turn"}, read' = None, row' = 0 PROVE AtWork'
  BY <1>d DEF AtWork
<1>1. ASSUME Send, ~ClaimMessage PROVE AtWork'
  BY <1>1, <1>c DEF Send
<1>2. ASSUME Delete, ~ClaimMessage PROVE AtWork'
  BY <1>2, <1>c DEF Delete
<1>3. ASSUME ClaimMessage PROVE AtWork'
  BY <1>3, <1>d DEF ClaimMessage, AtWork
<1>4. ASSUME LoadCheckpoint, ~ClaimMessage PROVE AtWork'
  <2>1. agent' \in Agents /\ step' = "loading" /\ row' = row
    BY <1>4 DEF LoadCheckpoint
  <2> QED
    BY <1>4, <1>b, <2>1 DEF AtWork
<1>5. ASSUME LoadRows, ~ClaimMessage PROVE AtWork'
  <2>1. agent' = agent /\ agent \in Agents /\ step' = "running" /\ row' = row
    BY <1>5 DEF LoadRows, AtWork
  <2> QED
    BY <1>5, <1>b, <2>1 DEF AtWork
<1>6. ASSUME Save, ~ClaimMessage PROVE AtWork'
  BY <1>6, <1>c DEF Save
<1>7. ASSUME Checkpoint PROVE AtWork'
  <2>1. /\ rows' = Append(rows, Row("running_checkpoint", TRUE, agent)) /\ row' = Len(rows) + 1
        /\ step' = "running" /\ agent' = agent /\ agent \in Agents
    BY <1>7 DEF Checkpoint, AtWork
  <2>2. /\ Row("running_checkpoint", TRUE, agent) \in RowType
        /\ Row("running_checkpoint", TRUE, agent).admitted = TRUE
        /\ Row("running_checkpoint", TRUE, agent).by = agent
    BY <2>1, RowIs
  <2>3. rows'[Len(rows) + 1] = Row("running_checkpoint", TRUE, agent)
    BY <2>1, <2>2, Appended DEF HistoryTyped, RowsTyped
  <2> QED
    BY <2>1, <2>2, <2>3 DEF AtWork
<1>8. ASSUME FinishAgent PROVE AtWork'
  BY <1>8, <1>d DEF FinishAgent, Rested
<1>9. ASSUME InterruptAgent PROVE AtWork'
  BY <1>9, <1>d DEF InterruptAgent, Rested
<1>10. ASSUME Fail PROVE AtWork'
  BY <1>10, <1>d DEF Fail, Rested
<1>11. ASSUME Resume PROVE AtWork'
  <2>1. PICK i \in 1..Len(rows) :
          rows[i].status = "interrupted" /\ row' = i /\ agent' = rows[i].by
    BY <1>0, <1>11 DEF Resume
  <2>2. rows[i].admitted /\ rows[i].by \in Agents
    BY <2>1 DEF Placed
  <2>3. rows' = rows /\ step' = "running"
    BY <1>11 DEF Resume
  <2> QED
    BY <2>1, <2>2, <2>3 DEF AtWork
<1>12. ASSUME StopServer PROVE AtWork'
  BY <1>12, <1>d DEF StopServer
<1>13. CASE UNCHANGED historyVars
  BY <1>13 DEF historyVars, AtWork
<1> QED
  BY <1>1, <1>2, <1>3, <1>4, <1>5, <1>6, <1>7, <1>8, <1>9, <1>10, <1>11, <1>12, <1>13
     DEF HistoryNext

\* The order of the history is inductive.
LEMMA OrderInductive ==
    ASSUME OrderInv, [HistoryNext]_historyVars PROVE OrderInv'
<1>1. HistoryTyped'
  BY StepTyped DEF OrderInv
<1>2. Placed' /\ HistoryInOrder'
  <2>1. CASE ClaimMessage
    BY <1>1, <2>1, ClaimKeepsOrder DEF OrderInv
  <2>2. CASE ~ClaimMessage
    BY <1>1, <2>2, StepsUnmoved, UnmovedKeepsOrder DEF OrderInv
  <2> QED
    BY <2>1, <2>2
<1>3. AtWork'
  BY <1>1, StepAtWork DEF OrderInv
<1> QED
  BY <1>1, <1>2, <1>3 DEF OrderInv

\* A new thread has no history to be in order.
LEMMA InitOrder == HistoryInit => OrderInv
<1> SUFFICES ASSUME HistoryInit PROVE OrderInv
  OBVIOUS
<1>1. HistoryTyped
  BY InitTyped
<1>2. Len(rows) = 0 /\ DOMAIN rows = {}
  BY EmptySeq, LenProperties DEF HistoryInit
<1>3. Placed /\ HistoryInOrder
  BY <1>2 DEF Placed, HistoryInOrder
<1>4. AtWork
  BY DEF HistoryInit, AtWork
<1> QED
  BY <1>1, <1>3, <1>4 DEF OrderInv

\* The history is in order in every state.
LEMMA OrderHolds == HistorySpec => []OrderInv
<1>1. HistoryInit => OrderInv
  BY InitOrder
<1>2. OrderInv /\ [HistoryNext]_historyVars => OrderInv'
  BY OrderInductive
<1> QED
  BY <1>1, <1>2, PTL DEF HistorySpec

\* The thread, its rows, its prompts and the worker have their types, and a
\* queued message is one of the rows, whatever is deleted or interrupted.
THEOREM HistoryTypes == HistorySpec => []HistoryTyped
<1>1. OrderInv => HistoryTyped
  BY DEF OrderInv
<1> QED
  BY <1>1, OrderHolds, PTL

\* The history has the turns in the order in which they ran, each with its
\* message before the answers (claim_next), with any number of agents,
\* messages, deletions and stops, and whether a turn goes on after a failure.
THEOREM HistoryKeepsOrder == HistorySpec => []HistoryInOrder
<1>1. OrderInv => HistoryInOrder
  BY DEF OrderInv
<1> QED
  BY <1>1, OrderHolds, PTL

-----------------------------------------------------------------------------
(* Prompts                                                                 *)

\* Rows grow at the end only, and what is history stays history.
Grows ==
    /\ Len(rows) <= Len(rows') /\ next <= next'
    /\ \A i \in 1..Len(rows) : rows[i].admitted => rows'[i].admitted

\* Every row that is visible up to a place was visible up to it.
NothingNew(through) ==
    \A i \in 1..Len(rows') :
        rows'[i].admitted /\ rows'[i].status = "visible" /\ rows'[i].seq <= through =>
            i \in 1..Len(rows) /\ Visible(i) /\ rows[i].seq <= through

\* A prompt stays complete while the history grows and nothing new appears
\* before its place.
LEMMA StaysComplete ==
    ASSUME HistoryTyped, HistoryTyped', NEW p, p \in Prompt, Complete(p), Grows, NothingNew(p.through)
    PROVE  Complete(p)'
<1>1. /\ Len(rows) \in Nat /\ next \in Nat /\ \A i \in 1..Len(rows) : rows[i] \in RowType
  BY TypesOfRows
<1>2. /\ Len(rows') \in Nat /\ next' \in Nat /\ \A i \in 1..Len(rows') : rows'[i] \in RowType
  BY TypesOfRowsAfter
<1>3. p.through \in Nat
  BY DEF Prompt
<1>4. \A i \in 1..Len(rows') : Visible(i)' /\ rows'[i].seq <= p.through => i \in p.has
  BY DEF Visible, NothingNew, Complete
<1>5. \A i \in p.has : i \in 1..Len(rows') /\ rows'[i].admitted
  BY <1>1, <1>2 DEF Complete, Grows
<1>6. p.through < next'
  BY <1>1, <1>2, <1>3 DEF Complete, Grows
<1> QED
  BY <1>4, <1>5, <1>6 DEF Complete

\* Nothing is at a place before the first.
LEMMA NoneIsComplete == HistoryTyped => Complete(None)
<1> SUFFICES ASSUME HistoryTyped PROVE Complete(None)
  OBVIOUS
<1>1. next \in Nat \ {0} /\ \A i \in 1..Len(rows) : rows[i] \in RowType
  BY TypesOfRows
<1>2. None.through = 0 /\ None.has = {}
  BY DEF None
<1>3. \A i \in 1..Len(rows) : ~(rows[i].seq <= 0)
  BY <1>1 DEF RowType
<1> QED
  BY <1>1, <1>2, <1>3 DEF Complete

\* The same after a step.
LEMMA NoneIsCompleteAfter == HistoryTyped' => Complete(None)'
BY NoneIsComplete, PTL

\* Rows are never removed, and history stays history.
LEMMA StepsGrow ==
    ASSUME HistoryTyped, HistoryTyped', Placed, AtWork, HistoryInOrder, [HistoryNext]_historyVars
    PROVE  Grows
<1>1. Len(rows) \in Nat /\ next \in Nat
  BY TypesOfRows
<1>2. CASE ClaimMessage
  BY <1>1, <1>2, ClaimKeepsOrder DEF Grows
<1>3. CASE Unmoved /\ (NoneAdded \/ OneAdded)
  BY <1>1, <1>3 DEF Grows, Unmoved, NoneAdded, OneAdded
<1> QED
  BY <1>2, <1>3, StepsUnmoved

\* A prompt that survives the change of some rows has nothing new before its place.
LEMMA KeptHasNothingNew ==
    ASSUME HistoryTyped, HistoryTyped', NEW p, p \in Prompt, Complete(p), NEW P,
           \A s \in P : ~(s <= p.through),
           \A i \in 1..Len(rows) : rows'[i] = rows[i] \/ rows'[i].seq \in P,
           \A i \in 1..Len(rows') : i \in 1..Len(rows) \/ rows'[i].seq = next
    PROVE  NothingNew(p.through)
<1>1. /\ next \in Nat /\ p.through \in Nat /\ p.through < next
  BY TypesOfRows DEF Prompt, Complete
<1>2. SUFFICES ASSUME NEW i \in 1..Len(rows'), rows'[i].admitted, rows'[i].status = "visible",
                      rows'[i].seq <= p.through
      PROVE  i \in 1..Len(rows) /\ Visible(i) /\ rows[i].seq <= p.through
  BY DEF NothingNew
<1>3. i \in 1..Len(rows)
  BY <1>1, <1>2
<1>4. rows'[i] = rows[i]
  BY <1>2, <1>3
<1> QED
  BY <1>2, <1>3, <1>4 DEF Visible

\* What a saved prompt can become in a step.
BecomesNothingNew(a) ==
    \/ saved'[a] = None
    \/ saved'[a] = saved[a] /\ NothingNew(saved[a].through)

\* Rows are rewritten, and the prompts they are in are deleted.
LEMMA RewrittenSaves ==
    ASSUME HistoryTyped, HistoryTyped', SavedComplete, NEW new, Rewritten(new),
           Len(rows') = Len(rows), NEW a \in Agents
    PROVE  BecomesNothingNew(a)
<1> DEFINE changed == {i \in DOMAIN rows : new[i] # rows[i]}
           P == {rows[i].seq : i \in changed} \cup {new[i].seq : i \in changed}
<1>1. rows' = new /\ saved' = Kept(P)
  BY DEF Rewritten
<1>2. DOMAIN rows = 1..Len(rows)
  BY TypesOfRows
<1>3. \A i \in 1..Len(rows) : rows'[i] = rows[i] \/ rows'[i].seq \in P
  BY <1>1, <1>2
<1> HIDE DEF P
<1>4. CASE Kept(P)[a] = None
  BY <1>1, <1>4 DEF BecomesNothingNew
<1>5. CASE Kept(P)[a] = saved[a] /\ \A s \in P : ~(s <= saved[a].through)
  <2>1. PICK p : p = saved[a]
    OBVIOUS
  <2>2. p \in Prompt /\ Complete(p)
    BY <2>1 DEF HistoryTyped, PromptsTyped, SavedComplete
  <2>3. \A i \in 1..Len(rows') : i \in 1..Len(rows) \/ rows'[i].seq = next
    OBVIOUS
  <2>4. \A s \in P : ~(s <= p.through)
    BY <1>5, <2>1
  <2>5. NothingNew(p.through)
    BY <1>3, <2>2, <2>3, <2>4, KeptHasNothingNew
  <2> QED
    BY <1>1, <1>5, <2>1, <2>5 DEF BecomesNothingNew
<1> QED
  BY <1>4, <1>5, KeptIs

\* A row after the others is beyond every place.
LEMMA AddedHasNothingNew ==
    ASSUME HistoryTyped, HistoryTyped', NEW p, p \in Prompt, Complete(p),
           NEW r \in RowType, r.seq = next, rows' = Append(rows, r)
    PROVE  NothingNew(p.through)
<1>1. Len(rows) \in Nat
  BY TypesOfRows
<1>2. /\ Len(rows') = Len(rows) + 1 /\ rows'[Len(rows) + 1] = r
      /\ \A i \in 1..Len(rows) : rows'[i] = rows[i]
  BY Appended DEF HistoryTyped, RowsTyped
<1>3. \A i \in 1..Len(rows') : i \in 1..Len(rows) \/ rows'[i].seq = next
  BY <1>1, <1>2
<1>4. PICK P : P = {}
  OBVIOUS
<1>5. /\ \A s \in P : ~(s <= p.through)
      /\ \A i \in 1..Len(rows) : rows'[i] = rows[i] \/ rows'[i].seq \in P
  BY <1>2, <1>4
<1> QED
  BY <1>3, <1>5, KeptHasNothingNew

\* Rows that stay as they are.
LEMMA SameHasNothingNew ==
    ASSUME HistoryTyped, rows' = rows, NEW through PROVE NothingNew(through)
BY DEF NothingNew, Visible

\* What an agent said leaves the saved prompts as they were, or deletes them.
LEMMA StoredSaves ==
    ASSUME HistoryTyped, HistoryTyped', Placed, AtWork, SavedComplete, step = "running",
           NEW kind \in {"visible", "interrupted"}, Stored(kind), NEW a \in Agents
    PROVE  BecomesNothingNew(a)
<1>1. /\ Len(rows) \in Nat /\ next \in Nat \ {0} /\ turns \in Nat
      /\ row \in 0..Len(rows) /\ agent \in Agents
  BY TypesOfRows DEF HistoryTyped, CountsTyped, AtWork
<1>2. CASE row = 0
  <2>1. rows' = Append(rows, Row(kind, TRUE, agent)) /\ saved' = saved
    BY <1>2 DEF Stored
  <2>2. Row(kind, TRUE, agent) \in RowType /\ Row(kind, TRUE, agent).seq = next
    BY <1>1 DEF Row, RowType
  <2>3. PICK p : p = saved[a]
    OBVIOUS
  <2>4. p \in Prompt /\ Complete(p)
    BY <2>3 DEF HistoryTyped, PromptsTyped, SavedComplete
  <2>5. NothingNew(p.through)
    BY <2>1, <2>2, <2>4, AddedHasNothingNew
  <2> QED
    BY <2>1, <2>3, <2>5 DEF BecomesNothingNew
<1>3. CASE row # 0
  <2>1. row \in 1..Len(rows) /\ Rewritten(Restated(row, kind))
    BY <1>1, <1>3 DEF Stored, Restated
  <2>2. rows' = Restated(row, kind) /\ Len(Restated(row, kind)) = Len(rows)
    BY <2>1, RestatedIs DEF Rewritten
  <2> QED
    BY <2>1, <2>2, RewrittenSaves
<1> QED
  BY <1>2, <1>3

\* Only Save stores a prompt; what is left of the others lacks nothing.
LEMMA StepsSave ==
    ASSUME HistoryTyped, HistoryTyped', Placed, AtWork, HistoryInOrder, SavedComplete,
           [HistoryNext]_historyVars, NEW a \in Agents
    PROVE  BecomesNothingNew(a) \/ (Save /\ saved'[a] = read)
<1> USE DEF working
<1>0. /\ DOMAIN rows = 1..Len(rows) /\ Len(rows) \in Nat
      /\ next \in Nat \ {0} /\ turns \in Nat
  BY TypesOfRows
<1>a. ASSUME rows' = rows, saved' = saved PROVE BecomesNothingNew(a)
  BY <1>a, SameHasNothingNew DEF BecomesNothingNew
<1>b. ASSUME saved' = saved, NEW r \in RowType, r.seq = next, rows' = Append(rows, r)
      PROVE  BecomesNothingNew(a)
  <2>1. PICK p : p = saved[a]
    OBVIOUS
  <2>2. p \in Prompt /\ Complete(p)
    BY <2>1 DEF HistoryTyped, PromptsTyped, SavedComplete
  <2>3. NothingNew(p.through)
    BY <1>b, <2>2, AddedHasNothingNew
  <2> QED
    BY <1>b, <2>1, <2>3 DEF BecomesNothingNew
<1>1. ASSUME Send PROVE BecomesNothingNew(a)
  <2>1. Row("visible", FALSE, "user") \in RowType /\ Row("visible", FALSE, "user").seq = next
    BY RowIs
  <2>2. CASE status # "paused"
    BY <1>1, <1>b, <2>1, <2>2 DEF Send
  <2>3. CASE status = "paused"
    <3> DEFINE P == {rows[i].seq : i \in {j \in DOMAIN rows : Shown[j] # rows[j]}}
    <3>a. PICK r \in RowType : r = Row("visible", FALSE, "user") /\ r.seq = next
      BY <2>1
    <3>1. rows' = Append(Shown, r) /\ saved' = Kept(P)
      BY <1>1, <2>3, <3>a DEF Send
    <3>2. /\ Shown \in Seq(RowType) /\ Len(Shown) = Len(rows)
          /\ \A i \in 1..Len(rows) : Shown[i].seq = rows[i].seq
      BY ShownIs
    <3>3. /\ Len(rows') = Len(rows) + 1
          /\ rows'[Len(rows) + 1] = r
          /\ \A i \in 1..Len(rows) : rows'[i] = Shown[i]
      BY <3>1, <3>2, Appended
    <3>4. \A i \in 1..Len(rows') : i \in 1..Len(rows) \/ rows'[i].seq = next
      <4>1. \A i \in 1..Len(rows') : i \in 1..Len(rows) \/ i = Len(rows) + 1
        BY <1>0, <3>3
      <4> QED
        BY <3>a, <3>3, <4>1
    <3>5. \A i \in 1..Len(rows) : rows'[i] = rows[i] \/ rows'[i].seq \in P
      BY <1>0, <3>2, <3>3
    <3> HIDE DEF P
    <3>6. CASE Kept(P)[a] = None
      BY <3>1, <3>6 DEF BecomesNothingNew
    <3>7. CASE Kept(P)[a] = saved[a] /\ \A s \in P : ~(s <= saved[a].through)
      <4>1. PICK p : p = saved[a]
        OBVIOUS
      <4>2. p \in Prompt /\ Complete(p) /\ \A s \in P : ~(s <= p.through)
        BY <3>7, <4>1 DEF HistoryTyped, PromptsTyped, SavedComplete
      <4>3. NothingNew(p.through)
        BY <3>4, <3>5, <4>2, KeptHasNothingNew
      <4> QED
        BY <3>1, <3>7, <4>1, <4>3 DEF BecomesNothingNew
    <3> QED
      BY <3>6, <3>7, KeptIs
  <2> QED
    BY <2>2, <2>3
<1>2. ASSUME Delete PROVE BecomesNothingNew(a)
  <2>1. PICK i \in 1..Len(rows) : Rewritten(Restated(i, "cleared"))
    BY <1>0, <1>2 DEF Delete, Restated
  <2>2. rows' = Restated(i, "cleared") /\ Len(Restated(i, "cleared")) = Len(rows)
    BY <2>1, RestatedIs DEF Rewritten
  <2> QED
    BY <2>1, <2>2, RewrittenSaves
<1>3. ASSUME ClaimMessage PROVE BecomesNothingNew(a)
  <2>1. PICK new : Rewritten(new)
    BY <1>3 DEF ClaimMessage
  <2>2. Len(rows') = Len(rows)
    BY <1>3, ClaimKeepsOrder
  <2> QED
    BY <2>1, <2>2, RewrittenSaves
<1>4. ASSUME LoadCheckpoint PROVE BecomesNothingNew(a)
  BY <1>a, <1>4 DEF LoadCheckpoint
<1>5. ASSUME LoadRows PROVE BecomesNothingNew(a)
  BY <1>a, <1>5 DEF LoadRows
<1>6. ASSUME Save PROVE BecomesNothingNew(a) \/ (Save /\ saved'[a] = read)
  <2>1. rows' = rows /\ saved' = [saved EXCEPT ![agent] = read]
    BY <1>6 DEF Save
  <2>2. saved'[a] = read \/ saved'[a] = saved[a]
    BY <2>1 DEF HistoryTyped, PromptsTyped
  <2> QED
    BY <1>6, <2>1, <2>2, SameHasNothingNew DEF BecomesNothingNew
<1>7. ASSUME Checkpoint PROVE BecomesNothingNew(a)
  <2>1. rows' = Append(rows, Row("running_checkpoint", TRUE, agent)) /\ saved' = saved
        /\ agent \in Agents
    BY <1>7 DEF Checkpoint, AtWork
  <2>2. /\ Row("running_checkpoint", TRUE, agent) \in RowType
        /\ Row("running_checkpoint", TRUE, agent).seq = next
    BY <2>1, RowIs
  <2> QED
    BY <1>b, <2>1, <2>2
<1>8. ASSUME FinishAgent PROVE BecomesNothingNew(a)
  BY <1>8, StoredSaves DEF FinishAgent
<1>9. ASSUME InterruptAgent PROVE BecomesNothingNew(a)
  BY <1>9, StoredSaves DEF InterruptAgent
<1>10. ASSUME Fail PROVE BecomesNothingNew(a)
  BY <1>a, <1>10 DEF Fail
<1>11. ASSUME Resume PROVE BecomesNothingNew(a)
  BY <1>a, <1>11 DEF Resume
<1>12. ASSUME StopServer PROVE BecomesNothingNew(a)
  <2>1. Rewritten(Stopped) /\ rows' = Stopped
    BY <1>12 DEF StopServer, Stopped, Rewritten
  <2>2. Len(Stopped) = Len(rows)
    BY StoppedIs
  <2> QED
    BY <2>1, <2>2, RewrittenSaves
<1>13. CASE UNCHANGED historyVars
  BY <1>a, <1>13 DEF historyVars
<1> QED
  BY <1>1, <1>2, <1>3, <1>4, <1>5, <1>6, <1>7, <1>8, <1>9, <1>10, <1>11, <1>12, <1>13
     DEF HistoryNext

\* Saved prompts lack nothing after any step.
LEMMA SavedStaysComplete ==
    ASSUME CompleteInv, HistoryTyped', [HistoryNext]_historyVars
    PROVE  SavedComplete'
<1>1. HistoryTyped /\ Placed /\ AtWork /\ HistoryInOrder /\ SavedComplete /\ ReadComplete
  BY DEF CompleteInv, OrderInv
<1>2. SUFFICES ASSUME NEW a \in Agents PROVE Complete(saved[a])'
  BY DEF SavedComplete
<1>3. CASE saved'[a] = None
  BY <1>3, NoneIsCompleteAfter DEF Complete
<1>4. CASE saved'[a] = saved[a] /\ NothingNew(saved[a].through)
  <2>1. PICK p : p = saved[a]
    OBVIOUS
  <2>2. p \in Prompt /\ Complete(p) /\ NothingNew(p.through)
    BY <1>1, <1>4, <2>1 DEF HistoryTyped, PromptsTyped, SavedComplete
  <2>3. Complete(p)'
    BY <1>1, <2>2, StepsGrow, StaysComplete
  <2> QED
    BY <1>4, <2>1, <2>3 DEF Complete
<1>5. CASE Save /\ saved'[a] = read
  <2>1. rows' = rows /\ next' = next
    BY <1>5 DEF Save
  <2> QED
    BY <1>1, <1>5, <2>1 DEF ReadComplete, Complete, Visible
<1> QED
  BY <1>1, <1>3, <1>4, <1>5, StepsSave DEF BecomesNothingNew

\* The rows that are read after a saved prompt complete it.
LEMMA LoadedIsComplete ==
    ASSUME HistoryTyped, Placed, ReadComplete, LoadRows
    PROVE  /\ Complete(read)'
           /\ \A i \in 1..Len(rows) : Visible(i) => i \in read'.has
<1>1. /\ DOMAIN rows = 1..Len(rows) /\ next \in Nat
      /\ \A i \in 1..Len(rows) : rows[i] \in RowType
  BY TypesOfRows
<1>2. /\ read' = [through |-> LastOf(Later), has |-> read.has \cup Later]
      /\ rows' = rows /\ next' = next
  BY DEF LoadRows, Later, LastOf
<1>3. /\ LastOf(Later) \in {read.through} \cup {rows[i].seq : i \in Later}
      /\ \A i \in Later : rows[i].seq <= LastOf(Later)
  BY LastIs
<1>4. read'.through = LastOf(Later) /\ read'.has = read.has \cup Later
  BY <1>2
<1>a. read.through \in Nat
  BY DEF HistoryTyped, PromptsTyped, Prompt
<1>5. \A i \in 1..Len(rows) : Visible(i) => i \in read'.has
  BY <1>1, <1>4, <1>a DEF Later, ReadComplete, Complete, RowType
<1>6. \A i \in read'.has : i \in 1..Len(rows) /\ rows[i].admitted
  BY <1>1, <1>4 DEF Later, ReadComplete, Complete, Visible
<1>7. read'.through < next
  BY <1>1, <1>3, <1>4 DEF Later, ReadComplete, Complete, Placed
<1>8. Complete(read)'
  BY <1>2, <1>5, <1>6, <1>7 DEF Complete, Visible
<1> QED
  BY <1>5, <1>8

\* What the agent at work has read stays complete.
LEMMA ReadStaysComplete ==
    ASSUME CompleteInv, HistoryTyped', [HistoryNext]_historyVars
    PROVE  ReadComplete'
<1> USE DEF working
<1>0. /\ DOMAIN rows = 1..Len(rows) /\ Len(rows) \in Nat /\ next \in Nat \ {0}
      /\ \A i \in 1..Len(rows) : rows[i] \in RowType
  BY TypesOfRows DEF CompleteInv, OrderInv
<1>a. HistoryTyped /\ Placed /\ AtWork /\ HistoryInOrder /\ SavedComplete /\ ReadComplete
  BY DEF CompleteInv, OrderInv
<1>b. Grows
  BY <1>a, StepsGrow
<1>c. PICK p : p = read /\ p \in Prompt /\ Complete(p)
  BY <1>a DEF HistoryTyped, PromptsTyped, ReadComplete
<1>d. ASSUME read' = read, NothingNew(p.through) PROVE ReadComplete'
  <2>1. Complete(p)'
    BY <1>a, <1>b, <1>c, <1>d, StaysComplete
  <2> QED
    BY <1>c, <1>d, <2>1 DEF ReadComplete, Complete
<1>e. ASSUME read' = None PROVE ReadComplete'
  BY <1>e, NoneIsCompleteAfter DEF ReadComplete, Complete
<1>1. ASSUME Send PROVE ReadComplete'
  <2>1. CASE status = "paused"
    BY <1>1, <1>a, <1>e, <2>1 DEF Send, CompleteInv, RestsWhenPaused, AtWork
  <2>2. CASE status # "paused"
    <3>1. /\ rows' = Append(rows, Row("visible", FALSE, "user")) /\ read' = read
      BY <1>1, <2>2 DEF Send
    <3>2. Row("visible", FALSE, "user") \in RowType /\ Row("visible", FALSE, "user").seq = next
      BY <1>a, RowIs
    <3>3. NothingNew(p.through)
      BY <1>a, <1>c, <3>1, <3>2, AddedHasNothingNew
    <3> QED
      BY <1>d, <3>1, <3>3
  <2> QED
    BY <2>1, <2>2
<1>2. ASSUME Delete PROVE ReadComplete'
  <2>1. PICK i \in 1..Len(rows) : rows' = Restated(i, "cleared")
    BY <1>0, <1>2 DEF Delete, Rewritten, Restated
  <2>2. /\ Len(rows') = Len(rows) /\ rows'[i].status = "cleared"
        /\ \A j \in 1..Len(rows) : j # i => rows'[j] = rows[j]
    BY <1>a, <2>1, RestatedIs
  <2>3. NothingNew(p.through)
    BY <2>2 DEF NothingNew, Visible
  <2> QED
    BY <1>2, <1>d, <2>3 DEF Delete
<1>3. ASSUME ClaimMessage PROVE ReadComplete'
  BY <1>3, <1>a, <1>e DEF ClaimMessage, AtWork
<1>4. ASSUME LoadCheckpoint PROVE ReadComplete'
  <2>1. PICK a \in Agents : read' = saved[a]
    BY <1>4 DEF LoadCheckpoint
  <2>2. rows' = rows /\ next' = next
    BY <1>4 DEF LoadCheckpoint
  <2> QED
    BY <1>a, <2>1, <2>2 DEF SavedComplete, ReadComplete, Complete, Visible
<1>5. ASSUME LoadRows PROVE ReadComplete'
  BY <1>5, <1>a, LoadedIsComplete DEF ReadComplete
<1>6. ASSUME Save PROVE ReadComplete'
  BY <1>6, <1>a, <1>d, SameHasNothingNew DEF Save
<1>7. ASSUME Checkpoint PROVE ReadComplete'
  <2>1. rows' = Append(rows, Row("running_checkpoint", TRUE, agent)) /\ read' = read
        /\ agent \in Agents
    BY <1>7, <1>a DEF Checkpoint, AtWork
  <2>2. /\ Row("running_checkpoint", TRUE, agent) \in RowType
        /\ Row("running_checkpoint", TRUE, agent).seq = next
    BY <1>a, <2>1, RowIs
  <2>3. NothingNew(p.through)
    BY <1>a, <1>c, <2>1, <2>2, AddedHasNothingNew
  <2> QED
    BY <1>d, <2>1, <2>3
<1>8. ASSUME FinishAgent PROVE ReadComplete'
  BY <1>8, <1>e DEF FinishAgent, Rested
<1>9. ASSUME InterruptAgent PROVE ReadComplete'
  BY <1>9, <1>e DEF InterruptAgent, Rested
<1>10. ASSUME Fail PROVE ReadComplete'
  BY <1>10, <1>e DEF Fail, Rested
<1>11. ASSUME Resume PROVE ReadComplete'
  <2>1. PICK i \in 1..Len(rows) :
          /\ rows[i].status = "interrupted"
          /\ read' = [through |-> 0, has |-> {j \in DOMAIN rows : Visible(j)} \cup {i}]
    BY <1>0, <1>11 DEF Resume
  <2>2. rows' = rows /\ next' = next
    BY <1>11 DEF Resume
  <2>3. rows[i].admitted
    BY <1>a, <2>1 DEF Placed
  <2>4. read'.through = 0 /\ read'.has = {j \in 1..Len(rows) : Visible(j)} \cup {i}
    BY <1>0, <2>1
  <2>5. \A j \in read'.has : j \in 1..Len(rows) /\ rows[j].admitted
    BY <2>3, <2>4 DEF Visible
  <2> QED
    BY <1>0, <2>2, <2>4, <2>5 DEF ReadComplete, Complete, Visible
<1>12. ASSUME StopServer PROVE ReadComplete'
  BY <1>12, <1>e DEF StopServer
<1>13. CASE UNCHANGED historyVars
  BY <1>13, <1>a DEF historyVars, ReadComplete, Complete, Visible
<1> QED
  BY <1>1, <1>2, <1>3, <1>4, <1>5, <1>6, <1>7, <1>8, <1>9, <1>10, <1>11, <1>12, <1>13
     DEF HistoryNext

\* A turn that does not go on after a failure leaves a paused thread at rest.
LEMMA StepRests ==
    ASSUME ~GoesOn, HistoryTyped, RestsWhenPaused, [HistoryNext]_historyVars
    PROVE  RestsWhenPaused'
<1> USE DEF working, RestsWhenPaused
<1>0. /\ status \in {"active", "paused", "running"}
      /\ step \in {"idle", "turn", "loading", "running"}
  BY DEF HistoryTyped, WorkTyped
<1>1. ASSUME Send PROVE RestsWhenPaused'
  BY <1>1 DEF Send
<1>2. ASSUME Delete PROVE RestsWhenPaused'
  BY <1>2 DEF Delete
<1>3. ASSUME ClaimMessage PROVE RestsWhenPaused'
  BY <1>3 DEF ClaimMessage
<1>4. ASSUME LoadCheckpoint PROVE RestsWhenPaused'
  BY <1>4 DEF LoadCheckpoint
<1>5. ASSUME LoadRows PROVE RestsWhenPaused'
  BY <1>5 DEF LoadRows
<1>6. ASSUME Save PROVE RestsWhenPaused'
  BY <1>6 DEF Save
<1>7. ASSUME Checkpoint PROVE RestsWhenPaused'
  BY <1>7 DEF Checkpoint
<1>8. ASSUME FinishAgent PROVE RestsWhenPaused'
  <2>1. step = "running" /\ status # "paused"
    BY <1>8 DEF FinishAgent
  <2>2. status' \in {"active", status}
    BY <1>8 DEF FinishAgent
  <2> QED
    BY <2>1, <2>2
<1>9. ASSUME InterruptAgent PROVE RestsWhenPaused'
  BY <1>9 DEF InterruptAgent, Rested
<1>10. ASSUME Fail PROVE RestsWhenPaused'
  BY <1>10 DEF Fail, Rested
<1>11. ASSUME Resume PROVE RestsWhenPaused'
  BY <1>11 DEF Resume
<1>12. ASSUME StopServer PROVE RestsWhenPaused'
  BY <1>12 DEF StopServer
<1>13. CASE UNCHANGED historyVars
  BY <1>13 DEF historyVars
<1> QED
  BY <1>1, <1>2, <1>3, <1>4, <1>5, <1>6, <1>7, <1>8, <1>9, <1>10, <1>11, <1>12, <1>13
     DEF HistoryNext

\* An agent at work knows the message it answers: a message of its turn that
\* is visible was there when it began.
LEMMA StepKnows ==
    ASSUME CompleteInv, HistoryTyped', [HistoryNext]_historyVars
    PROVE  KnowsItsMessage'
<1> USE DEF working
<1>0. /\ DOMAIN rows = 1..Len(rows) /\ Len(rows) \in Nat /\ next \in Nat \ {0}
      /\ \A i \in 1..Len(rows) : rows[i] \in RowType
  BY TypesOfRows DEF CompleteInv, OrderInv
<1>a. /\ HistoryTyped /\ Placed /\ AtWork /\ HistoryInOrder
      /\ ReadComplete /\ KnowsItsMessage /\ RestsWhenPaused
  BY DEF CompleteInv, OrderInv
<1>b. ASSUME step' # "running" PROVE KnowsItsMessage'
  BY <1>b DEF KnowsItsMessage
<1>c. ASSUME step' = step, read' = read, turns' = turns,
             \A i \in 1..Len(rows') : Visible(i)' /\ rows'[i].by = "user" =>
                 i \in 1..Len(rows) /\ rows'[i] = rows[i]
      PROVE  KnowsItsMessage'
  BY <1>a, <1>c DEF KnowsItsMessage, Visible
<1>1. ASSUME Send PROVE KnowsItsMessage'
  <2>1. CASE status = "paused"
    BY <1>1, <1>a, <1>b, <2>1 DEF Send, RestsWhenPaused
  <2>2. CASE status # "paused"
    <3>1. /\ rows' = Append(rows, Row("visible", FALSE, "user")) /\ read' = read
          /\ step' = step /\ turns' = turns
      BY <1>1, <2>2 DEF Send
    <3>2. /\ Row("visible", FALSE, "user") \in RowType
          /\ Row("visible", FALSE, "user").admitted = FALSE
      BY <1>a, RowIs
    <3>3. /\ Len(rows') = Len(rows) + 1 /\ rows'[Len(rows) + 1].admitted = FALSE
          /\ \A i \in 1..Len(rows) : rows'[i] = rows[i]
      BY <1>a, <3>1, <3>2, Appended DEF HistoryTyped, RowsTyped
    <3>4. \A i \in 1..Len(rows') : i \in 1..Len(rows) \/ i = Len(rows) + 1
      BY <1>0, <3>3
    <3>5. \A i \in 1..Len(rows') : Visible(i)' => i \in 1..Len(rows) /\ rows'[i] = rows[i]
      BY <3>3, <3>4 DEF Visible
    <3> QED
      BY <1>c, <3>1, <3>5
  <2> QED
    BY <2>1, <2>2
<1>2. ASSUME Delete PROVE KnowsItsMessage'
  <2>1. PICK i \in 1..Len(rows) : rows' = Restated(i, "cleared")
    BY <1>0, <1>2 DEF Delete, Rewritten, Restated
  <2>2. /\ Len(rows') = Len(rows) /\ rows'[i].status = "cleared"
        /\ \A j \in 1..Len(rows) : j # i => rows'[j] = rows[j]
    BY <1>a, <2>1, RestatedIs
  <2>3. \A j \in 1..Len(rows') : Visible(j)' => j \in 1..Len(rows) /\ rows'[j] = rows[j]
    BY <2>2 DEF Visible
  <2> QED
    BY <1>2, <1>c, <2>3 DEF Delete
<1>3. ASSUME ClaimMessage PROVE KnowsItsMessage'
  BY <1>3, <1>b DEF ClaimMessage
<1>4. ASSUME LoadCheckpoint PROVE KnowsItsMessage'
  BY <1>4, <1>b DEF LoadCheckpoint
<1>5. ASSUME LoadRows PROVE KnowsItsMessage'
  <2>1. \A i \in 1..Len(rows) : Visible(i) => i \in read'.has
    BY <1>5, <1>a, LoadedIsComplete
  <2>2. rows' = rows
    BY <1>5 DEF LoadRows
  <2> QED
    BY <2>1, <2>2 DEF KnowsItsMessage, Visible
<1>6. ASSUME Save PROVE KnowsItsMessage'
  BY <1>6, <1>c DEF Save, Visible
<1>7. ASSUME Checkpoint PROVE KnowsItsMessage'
  <2>1. /\ rows' = Append(rows, Row("running_checkpoint", TRUE, agent)) /\ read' = read
        /\ step' = step /\ turns' = turns /\ agent \in Agents
    BY <1>7, <1>a DEF Checkpoint, AtWork
  <2>2. /\ Row("running_checkpoint", TRUE, agent) \in RowType
        /\ Row("running_checkpoint", TRUE, agent).by = agent
    BY <1>a, <2>1, RowIs
  <2>3. /\ Len(rows') = Len(rows) + 1 /\ rows'[Len(rows) + 1].by = agent
        /\ \A i \in 1..Len(rows) : rows'[i] = rows[i]
    BY <1>a, <2>1, <2>2, Appended DEF HistoryTyped, RowsTyped
  <2>4. \A i \in 1..Len(rows') : i \in 1..Len(rows) \/ i = Len(rows) + 1
    BY <1>0, <2>3
  <2>5. \A i \in 1..Len(rows') : rows'[i].by = "user" => i \in 1..Len(rows) /\ rows'[i] = rows[i]
    BY <2>1, <2>3, <2>4, HistoryAssumption
  <2> QED
    BY <1>c, <2>1, <2>5
<1>8. ASSUME FinishAgent PROVE KnowsItsMessage'
  BY <1>8, <1>b DEF FinishAgent, Rested
<1>9. ASSUME InterruptAgent PROVE KnowsItsMessage'
  BY <1>9, <1>b DEF InterruptAgent, Rested
<1>10. ASSUME Fail PROVE KnowsItsMessage'
  BY <1>10, <1>b DEF Fail, Rested
<1>11. ASSUME Resume PROVE KnowsItsMessage'
  <2>1. PICK i \in 1..Len(rows) :
          read' = [through |-> 0, has |-> {j \in DOMAIN rows : Visible(j)} \cup {i}]
    BY <1>0, <1>11 DEF Resume
  <2>2. rows' = rows
    BY <1>11 DEF Resume
  <2> QED
    BY <1>0, <2>1, <2>2 DEF KnowsItsMessage, Visible
<1>12. ASSUME StopServer PROVE KnowsItsMessage'
  BY <1>12, <1>b DEF StopServer
<1>13. CASE UNCHANGED historyVars
  BY <1>13, <1>a DEF historyVars, KnowsItsMessage, Visible
<1> QED
  BY <1>1, <1>2, <1>3, <1>4, <1>5, <1>6, <1>7, <1>8, <1>9, <1>10, <1>11, <1>12, <1>13
     DEF HistoryNext

\* That prompts lack nothing is inductive together with the order.
LEMMA CompleteInductive ==
    ASSUME ~GoesOn, CompleteInv, [HistoryNext]_historyVars PROVE CompleteInv'
<1>1. OrderInv'
  BY OrderInductive DEF CompleteInv
<1>2. HistoryTyped'
  BY <1>1 DEF OrderInv
<1>3. RestsWhenPaused'
  BY StepRests DEF CompleteInv, OrderInv
<1>4. KnowsItsMessage' /\ SavedComplete' /\ ReadComplete'
  BY <1>2, StepKnows, SavedStaysComplete, ReadStaysComplete
<1> QED
  BY <1>1, <1>3, <1>4 DEF CompleteInv

\* A new thread has no prompts.
LEMMA InitComplete == HistoryInit => CompleteInv
<1> SUFFICES ASSUME HistoryInit PROVE CompleteInv
  OBVIOUS
<1>1. OrderInv /\ HistoryTyped
  BY InitOrder DEF OrderInv
<1>2. Complete(None)
  BY <1>1, NoneIsComplete
<1>3. \A a \in Agents : saved[a] = None
  BY DEF HistoryInit
<1>4. SavedComplete /\ ReadComplete
  BY <1>2, <1>3 DEF SavedComplete, ReadComplete, HistoryInit
<1>5. RestsWhenPaused /\ KnowsItsMessage
  BY DEF HistoryInit, RestsWhenPaused, KnowsItsMessage
<1> QED
  BY <1>1, <1>4, <1>5 DEF CompleteInv

\* A saved prompt lacks nothing of the history up to its place and has nothing
\* that is not history, and an agent at work knows the message it answers
\* (load_checkpoint_and_messages, the triggers of 0024_context_checkpoints):
\* for any agents, messages, deletions and stops, as long as no turn goes on
\* after an agent failed.
THEOREM HistoryLacksNothing == (GoesOn = FALSE) => (HistorySpec => []HistoryIsComplete)
<1> SUFFICES ASSUME GoesOn = FALSE PROVE HistorySpec => []HistoryIsComplete
  OBVIOUS
<1>1. HistoryInit => CompleteInv
  BY InitComplete
<1>2. CompleteInv /\ [HistoryNext]_historyVars => CompleteInv'
  BY CompleteInductive
<1>3. CompleteInv => HistoryIsComplete
  <2> SUFFICES ASSUME CompleteInv PROVE HistoryIsComplete
    OBVIOUS
  <2>1. DOMAIN rows = 1..Len(rows)
    BY TypesOfRows DEF CompleteInv, OrderInv
  <2> QED
    BY <2>1 DEF CompleteInv, SavedComplete, Complete, KnowsItsMessage, HistoryIsComplete
<1> QED
  BY <1>1, <1>2, <1>3, PTL DEF HistorySpec
=============================================================================
