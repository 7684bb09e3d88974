-------------------------- MODULE HistoryAdmission --------------------------
(* The history of one thread as its agents read it: the place a message gets *)
(* when it is accepted and the one it has when its turn starts, the rows     *)
(* agents write, and the shortened prompts that are saved for the next turn. *)
EXTENDS Integers, FiniteSets, Sequences

CONSTANTS
    Agents,         \* who answer in the thread
    GoesOn,         \* whether a turn goes on after an agent failed
    MaxMessages,    \* bound: messages accepted
    MaxRows,        \* bound: rows in the thread
    MaxDeletes,     \* bound: deletions
    MaxStops        \* bound: stops of the server

ASSUME HistoryAssumption ==
    /\ "user" \notin Agents /\ GoesOn \in BOOLEAN
    /\ MaxMessages \in Nat /\ MaxRows \in Nat
    /\ MaxDeletes \in Nat /\ MaxStops \in Nat

VARIABLES
    rows,           \* in the order of insertion: [seq, turn, status, admitted, by]
    next,           \* next_seq
    queue,          \* rows of messages whose jobs are queued
    status,         \* of the thread
    saved,          \* of each agent: its context checkpoint
    step,           \* of the worker: idle, turn, loading, running
    agent,          \* who is at work
    read,           \* the prompt it was given: [through, has]
    safe,           \* checkpoint_safe
    row,            \* the row it writes, 0 for none yet
    turns,          \* turns started
    used            \* deletions and stops so far

historyVars == <<rows, next, queue, status, saved, step, agent, read, safe, row, turns, used>>
working == <<step, agent, read, safe, row, turns>>

Nobody == "nobody"
None == [through |-> 0, has |-> {}]

Visible(i) == rows[i].admitted /\ rows[i].status = "visible"

HistoryInit ==
    /\ rows = <<>> /\ next = 1 /\ queue = <<>>
    /\ status = "active"
    /\ saved = [a \in Agents |-> None]
    /\ step = "idle" /\ agent = Nobody
    /\ read = None /\ safe = FALSE /\ row = 0 /\ turns = 0
    /\ used = [deletes |-> 0, crashes |-> 0]
-----------------------------------------------------------------------------
(* The triggers of the database.                                            *)

\* Faulty: a saved prompt outlives what it tells.
KeptAnyway(places) == saved

\* What is left of the saved prompts when rows changed their places or content.
Kept(places) ==
    [a \in Agents |-> IF \E s \in places : s <= saved[a].through THEN None ELSE saved[a]]

\* The rows that change, and the prompts that are deleted because of it.
Rewritten(new) ==
    LET changed == {i \in DOMAIN rows : new[i] # rows[i]}
    IN  /\ rows' = new
        /\ saved' = Kept({rows[i].seq : i \in changed} \cup {new[i].seq : i \in changed})

\* Interrupted rows become ordinary ones.
Shown == [i \in DOMAIN rows |-> IF rows[i].status = "interrupted"
                                THEN [rows[i] EXCEPT !.status = "visible"] ELSE rows[i]]
-----------------------------------------------------------------------------
(* Users.                                                                   *)

Row(kind, admitted, by) ==
    [seq |-> next, turn |-> turns, status |-> kind, admitted |-> admitted, by |-> by]

\* A message takes the next place, but is not history yet.  On a paused thread
\* it closes what was interrupted.
Send ==
    /\ Cardinality({i \in DOMAIN rows : rows[i].by = "user"}) < MaxMessages
    /\ IF status = "paused"
       THEN /\ rows' = Append(Shown, Row("visible", FALSE, "user"))
            /\ saved' = Kept({rows[i].seq : i \in {j \in DOMAIN rows : Shown[j] # rows[j]}})
            /\ status' = "active"
       ELSE /\ rows' = Append(rows, Row("visible", FALSE, "user"))
            /\ UNCHANGED <<saved, status>>
    /\ next' = next + 1
    /\ queue' = Append(queue, Len(rows) + 1)
    /\ UNCHANGED <<working, used>>

Delete ==
    /\ used.deletes < MaxDeletes
    /\ used' = [used EXCEPT !.deletes = @ + 1]
    /\ \E i \in DOMAIN rows :
           /\ rows[i].status \in {"visible", "interrupted"}
           /\ Rewritten([rows EXCEPT ![i].status = "cleared"])
    /\ UNCHANGED <<next, queue, status, working>>
-----------------------------------------------------------------------------
(* The worker.                                                              *)

\* Faulty: a message keeps the place it was accepted at.
NeverOvertaken(i) == FALSE

\* Something of the history is already beyond the place of a message.
Overtaken(i) ==
    \/ \E j \in DOMAIN rows : rows[j].admitted /\ rows[j].seq >= rows[i].seq
    \/ \E a \in Agents : saved[a].through >= rows[i].seq

\* The job of a message is claimed, which makes it history, and its turn
\* starts when the thread is active.
ClaimMessage ==
    /\ step = "idle" /\ queue # <<>>
    /\ LET i == Head(queue)
           at == IF Overtaken(i) THEN next ELSE rows[i].seq
       IN  /\ Rewritten([rows EXCEPT ![i].seq = at, ![i].admitted = TRUE, ![i].turn = turns + 1])
           /\ next' = IF Overtaken(i) THEN next + 1 ELSE next
    /\ queue' = Tail(queue)
    /\ turns' = turns + 1
    /\ step' = IF status = "active" THEN "turn" ELSE "idle"
    /\ UNCHANGED <<status, agent, read, safe, row, used>>

\* An agent is asked.  It starts from the prompt that was saved for it.
LoadCheckpoint ==
    /\ step = "turn"
    /\ \E a \in Agents : agent' = a /\ read' = saved[a]
    /\ step' = "loading"
    /\ UNCHANGED <<rows, next, queue, status, saved, safe, row, turns, used>>

\* The rows after it are read later.  A delegated prompt is never saved.
LoadRows ==
    /\ step = "loading"
    /\ LET later == {i \in DOMAIN rows : Visible(i) /\ rows[i].seq > read.through}
           last == CHOOSE s \in {read.through} \cup {rows[i].seq : i \in later} :
                       \A i \in later : rows[i].seq <= s
       IN  read' = [through |-> last, has |-> read.has \cup later]
    /\ safe' \in BOOLEAN
    /\ step' = "running"
    /\ UNCHANGED <<rows, next, queue, status, saved, agent, row, turns, used>>

\* The prompt was shortened, and is saved as it is.
Save ==
    /\ step = "running" /\ safe /\ read.through # 0
    /\ saved' = [saved EXCEPT ![agent] = read]
    /\ UNCHANGED <<rows, next, queue, status, working, used>>

\* The first calls of an agent make it a row.
Checkpoint ==
    /\ step = "running" /\ row = 0 /\ Len(rows) < MaxRows
    /\ rows' = Append(rows, Row("running_checkpoint", TRUE, agent))
    /\ row' = Len(rows) + 1
    /\ next' = next + 1
    /\ safe' = FALSE
    /\ UNCHANGED <<queue, status, saved, step, agent, read, turns, used>>

\* What an agent said is stored, in its row if it has one.
Stored(kind) ==
    IF row = 0
    THEN /\ Len(rows) < MaxRows
         /\ rows' = Append(rows, Row(kind, TRUE, agent))
         /\ next' = next + 1
         /\ UNCHANGED saved
    ELSE /\ Rewritten([rows EXCEPT ![row].status = kind])
         /\ UNCHANGED next

\* The agent at work is done.
Rested(left) ==
    /\ step' = left /\ agent' = Nobody
    /\ read' = None /\ safe' = FALSE /\ row' = 0
    /\ UNCHANGED <<queue, turns, used>>

\* A row that was deleted while a resumed agent was at work is not found again.
Lost == row # 0 /\ rows[row].status = "cleared"

\* It has answered, and perhaps another one is asked.
FinishAgent ==
    /\ step = "running" /\ ~Lost
    /\ Stored("visible")
    /\ IF status = "running" THEN status' = "active" /\ Rested("idle")
       ELSE /\ UNCHANGED status
            /\ \E left \in {"turn", "idle"} : Rested(left)

\* It asks the user, or fails with something said, which pauses the thread.
InterruptAgent ==
    /\ step = "running" /\ ~Lost
    /\ Stored("interrupted")
    /\ status' = "paused"
    /\ \E left \in (IF GoesOn /\ status # "running" THEN {"turn", "idle"} ELSE {"idle"}) :
           Rested(left)

\* It fails with nothing to keep.
Fail ==
    /\ step = "running" /\ (row # 0 => Lost)
    /\ status' = IF status = "running" THEN "paused" ELSE status
    /\ UNCHANGED <<rows, next, saved>>
    /\ Rested("idle")

\* What was interrupted last goes on, with the whole history before it.
Resume ==
    /\ step = "idle" /\ status = "paused"
    /\ \E i \in DOMAIN rows :
           /\ rows[i].status = "interrupted"
           /\ \A j \in DOMAIN rows : rows[j].status = "interrupted" => j <= i
           /\ row' = i /\ agent' = rows[i].by
           /\ read' = [through |-> 0, has |-> {j \in DOMAIN rows : Visible(j)} \cup {i}]
    /\ status' = "running" /\ step' = "running" /\ safe' = FALSE
    /\ UNCHANGED <<rows, next, queue, saved, turns, used>>

\* The server stops and starts: a row at work was interrupted.  A thread that
\* was resumed is paused again, unless a message waits for it.
StopServer ==
    /\ used.crashes < MaxStops
    /\ used' = [used EXCEPT !.crashes = @ + 1]
    /\ Rewritten([i \in DOMAIN rows |->
           IF rows[i].status = "running_checkpoint" THEN [rows[i] EXCEPT !.status = "interrupted"]
           ELSE rows[i]])
    /\ status' = IF status # "running" \/ queue # <<>> THEN status
                 ELSE IF \E i \in DOMAIN rows : rows[i].status = "interrupted" THEN "paused"
                 ELSE "active"
    /\ step' = "idle" /\ agent' = Nobody /\ read' = None /\ safe' = FALSE /\ row' = 0
    /\ UNCHANGED <<next, queue, turns>>

HistoryNext ==
    \/ Send \/ Delete
    \/ ClaimMessage \/ LoadCheckpoint \/ LoadRows \/ Save \/ Checkpoint
    \/ FinishAgent \/ InterruptAgent \/ Fail \/ Resume \/ StopServer

HistorySpec == HistoryInit /\ [][HistoryNext]_historyVars
-----------------------------------------------------------------------------
\* The history has the turns in the order in which they ran, each with its
\* message before the answers, whatever was accepted while one was running
\* (claim_next).
HistoryInOrder ==
    \A i, j \in DOMAIN rows :
        (rows[i].admitted /\ rows[j].admitted /\ rows[i].seq < rows[j].seq) =>
            /\ rows[i].turn <= rows[j].turn
            /\ rows[i].turn = rows[j].turn => rows[j].by # "user"

\* A saved prompt lacks nothing of the history up to its place and has nothing
\* that is not history; and an agent at work knows the message it answers.
HistoryIsComplete ==
    /\ \A a \in Agents, i \in DOMAIN rows :
           (Visible(i) /\ rows[i].seq <= saved[a].through) => i \in saved[a].has
    /\ \A a \in Agents : \A i \in saved[a].has : rows[i].admitted
    /\ step = "running" =>
           \A i \in DOMAIN rows :
               (rows[i].by = "user" /\ rows[i].turn = turns /\ Visible(i)) => i \in read.has

\* A message that was deleted is in no saved prompt (0024_context_checkpoints).
DeletedStaysOut ==
    \A a \in Agents : \A i \in saved[a].has : rows[i].status # "cleared"
=============================================================================
