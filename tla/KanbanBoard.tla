------------------------------ MODULE KanbanBoard ------------------------------
(* The governed task board (packages/core/src/agent-kanban.ts): what           *)
(* reduceKanbanEvent makes of a board.  Every event is an operator that yields *)
(* the board behind it, or no board where the reducer throws.  Events that     *)
(* only leave a mark (progress, output, stalls, comments, acceptance checks,   *)
(* consultations, context bundles) and titles, scores and digests are left     *)
(* out; a capability match is membership in Qualified, and an agent's limit    *)
(* is fixed.                                                                   *)
EXTENDS Integers, FiniteSets

CONSTANTS
    Tasks,          \* ids of tasks
    DependsOn,      \* the tasks each task waits for
    Cards,          \* model cards
    Agents,         \* agent ids
    Human,          \* a human actor
    Qualified,      \* the cards with the capabilities and the window of a task
    MaxAttempts,    \* MAX_TASK_ATTEMPTS
    Limits,         \* WIP limits that are set
    AgentLimit,     \* WIP limit of an agent
    Processes,      \* executors an attempt may run in
    NoOne           \* no assignment, no process

ASSUME BoardAssumption ==
    /\ IsFiniteSet(Tasks)
    /\ DependsOn \in [Tasks -> SUBSET Tasks]
    /\ Qualified \in [Tasks -> SUBSET Cards]
    /\ MaxAttempts \in Nat \ {0} /\ AgentLimit \in Nat \ {0}
    /\ Limits \subseteq Nat /\ Limits # {}
    /\ Human \notin Agents
    /\ NoOne \notin [card : Cards, agent : Agents] /\ NoOne \notin Processes

VARIABLE board
--------------------------------------------------------------------------------
\* KANBAN_TRANSITIONS and KANBAN_CAPACITY_STATUSES.
Transitions ==
    [backlog |-> {"ready", "blocked", "needs_intervention"},
     ready |-> {"assigned", "blocked", "backlog", "needs_intervention"},
     assigned |-> {"in_progress", "ready", "blocked", "needs_intervention"},
     in_progress |-> {"review", "blocked", "needs_intervention"},
     review |-> {"done", "assigned", "blocked", "needs_intervention"},
     blocked |-> {"ready", "backlog", "needs_intervention"},
     needs_intervention |-> {"ready", "backlog", "blocked"},
     done |-> {}]
KanbanStatus == DOMAIN Transitions
Capacity == {"assigned", "in_progress"}
Earned == {"ready", "assigned", "in_progress", "review", "done"}

Attempts == 1 .. MaxAttempts
Finished == {"completed", "failed", "cancelled"}
Assignment == [card : Cards, agent : Agents]

\* KanbanTaskState; "absent" is a task that was never created.
TaskState ==
    [status : KanbanStatus \cup {"absent"}, on : Assignment \cup {NoOne}, bound : BOOLEAN,
     attempts : 0 .. MaxAttempts, current : 0 .. MaxAttempts,
     history : [Attempts -> {"none", "running"} \cup Finished],
     process : [Attempts -> Processes \cup {NoOne}]]

Absent == [status |-> "absent", on |-> NoOne, bound |-> FALSE, attempts |-> 0, current |-> 0,
           history |-> [n \in Attempts |-> "none"], process |-> [n \in Attempts |-> NoOne]]

\* KanbanBoardState.
Board == [task : [Tasks -> TaskState], cards : [Cards -> {"unknown", "active", "retired"}],
          limit : [Cards -> Limits], cardLoad : [Cards -> Nat], agentLoad : [Agents -> Nat]]

\* createKanbanBoardState, opened.
Opened(limit) ==
    [task |-> [t \in Tasks |-> Absent], cards |-> [c \in Cards |-> "unknown"],
     limit |-> limit, cardLoad |-> [c \in Cards |-> 0], agentLoad |-> [a \in Agents |-> 0]]

HoldsCard(s, c) == s.status \in Capacity /\ s.on # NoOne /\ s.on.card = c
HoldsAgent(s, a) == s.status \in Capacity /\ s.on # NoOne /\ s.on.agent = a

\* bump, for an owner that had or has the task.
Shifted(n, had, has) == IF had = has THEN n ELSE IF has THEN n + 1 ELSE IF n > 0 THEN n - 1 ELSE 0

When(condition, next) == IF condition THEN {next} ELSE {}

\* Mutant: only the new owner's load is moved.
Commit_ForgetsOld(b, t, s) ==
    When(\/ s.status = b.task[t].status
         \/ s.status \in Transitions[b.task[t].status],
         [b EXCEPT !.task[t] = s,
                   !.cardLoad = [c \in Cards |-> Shifted(@[c], FALSE, HoldsCard(s, c))],
                   !.agentLoad = [a \in Agents |-> Shifted(@[a], FALSE, HoldsAgent(s, a))]])

\* commit: the lattice is checked, and load follows from status.
Commit(b, t, s) ==
    When(\/ s.status = b.task[t].status
         \/ s.status \in Transitions[b.task[t].status],
         [b EXCEPT !.task[t] = s,
                   !.cardLoad = [c \in Cards |->
                       Shifted(@[c], HoldsCard(b.task[t], c), HoldsCard(s, c))],
                   !.agentLoad = [a \in Agents |->
                       Shifted(@[a], HoldsAgent(b.task[t], a), HoldsAgent(s, a))]])

\* requireTask.
Open(b, t) == b.task[t].status \notin {"absent", "done"}
DependenciesDone(b, t) == \A d \in DependsOn[t] : b.task[d].status = "done"
Moved(b, t, status) == Commit(b, t, [b.task[t] EXCEPT !.status = status])
--------------------------------------------------------------------------------
\* The events of the board's cards and limits.
CardRegistered(b, c) == {[b EXCEPT !.cards[c] = "active"]}
CardRetired(b, c) == When(b.cards[c] # "unknown", [b EXCEPT !.cards[c] = "retired"])
WipLimitSet(b, c, n) == {[b EXCEPT !.limit[c] = n]}

\* The events of a task, one for each case of reduceKanbanEvent.
TaskCreated(b, t) ==
    When(b.task[t].status = "absent", [b EXCEPT !.task[t] = [Absent EXCEPT !.status = "backlog"]])

\* Mutant: a task that was blocked is not gated again.
TaskReady_TrustsBlocked(b, t) ==
    IF \/ b.task[t].status = "backlog" /\ DependenciesDone(b, t)
       \/ b.task[t].status = "blocked"
    THEN Moved(b, t, "ready") ELSE {}

TaskReady(b, t) ==
    IF b.task[t].status \in {"backlog", "blocked"} /\ DependenciesDone(b, t)
    THEN Moved(b, t, "ready") ELSE {}

TaskBlocked(b, t) == IF Open(b, t) THEN Moved(b, t, "blocked") ELSE {}

TaskEscalated(b, t) == IF Open(b, t) THEN Moved(b, t, "needs_intervention") ELSE {}

InterventionResolved(b, t, to) ==
    IF b.task[t].status = "needs_intervention" /\ (to = "ready" => DependenciesDone(b, t))
    THEN Moved(b, t, to) ELSE {}

TaskAssigned(b, t, on) ==
    IF /\ b.task[t].status = "ready"
       /\ b.cards[on.card] = "active" /\ on.card \in Qualified[t]
       /\ b.cardLoad[on.card] < b.limit[on.card]
       /\ b.agentLoad[on.agent] < AgentLimit
    THEN Commit(b, t, [b.task[t] EXCEPT !.status = "assigned", !.on = on]) ELSE {}

TaskUnassigned(b, t) ==
    IF b.task[t].status = "assigned"
    THEN Commit(b, t, [b.task[t] EXCEPT !.status = "ready", !.on = NoOne]) ELSE {}

SessionBound(b, t) == IF Open(b, t) THEN Commit(b, t, [b.task[t] EXCEPT !.bound = TRUE]) ELSE {}

AttemptStarted(b, t, agent, n) ==
    LET s == b.task[t] IN
    IF /\ s.status = "assigned" /\ s.bound
       /\ s.on # NoOne /\ s.on.agent = agent
       /\ s.attempts < MaxAttempts /\ s.history[n] = "none"
    THEN Commit(b, t, [s EXCEPT !.status = "in_progress", !.attempts = @ + 1, !.current = n,
                                !.history[n] = "running"]) ELSE {}

\* task_started of old logs: an attempt without a record.
TaskStarted(b, t, agent) ==
    LET s == b.task[t] IN
    IF /\ s.status = "assigned" /\ s.on # NoOne /\ s.on.agent = agent
       /\ s.attempts < MaxAttempts
    THEN Commit(b, t, [s EXCEPT !.status = "in_progress", !.attempts = @ + 1]) ELSE {}

ProcessStarted(b, t, n, p) ==
    LET s == b.task[t] IN
    IF Open(b, t) /\ s.history[n] = "running" /\ s.process[n] = NoOne
    THEN Commit(b, t, [s EXCEPT !.process[n] = p]) ELSE {}

\* Mutant: the verdict is written without a look at the attempt.
AttemptEnded_AnyAttempt(b, t, n, verdict) ==
    LET s == b.task[t] IN
    IF s.status = "in_progress"
    THEN Commit(b, t, [s EXCEPT !.status = IF verdict = "completed" THEN "review" ELSE "blocked",
                                !.history[n] = verdict]) ELSE {}

\* task_attempt_completed, task_attempt_failed and task_attempt_cancelled.
AttemptEnded(b, t, n, verdict) ==
    LET s == b.task[t] IN
    IF s.status = "in_progress" /\ s.current = n /\ s.history[n] = "running"
    THEN Commit(b, t, [s EXCEPT !.status = IF verdict = "completed" THEN "review" ELSE "blocked",
                                !.history[n] = verdict]) ELSE {}

OrphanReaped(b, t, n, p) ==
    LET s == b.task[t] IN
    IF Open(b, t) /\ s.history[n] = "running" /\ s.process[n] = p
    THEN Commit(b, t, [s EXCEPT !.status = "blocked", !.history[n] = "failed"]) ELSE {}

SubmittedForReview(b, t) ==
    IF b.task[t].status = "in_progress" THEN Moved(b, t, "review") ELSE {}

\* The rework re-enters through "assigned", without a look at the limits.
ReviewRejected(b, t, reviewer) ==
    LET s == b.task[t] IN
    IF s.status = "review" /\ (s.on # NoOne => reviewer # s.on.agent)
    THEN Moved(b, t, "assigned") ELSE {}

ReviewAccepted(b, t, n) ==
    IF b.task[t].status = "review" /\ b.task[t].current = n THEN Moved(b, t, "done") ELSE {}

\* task_completed by a reviewer who is not the worker.
TaskCompleted(b, t, reviewer) ==
    LET s == b.task[t] IN
    IF s.status = "review" /\ (s.on # NoOne => reviewer # s.on.agent)
    THEN Moved(b, t, "done") ELSE {}
--------------------------------------------------------------------------------
BoardInit == \E n \in Limits : board = Opened([c \in Cards |-> n])

TaskStep(t) ==
    \/ board' \in TaskCreated(board, t)
    \/ board' \in TaskReady(board, t)
    \/ board' \in TaskBlocked(board, t)
    \/ board' \in TaskEscalated(board, t)
    \/ \E to \in {"ready", "backlog", "blocked"} : board' \in InterventionResolved(board, t, to)
    \/ \E on \in Assignment : board' \in TaskAssigned(board, t, on)
    \/ board' \in TaskUnassigned(board, t)
    \/ board' \in SessionBound(board, t)
    \/ \E a \in Agents, n \in Attempts : board' \in AttemptStarted(board, t, a, n)
    \/ \E a \in Agents : board' \in TaskStarted(board, t, a)
    \/ \E n \in Attempts, p \in Processes : board' \in ProcessStarted(board, t, n, p)
    \/ \E n \in Attempts, v \in Finished : board' \in AttemptEnded(board, t, n, v)
    \/ \E n \in Attempts, p \in Processes : board' \in OrphanReaped(board, t, n, p)
    \/ board' \in SubmittedForReview(board, t)
    \/ \E r \in Agents \cup {Human} : board' \in ReviewRejected(board, t, r)
    \/ \E n \in Attempts : board' \in ReviewAccepted(board, t, n)
    \/ \E r \in Agents \cup {Human} : board' \in TaskCompleted(board, t, r)

CardStep(c) ==
    \/ board' \in CardRegistered(board, c)
    \/ board' \in CardRetired(board, c)
    \/ \E n \in Limits : board' \in WipLimitSet(board, c, n)

BoardNext == (\E t \in Tasks : TaskStep(t)) \/ (\E c \in Cards : CardStep(c))

BoardSpec == BoardInit /\ [][BoardNext]_board
--------------------------------------------------------------------------------
BoardTypeOK == board \in Board

\* Load never drifts from what the tasks say: a model or an agent is charged for
\* the tasks it holds, through unassignments, failures, reworks and reassigned
\* retries ("load is a function of status, so it cannot drift").
LoadMatchesStatus ==
    /\ \A c \in Cards :
         board.cardLoad[c] = Cardinality({t \in Tasks : HoldsCard(board.task[t], c)})
    /\ \A a \in Agents :
         board.agentLoad[a] = Cardinality({t \in Tasks : HoldsAgent(board.task[t], a)})

\* A task stands behind "ready" only while all it depends on is done, whatever
\* detour over blocked, intervention or rework it took.
WorkIsEarned ==
    \A t \in Tasks : board.task[t].status \in Earned => DependenciesDone(board, t)

\* What the board reported stays: a finished attempt keeps its verdict, a done
\* task changes no more, and attempts are counted upwards.
HistoryIsFinal ==
    [][\A t \in Tasks :
         /\ board.task[t].status = "done" => board'.task[t] = board.task[t]
         /\ board.task[t].attempts <= board'.task[t].attempts
         /\ \A n \in Attempts : board.task[t].history[n] \in Finished =>
              board'.task[t].history[n] = board.task[t].history[n]]_board
================================================================================
